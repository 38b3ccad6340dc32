------------------------------ MODULE Namespace ------------------------------
(***************************************************************************)
(* What the metadata server promises the clients whose calls it runs       *)
(* concurrently.  The namespace is a map from slots (a directory and a     *)
(* name) to stats.  Each call takes effect between its invocation and its  *)
(* return:                                                                 *)
(*                                                                         *)
(*   - the creation of one name is a single atomic step that finds the     *)
(*     name absent and adds it with an inode number nobody else has;       *)
(*   - a call that reports that a name exists, or is absent, saw it so;    *)
(*   - a batch creates its names one after the other and stops at the      *)
(*     first one it cannot create;                                         *)
(*   - a bulk insertion puts all its names in place at once, replacing     *)
(*     what is there;                                                      *)
(*   - a call that fails for any other reason changes nothing more.        *)
(***************************************************************************)
EXTENDS Naturals, Sequences

CONSTANTS
    Thread,    \* who makes calls
    Slot,      \* where a stat can be
    Request,   \* the calls
    SlotOf(_, _),  \* SlotOf(r, i): the slot of the i-th name of call r
    Creates,   \* the operations that create the names they are given
    Reads,     \* the operations that look one name up
    KindOf(_), \* the kind of what a call creates
    Ino,       \* inode numbers
    NoEnt,     \* what an empty slot holds
    BulkStat,  \* what a bulk insertion stores
    Base,      \* the namespace found at the start
    Error      \* the statuses of calls that fail for reasons of their own

VARIABLES
    ns,        \* the namespace
    active,    \* the threads in a call
    req,       \* the call of a thread
    made,      \* how many names it has created
    code,      \* its status, "Pending" until the call has taken effect
    stat       \* what a lookup returns

nsVars == <<ns, active, req, made, code, stat>>

Init ==
    /\ ns = Base
    /\ active = {}
    /\ req \in [Thread -> Request]
    /\ made = [t \in Thread |-> 0]
    /\ code = [t \in Thread |-> "OK"]
    /\ stat = [t \in Thread |-> NoEnt]

Invoke(t, r) ==
    /\ t \notin active
    /\ active' = active \cup {t}
    /\ req' = [req EXCEPT ![t] = r]
    /\ made' = [made EXCEPT ![t] = 0]
    /\ code' = [code EXCEPT ![t] = "Pending"]
    /\ stat' = [stat EXCEPT ![t] = NoEnt]
    /\ UNCHANGED ns

Pending(t) == t \in active /\ code[t] = "Pending"

Decide(t, c) == code' = [code EXCEPT ![t] = c]

\* Nobody has been given this inode number.
Fresh(i) == \A s \in Slot : ns[s] # Base[s] => ns[s].ino # i

\* The next name of a create is absent and is added.
Create(t) ==
    /\ Pending(t)
    /\ req[t].op \in Creates
    /\ made[t] < Len(req[t].names)
    /\ LET s   == SlotOf(req[t], made[t] + 1)
           new == ns'[s]
       IN /\ ns[s] = NoEnt
          /\ new.ino \in Ino /\ Fresh(new.ino)
          /\ new = [kind |-> KindOf(req[t]), ino |-> new.ino]
          /\ ns' = [ns EXCEPT ![s] = new]
    /\ made' = [made EXCEPT ![t] = @ + 1]
    /\ IF made[t] + 1 = Len(req[t].names) THEN Decide(t, "OK") ELSE UNCHANGED code
    /\ UNCHANGED <<active, req, stat>>

\* The next name of a create is there already.
Exists(t) ==
    /\ Pending(t)
    /\ req[t].op \in Creates
    /\ made[t] < Len(req[t].names)
    /\ ns[SlotOf(req[t], made[t] + 1)] # NoEnt
    /\ Decide(t, "AlreadyExists")
    /\ UNCHANGED <<ns, active, req, made, stat>>

\* A batch of no names.
Nothing(t) ==
    /\ Pending(t)
    /\ req[t].op \in Creates
    /\ req[t].names = <<>>
    /\ Decide(t, "OK")
    /\ UNCHANGED <<ns, active, req, made, stat>>

Bulk(t) ==
    /\ Pending(t)
    /\ req[t].op = "Bukin"
    /\ LET in == {SlotOf(req[t], i) : i \in DOMAIN req[t].names}
       IN ns' = [s \in Slot |-> IF s \in in THEN BulkStat ELSE ns[s]]
    /\ Decide(t, "OK")
    /\ UNCHANGED <<active, req, made, stat>>

Lookup(t) ==
    /\ Pending(t)
    /\ req[t].op \in Reads
    /\ LET s == ns[SlotOf(req[t], 1)]
       IN \/ /\ s = NoEnt
             /\ Decide(t, "NotFound")
             /\ UNCHANGED stat
          \/ /\ s # NoEnt
             /\ req[t].op = "Lokup" /\ s.kind # "dir"
             /\ Decide(t, "DirExpected")
             /\ UNCHANGED stat
          \/ /\ s # NoEnt
             /\ req[t].op = "Lokup" => s.kind = "dir"
             /\ Decide(t, "OK")
             /\ stat' = [stat EXCEPT ![t] = s]
    /\ UNCHANGED <<ns, active, req, made>>

Abort(t) ==
    /\ Pending(t)
    /\ \E c \in Error : Decide(t, c)
    /\ UNCHANGED <<ns, active, req, made, stat>>

Reply(t) ==
    /\ t \in active
    /\ code[t] # "Pending"
    /\ active' = active \ {t}
    /\ UNCHANGED <<ns, req, made, code, stat>>

Next == \E t \in Thread :
           \/ \E r \in Request : Invoke(t, r)
           \/ Create(t) \/ Exists(t) \/ Nothing(t) \/ Bulk(t) \/ Lookup(t)
           \/ Abort(t) \/ Reply(t)

Spec == Init /\ [][Next]_nsVars
=============================================================================
