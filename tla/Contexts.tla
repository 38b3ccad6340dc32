------------------------------ MODULE Contexts ------------------------------
(***************************************************************************)
(* The batch context or the bulk context of a directory at a client, for   *)
(* any number of threads that share it (fscli.cc).                         *)
(*                                                                         *)
(* Both have a commit status and a first error, under a mutex, and for     *)
(* each server something under a mutex of its own: a batch a buffer of     *)
(* names to be created (Mkfls1), a bulk insertion a db of its own that the *)
(* server takes over in the end (Bukin1, fsbuk.cc).  Neither mutex covers  *)
(* a whole call: an action is one critical section.  The call to the       *)
(* server is made under the mutex of the buffer or db and is part of the   *)
(* section.                                                                *)
(***************************************************************************)
EXTENDS Client, Integers, Sequences, SequencesExt, FiniteSets

CONSTANTS Name,
          Kind,            \* the contexts there may be: "batch", "bulk"
          srvs_,           \* number of servers
          Hash,            \* Hash[x]: the hash of name x
          zsrv,            \* the zeroth server of the directory
          batch_size,      \* options_.batch_size
          InitCount,       \* what WriBuf.n may be before anything sets it
          Width,           \* 2^32, the number of values of a uint32_t
          bulk_use_copy,   \* FilesystemDbOptions: tables are copied, not renamed
          skip_name_collision_checks   \* FilesystemOptions of the servers

ASSUME ContextAssumption ==
    /\ Kind \subseteq {"batch", "bulk"}
    /\ srvs_ \in Nat \ {0} /\ zsrv \in Nat
    /\ Name # {} /\ Hash \in [Name -> Nat]
    /\ Width \in Nat \ {0, 1} /\ batch_size \in 0 .. Width - 1
    /\ InitCount \subseteq 0 .. Width - 1
    /\ bulk_use_copy \in BOOLEAN /\ skip_name_collision_checks \in BOOLEAN

Srv == 0 .. srvs_ - 1
Status == {"ok", "error"}

\* FetchDir: as many virtual servers as servers, and all of them in use.
giga == INSTANCE DirectoryIndex WITH
    kMaxRadix <- 16, num_virtual_servers <- srvs_, num_servers <- srvs_,
    zeroth_server <- zsrv

\* No index has more partitions than its bitmap may have bits.
ASSUME IndexAssumption == srvs_ <= giga!kMaxPartitions

VARIABLES kind,
          commit_status,   \* 0, 1 while committing, 2
          bg_status,       \* first error
          namearr, n,      \* the write buffers of a batch
          db,              \* db[i]: "null", "unopened" when Open failed, or "open"
          mem, tables,     \* names put in the open db, and in the files at dbloc
          stored,          \* names in the servers' dbs
          pc, name, srv, s,   \* what each thread is doing
          put,             \* history: names a server may be given
          early,           \* history: names reported inserted before a commit began
          committed        \* history: a commit was reported OK

buffers == <<namearr, n>>
dbs == <<db, mem, tables>>
vars == <<kind, commit_status, bg_status, buffers, dbs, stored, pc, name, srv, s,
          put, early, committed>>

TypeOK ==
    /\ kind \in Kind
    /\ commit_status \in 0 .. 2 /\ bg_status \in Status
    /\ namearr \in [Srv -> Seq(Name)] /\ n \in [Srv -> 0 .. Width - 1]
    /\ db \in [Srv -> {"null", "unopened", "open"}]
    /\ mem \in [Srv -> SUBSET Name] /\ tables \in [Srv -> SUBSET Name]
    /\ stored \subseteq Name
    /\ pc \in [Thread -> {"idle", "insert", "inserted", "commit", "committed", "undefined"}]
    /\ name \in [Thread -> Name] /\ srv \in [Thread -> 0 .. srvs_]
    /\ s \in [Thread -> Status]
    /\ put \subseteq Name /\ early \subseteq Name /\ committed \in BOOLEAN

\* A new context.  The counts of a batch hold what was in memory; dbloc may hold what
\* an earlier client with the same id has left.
Init ==
    /\ kind \in Kind
    /\ commit_status = 0 /\ bg_status = "ok"
    /\ namearr = [i \in Srv |-> <<>>]
    /\ n \in [Srv -> IF kind = "batch" THEN InitCount ELSE {0}]
    /\ db = [i \in Srv |-> "null"]
    /\ mem = [i \in Srv |-> {}]
    /\ \E old \in IF kind = "batch" THEN {{}} ELSE SUBSET Name :
          tables = [i \in Srv |-> {x \in old : giga!SelectServer(Hash[x]) = i}]
    /\ stored = {}
    /\ pc = [t \in Thread |-> "idle"]
    /\ name \in [Thread -> {CHOOSE x \in Name : TRUE}]
    /\ srv = [t \in Thread |-> 0]
    /\ s = [t \in Thread |-> "ok"]
    /\ put = {} /\ early = {} /\ committed = FALSE
-----------------------------------------------------------------------------
(* What BatchInsert and BulkInsert, BatchCommit and BulkCommit do alike.    *)

\* The first section of an insertion.  Otherwise the call returns an error.
Insert(t, x) ==
    /\ pc[t] = "idle"
    /\ commit_status = 0 /\ bg_status = "ok"
    /\ pc' = [pc EXCEPT ![t] = "insert"]
    /\ name' = [name EXCEPT ![t] = x]
    /\ srv' = [srv EXCEPT ![t] = giga!SelectServer(Hash[x])]
    /\ UNCHANGED <<kind, commit_status, bg_status, buffers, dbs, stored, s, put, early,
                   committed>>

Record(t) == bg_status' = IF bg_status = "ok" THEN s[t] ELSE bg_status

\* The last section of an insertion.
Inserted(t) ==
    /\ pc[t] = "inserted"
    /\ Record(t)
    /\ early' = IF s[t] = "ok" /\ commit_status = 0 THEN early \cup {name[t]} ELSE early
    /\ pc' = [pc EXCEPT ![t] = "idle"]
    /\ UNCHANGED <<kind, commit_status, buffers, dbs, stored, name, srv, s, put, committed>>

\* The first section of a commit.  Otherwise the call returns what is known.
Commit(t) ==
    /\ pc[t] = "idle"
    /\ commit_status = 0 /\ bg_status = "ok"
    /\ commit_status' = 1
    /\ pc' = [pc EXCEPT ![t] = "commit"]
    /\ srv' = [srv EXCEPT ![t] = 0]
    /\ s' = [s EXCEPT ![t] = "ok"]
    /\ UNCHANGED <<kind, bg_status, buffers, dbs, stored, name, put, early, committed>>

\* Mutant: what fails does not end the commit.
NextServerAnyway(t, result) ==
    /\ UNCHANGED s
    /\ pc' = [pc EXCEPT ![t] = IF srv[t] + 1 = srvs_ THEN "committed" ELSE "commit"]
    /\ srv' = [srv EXCEPT ![t] = @ + 1]
\* A commit goes from server to server until one fails.
NextServer(t, result) ==
    /\ s' = [s EXCEPT ![t] = result]
    /\ pc' = [pc EXCEPT ![t] =
          IF result = "error" \/ srv[t] + 1 = srvs_ THEN "committed" ELSE "commit"]
    /\ srv' = [srv EXCEPT ![t] = @ + 1]

\* The last section of a commit.
Committed(t) ==
    /\ pc[t] = "committed"
    /\ commit_status' = 2
    /\ Record(t)
    /\ committed' = (s[t] = "ok")
    /\ pc' = [pc EXCEPT ![t] = "idle"]
    /\ UNCHANGED <<kind, buffers, dbs, stored, name, srv, s, put, early>>
-----------------------------------------------------------------------------
(* Batches.                                                                 *)
BatchInsert(t, x) == kind = "batch" /\ Insert(t, x)
BatchInserted(t) == kind = "batch" /\ Inserted(t)
BatchCommit(t) == kind = "batch" /\ Commit(t)
BatchCommitted(t) == kind = "batch" /\ Committed(t)

\* Mkfls2: the server goes through the names, at most n of them, and stops at one
\* that cannot be stored or, unless it does not check, exists.  An answer may be lost
\* after it is done.
Mkfls2(i, result) ==
    \E m \in 0 .. Len(namearr[i]) :
        /\ ~skip_name_collision_checks =>
               /\ IsInjective(SubSeq(namearr[i], 1, m))
               /\ ToSet(SubSeq(namearr[i], 1, m)) \cap stored = {}
        /\ m <= n[i]
        /\ result = "ok" => m = n[i] \/ m = Len(namearr[i])
        /\ stored' = stored \cup ToSet(SubSeq(namearr[i], 1, m))

\* Send a buffer, and empty it when the server has taken it.
Flush(i, result) ==
    /\ Mkfls2(i, result)
    /\ IF result = "ok"
       THEN /\ namearr' = [namearr EXCEPT ![i] = <<>>]
            /\ n' = [n EXCEPT ![i] = 0]
       ELSE UNCHANGED buffers

\* Mutant: the first name of an empty buffer is not counted.
AppendNameUncounted(i, x) ==
    /\ namearr' = [namearr EXCEPT ![i] = Append(@, x)]
    /\ n' = [n EXCEPT ![i] = IF namearr[i] = <<>> THEN @ ELSE (@ + 1) % Width]
AppendName(i, x) ==
    /\ namearr' = [namearr EXCEPT ![i] = Append(@, x)]
    /\ n' = [n EXCEPT ![i] = (@ + 1) % Width]

\* Mkfls1 for an insertion: a full buffer goes out before the name comes in.
Mkfls1(t) ==
    LET i == srv[t]
    IN /\ pc[t] = "insert" /\ kind = "batch"
       /\ \E result \in Status :
             /\ s' = [s EXCEPT ![t] = result]
             /\ put' = IF result = "ok" THEN put \cup {name[t]} ELSE put
             /\ \/ /\ n[i] < batch_size
                   /\ result = "ok"
                   /\ AppendName(i, name[t])
                   /\ UNCHANGED stored
                \/ /\ n[i] >= batch_size
                   /\ result = "error"
                   /\ Flush(i, result)
                \/ /\ n[i] >= batch_size
                   /\ result = "ok"
                   /\ Mkfls2(i, result)
                   /\ namearr' = [namearr EXCEPT ![i] = <<name[t]>>]
                   /\ n' = [n EXCEPT ![i] = 1]
       /\ pc' = [pc EXCEPT ![t] = "inserted"]
       /\ UNCHANGED <<kind, commit_status, bg_status, dbs, name, srv, early, committed>>

\* Mkfls1 for a commit.
CommitMkfls1(t) ==
    /\ pc[t] = "commit" /\ kind = "batch"
    /\ \E result \in Status : Flush(srv[t], result) /\ NextServer(t, result)
    /\ UNCHANGED <<kind, commit_status, bg_status, dbs, name, put, early, committed>>
-----------------------------------------------------------------------------
(* Bulk insertions.                                                         *)
BulkInsert(t, x) == kind = "bulk" /\ Insert(t, x)
BulkInserted(t) == kind = "bulk" /\ Inserted(t)
BulkCommit(t) == kind = "bulk" /\ Commit(t)
BulkCommitted(t) == kind = "bulk" /\ Committed(t)

\* Mutant: a db is opened over the files it finds.
NamesAfterOpenKeeps(i) == IF db[i] = "null" THEN tables[i] ELSE mem[i]
\* Bukin1 clears dbloc before it opens a db, so that a new db is empty.  It ignores
\* whether DestroyDb could: a db that opens is new (error_if_exists) and has deleted the
\* tables it does not know.
NamesAfterOpen(i) == IF db[i] = "null" THEN {} ELSE mem[i]
TablesAfterOpen(i) == IF db[i] = "null" THEN {} ELSE tables[i]

\* DB::Open fails: Bukin1 keeps an object whose db was never opened.  What DestroyDb
\* could not delete is still at dbloc, and one of the reasons.
OpenFails(i) ==
    /\ db[i] = "null"
    /\ db' = [db EXCEPT ![i] = "unopened"]
    /\ \E left \in {{}, tables[i]} : tables' = [tables EXCEPT ![i] = left]
    /\ UNCHANGED <<mem, stored, put>>

\* Put and Flush on a db that was never opened go through a null pointer.
Unopened(t) ==
    /\ db[srv[t]] = "unopened"
    /\ pc' = [pc EXCEPT ![t] = "undefined"]
    /\ UNCHANGED <<dbs, stored, put, srv, s>>

\* Bukin1 for an insertion.
Bukin1(t) ==
    LET i == srv[t]
    IN /\ pc[t] = "insert" /\ kind = "bulk"
       /\ \/ Unopened(t)
          \/ /\ OpenFails(i)
             /\ s' = [s EXCEPT ![t] = "error"]
             /\ pc' = [pc EXCEPT ![t] = "inserted"]
             /\ UNCHANGED srv
          \/ /\ db[i] # "unopened"
             /\ db' = [db EXCEPT ![i] = "open"]
             /\ tables' = [tables EXCEPT ![i] = TablesAfterOpen(i)]
             /\ \E result \in Status :
                   LET new == IF result = "ok" THEN {name[t]} ELSE {}
                   IN  /\ s' = [s EXCEPT ![t] = result]
                       /\ mem' = [mem EXCEPT ![i] = NamesAfterOpen(i) \cup new]
                       /\ put' = put \cup new
             /\ pc' = [pc EXCEPT ![t] = "inserted"]
             /\ UNCHANGED <<stored, srv>>
       /\ UNCHANGED <<kind, commit_status, bg_status, buffers, name, early, committed>>

\* Bukin2: the server takes the tables at dbloc.  An answer may be lost.
Bukin2(i, left, result) ==
    \/ /\ stored' = stored \cup left
       /\ tables' = [tables EXCEPT ![i] = IF bulk_use_copy THEN left ELSE {}]
    \/ /\ result = "error"
       /\ tables' = [tables EXCEPT ![i] = left]
       /\ UNCHANGED stored

\* Bukin1 for a commit, when the db can be opened: flush, close, have it ingested.
BukinFlush(i, result) ==
    \/ /\ result = "error"                 \* Flush fails and the db stays open
       /\ db' = [db EXCEPT ![i] = "open"]
       /\ mem' = [mem EXCEPT ![i] = NamesAfterOpen(i)]
       /\ tables' = [tables EXCEPT ![i] = TablesAfterOpen(i)]
       /\ UNCHANGED stored
    \/ /\ db' = [db EXCEPT ![i] = "null"]
       /\ mem' = [mem EXCEPT ![i] = {}]
       /\ Bukin2(i, TablesAfterOpen(i) \cup NamesAfterOpen(i), result)

\* Bukin1 for a commit.
CommitBukin1(t) ==
    LET i == srv[t]
    IN /\ pc[t] = "commit" /\ kind = "bulk"
       /\ \/ Unopened(t)
          \/ OpenFails(i) /\ NextServer(t, "error")
          \/ /\ db[i] # "unopened"
             /\ \E result \in Status : BukinFlush(i, result) /\ NextServer(t, result)
             /\ UNCHANGED put
       /\ UNCHANGED <<kind, commit_status, bg_status, buffers, name, early, committed>>
-----------------------------------------------------------------------------
Next == \E t \in Thread :
            \/ \E x \in Name : BatchInsert(t, x) \/ BulkInsert(t, x)
            \/ Mkfls1(t) \/ BatchInserted(t)
            \/ BatchCommit(t) \/ CommitMkfls1(t) \/ BatchCommitted(t)
            \/ Bukin1(t) \/ BulkInserted(t)
            \/ BulkCommit(t) \/ CommitBukin1(t) \/ BulkCommitted(t)

Spec == Init /\ [][Next]_vars
-----------------------------------------------------------------------------
\* A write buffer never holds more names than the count that is sent with it, from
\* whatever value the uninitialized count starts: the server would leave out the
\* names beyond the count and still answer OK (fscli.cc:854-872).
CountCovers == \A i \in Srv : Len(namearr[i]) <= n[i]

\* When a commit is reported OK, the servers have every name whose insertion had been
\* reported OK before the commit began, whatever was sent early, failed, or was
\* inserted, opened or cleared by other threads meanwhile (fscli.cc:217-265, 346-393).
\* A name whose insertion ends later may be lost although it is reported OK.
EarlyNamesStored == committed => early \subseteq stored

\* A server only gets names that were put in this context: what an earlier context
\* has left at the same dbloc is gone before the first table is written
\* (fscli.cc:835-839), even when the context is committed empty.
OnlyOwnNames == stored \subseteq put

\* A name is only ever kept for, and sent to, the server that owns its partition, also
\* when the number of servers is not a power of two and the index computed from the
\* hash is that of a partition that does not exist: what builds without assertions,
\* where IndexAsserted does not stop them, go on to do (gigaplus.cc:551-555).
SentToOwner ==
    \A i \in Srv : \A x \in ToSet(namearr[i]) \cup mem[i] \cup tables[i] :
        giga!Owner(Hash[x]) = i

\* The assertion at gigaplus.cc:550, when a thread has computed the index of the name
\* it inserts from the name's hash: that is the index of a virtual server.
IndexAsserted == \A t \in Thread : pc[t] = "insert" => giga!Asserted(giga!SetAll, Hash[name[t]])
=============================================================================
