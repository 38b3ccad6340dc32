------------------------------- MODULE Leases -------------------------------
(***************************************************************************)
(* The leases of one directory partition at a client (fscli.cc): the table *)
(* of leases, the LRU cache of leases beside it, the busy flags that make  *)
(* lookups of one subset of the names take turns, and the contexts of      *)
(* batches and bulk insertions that live in a lease.  Threads look a name  *)
(* up in one of three modes (Lokup1, Lokup2) and give the lease back       *)
(* (Release, Destroy).  The partition's mutex makes each section one       *)
(* action; the call to the server is made without it.                      *)
(*                                                                         *)
(* The cache is LRUCache; a lease is deleted when its entry is.  Callers   *)
(* hold a reference to the partition throughout, see Partitions.           *)
(***************************************************************************)
EXTENDS Integers, Sequences, FiniteSets

CONSTANTS Thread, Name, NULL,
          Way,             \* Way[x]: the name subset of x, hash & (kWays - 1)
          Mode,            \* lookup modes in use, of "regular", "batch", "bulk"
          Due,             \* Due[m]: what servers put in LeaseDue: "never" (-1, what
                           \* fs.cc issues), "later" (some time), "zero"
          MaxLeases,       \* bound: leases in memory at a time
          MaxLookups,      \* bound: calls that are made
          lease_lru_size   \* per_partition_lease_lru_size

Lease == 1 .. MaxLeases

ASSUME LeasesAssumption ==
    /\ IsFiniteSet(Thread) /\ Name # {} /\ Mode # {}
    /\ NULL \notin Lease
    /\ MaxLeases \in Nat /\ MaxLookups \in Nat /\ lease_lru_size \in Nat
    /\ Mode \subseteq {"regular", "batch", "bulk"}
    /\ Due \in [Mode -> SUBSET {"never", "later", "zero"}]

VARIABLES part,    \* the partition's leases
          busy,    \* ways with a lookup at the server
          pc, name, mode, lease,   \* what each thread is doing
          lookups  \* calls made

vars == <<part, busy, pc, name, mode, lease, lookups>>

lru == INSTANCE LRUCache WITH Entry <- Lease, Key <- Name, Charge <- {1},
           capacity <- lease_lru_size, MaxHeld <- MaxLookups,
           cache <- part.lru, held <- [l \in Lease |-> 0], open <- TRUE

TypeOK ==
    /\ part \in [lru  : lru!State,
                 ht   : [Name -> Lease \cup {NULL}],
                 mode : [Lease -> Mode],
                 due  : [Lease -> {"never", "later", "zero", "past"}],
                 out  : SUBSET Lease,
                 ctx  : SUBSET Lease,        \* batch or bk is not NULL
                 refs : [Lease -> Nat],      \* references to the context
                 dirs : Nat]                 \* the contexts' references to dirs
    /\ busy \subseteq {Way[x] : x \in Name}
    /\ pc \in [Thread -> {"idle", "wait", "server", "held"}]
    /\ name \in [Thread -> Name]
    /\ mode \in [Thread -> Mode]
    /\ lease \in [Thread -> Lease \cup {NULL}]
    /\ lookups \in 0 .. MaxLookups

Init ==
    /\ part = [lru  |-> [key |-> [l \in Lease |-> CHOOSE x \in Name : TRUE],
                         charge |-> [l \in Lease |-> 0], refs |-> [l \in Lease |-> 0],
                         in_cache |-> {}, table |-> [x \in Name |-> NULL],
                         in_use |-> {}, lru |-> <<>>, usage |-> 0, total |-> 0],
               ht   |-> [x \in Name |-> NULL],
               mode |-> [l \in Lease |-> CHOOSE m \in Mode : TRUE],
               due  |-> [l \in Lease |-> "past"],
               out  |-> {}, ctx |-> {}, refs |-> [l \in Lease |-> 0], dirs |-> 0]
    /\ busy = {}
    /\ pc = [t \in Thread |-> "idle"]
    /\ name = [t \in Thread |-> CHOOSE x \in Name : TRUE]
    /\ mode = [t \in Thread |-> CHOOSE m \in Mode : TRUE]
    /\ lease = [t \in Thread |-> NULL]
    /\ lookups = 0

Live == {l \in Lease : part.lru.refs[l] > 0}
-----------------------------------------------------------------------------
\* The cache goes from p.lru to c.  DeleteLease takes the leases whose last reference
\* that was out of the table, unless they are out already.
Cached(p, c) ==
    LET deleted == {l \in Lease : p.lru.refs[l] > 0 /\ c.refs[l] = 0}
    IN [p EXCEPT !.lru = c,
                 !.ht = [x \in Name |-> IF p.ht[x] \in deleted \ p.out THEN NULL
                                        ELSE p.ht[x]]]

\* Take a lease out of the table.
RemoveLease(p, l) ==
    [p EXCEPT !.ht = [x \in Name |-> IF p.ht[x] = l THEN NULL ELSE p.ht[x]],
              !.out = @ \cup {l}]

\* LRUCache::Erase for a handle.
Erase(p, l) ==
    IF p.lru.table[p.lru.key[l]] = l THEN Cached(p, lru!RemoveKey(p.lru, p.lru.key[l]))
    ELSE p

Unref(p, l) == Cached(p, lru!Unref(p.lru, l))

Found(p, l) == [part |-> p, lease |-> l]

\* Look for a valid lease in the cache, then in the table.  An expired one goes.
Search(p, x) ==
    LET h == p.lru.table[x]
        e == p.ht[x]
    IN IF h # NULL
       THEN LET q == [p EXCEPT !.lru = lru!AddRef(@, h)]
            IN IF p.due[h] = "past" THEN Found(Unref(Erase(RemoveLease(q, h), h), h), NULL)
               ELSE Found(q, h)
       ELSE IF e = NULL THEN Found(p, NULL)
       ELSE IF p.due[e] = "past" THEN Found(RemoveLease(p, e), NULL)
       ELSE Found([p EXCEPT !.lru = lru!AddRef(@, e)], e)

\* Mutant: a context is not counted when a lease is found for a second user.
GrantUncounted(p, l, m) ==
    [p EXCEPT !.refs[l] = IF m = "regular" \/ @ > 0 THEN @ ELSE @ + 1]

\* Lokup1 counts the use of the lease's context.
Grant(p, l, m) == [p EXCEPT !.refs[l] = IF m = "regular" THEN @ ELSE @ + 1]

\* Mutant: a lease of another mode is returned.
AnswerAnyMode(t, p, l, m) ==
    /\ part' = Grant(p, l, m)
    /\ pc' = [pc EXCEPT ![t] = "held"]
    /\ lease' = [lease EXCEPT ![t] = l]

\* The end of Lokup1: a lease of another mode is given back and the call fails.
Answer(t, p, l, m) ==
    IF p.mode[l] # m
    THEN /\ part' = Unref(p, l)
         /\ pc' = [pc EXCEPT ![t] = "idle"]
         /\ UNCHANGED lease
    ELSE /\ part' = Grant(p, l, m)
         /\ pc' = [pc EXCEPT ![t] = "held"]
         /\ lease' = [lease EXCEPT ![t] = l]

\* Lokup1 up to the point where it answers, waits or goes to the server.  When the
\* way is free, the second search follows the first without a break.
Lokup(t, x, m) ==
    LET first == Search(part, x)
    IN /\ pc[t] = "idle"
       /\ lookups < MaxLookups
       /\ lookups' = lookups + 1
       /\ name' = [name EXCEPT ![t] = x]
       /\ mode' = [mode EXCEPT ![t] = m]
       /\ \/ /\ first.lease # NULL
             /\ Answer(t, first.part, first.lease, m)
             /\ UNCHANGED busy
          \/ /\ first.lease = NULL
             /\ part' = first.part
             /\ UNCHANGED lease
             /\ IF Way[x] \in busy
                THEN /\ pc' = [pc EXCEPT ![t] = "wait"]
                     /\ UNCHANGED busy
                ELSE /\ pc' = [pc EXCEPT ![t] = "server"]
                     /\ busy' = busy \cup {Way[x]}

\* Lokup2 after the wait: somebody else may have done the work.
Wakeup(t) ==
    LET again == Search(part, name[t])
    IN /\ pc[t] = "wait"
       /\ Way[name[t]] \notin busy
       /\ \/ /\ again.lease # NULL
             /\ Answer(t, again.part, again.lease, mode[t])
             /\ UNCHANGED busy
          \/ /\ again.lease = NULL
             /\ part' = again.part
             /\ pc' = [pc EXCEPT ![t] = "server"]
             /\ busy' = busy \cup {Way[name[t]]}
             /\ UNCHANGED lease
       /\ UNCHANGED <<name, mode, lookups>>

\* A lease for x with what the server says, in the table and in the cache.  One that
\* cannot be cached is out at once.
NewLease(p, l, x, m, d) ==
    LET q == [p EXCEPT !.ht[x] = l, !.mode[l] = m, !.due[l] = d,
                       !.out = @ \ {l}, !.refs[l] = 0,
                       !.ctx = IF m = "regular" THEN @ \ {l} ELSE @ \cup {l},
                       !.dirs = IF m = "regular" THEN @ ELSE @ + 1]
        r == Cached(q, lru!Inserted(q.lru, x, l, 1))
    IN IF d = "zero" THEN Erase(RemoveLease(r, l), l) ELSE r

\* The server has answered; CreateBatch or CreateBulkContext has made the context.
LookedUp(t) ==
    /\ pc[t] = "server"
    /\ \E d \in Due[mode[t]], l \in Lease \ Live :
          /\ \A k \in Lease \ Live : l <= k
          /\ Answer(t, NewLease(part, l, name[t], mode[t], d), l, mode[t])
    /\ busy' = busy \ {Way[name[t]]}
    /\ UNCHANGED <<name, mode, lookups>>

\* Mutant: the way stays busy.
LookupFailedKeepsBusy(t) ==
    /\ pc[t] = "server"
    /\ pc' = [pc EXCEPT ![t] = "idle"]
    /\ UNCHANGED <<part, busy, name, mode, lease, lookups>>

LookupFailed(t) ==
    /\ pc[t] = "server"
    /\ busy' = busy \ {Way[name[t]]}
    /\ pc' = [pc EXCEPT ![t] = "idle"]
    /\ UNCHANGED <<part, name, mode, lease, lookups>>

\* Release of a regular lease.
ReleaseLease(t) ==
    /\ pc[t] = "held" /\ mode[t] = "regular"
    /\ part' = Unref(part, lease[t])
    /\ pc' = [pc EXCEPT ![t] = "idle"]
    /\ lease' = [lease EXCEPT ![t] = NULL]
    /\ UNCHANGED <<busy, name, mode, lookups>>

Discard(p, l) == RemoveLease(Erase(p, l), l)

\* Mutant: the lease stays when its context goes.
DestroyBatchKeepsLease(p, l) ==
    LET q == [p EXCEPT !.refs[l] = @ - 1]
    IN IF q.refs[l] = 0 THEN [q EXCEPT !.ctx = @ \ {l}, !.dirs = @ - 1] ELSE q

\* Destroy(BULK): the last user takes the lease out and dissociates the context,
\* unless the lease is out already.
DestroyBulk(p, l) ==
    LET q == [p EXCEPT !.refs[l] = @ - 1]
    IN IF q.refs[l] = 0
       THEN IF l \in p.out THEN [q EXCEPT !.dirs = @ - 1]
            ELSE [Discard(q, l) EXCEPT !.ctx = @ \ {l}, !.dirs = @ - 1]
       ELSE q

\* Destroy(BAT): the same, whether or not the lease is out already.
DestroyBatch(p, l) ==
    LET q == [p EXCEPT !.refs[l] = @ - 1]
    IN IF q.refs[l] = 0
       THEN [Discard(q, l) EXCEPT !.ctx = @ \ {l}, !.dirs = @ - 1]
       ELSE q

DestroyContext(t) ==
    LET l == lease[t]
    IN /\ pc[t] = "held" /\ mode[t] # "regular"
       /\ part' = Unref(IF mode[t] = "batch" THEN DestroyBatch(part, l)
                        ELSE DestroyBulk(part, l), l)
       /\ pc' = [pc EXCEPT ![t] = "idle"]
       /\ lease' = [lease EXCEPT ![t] = NULL]
       /\ UNCHANGED <<busy, name, mode, lookups>>

\* A lease becomes due (CurrentMicros passes LeaseDue).
Expire(l) ==
    /\ l \in Live /\ part.due[l] = "later"
    /\ part' = [part EXCEPT !.due[l] = "past"]
    /\ UNCHANGED <<busy, pc, name, mode, lease, lookups>>

Next == \/ \E t \in Thread :
               \/ \E x \in Name, m \in Mode : Lokup(t, x, m)
               \/ Wakeup(t) \/ LookedUp(t) \/ LookupFailed(t)
               \/ ReleaseLease(t)
               \/ DestroyContext(t)
        \/ \E l \in Lease : Expire(l)

Spec == Init /\ [][Next]_vars
-----------------------------------------------------------------------------
Holders(l) == {t \in Thread : lease[t] = l}

\* No lease is deleted before its context is dissociated from it (the assertion of
\* DeleteLease, fscli.cc:1242).
ContextGone == \A l \in Lease \ Live : l \notin part.ctx

\* References to leases, to contexts and to the contexts' directories are exactly
\* those of the callers and of the cache: nothing is freed early and nothing leaks
\* (fscli.cc:283-296, 395-420, 1255-1263).
RefsExact ==
    /\ \A l \in Lease :
          /\ part.lru.refs[l] = Cardinality(Holders(l))
                                + (IF l \in part.lru.in_cache THEN 1 ELSE 0)
          /\ l \in Live => part.refs[l] =
                Cardinality({t \in Holders(l) : mode[t] # "regular"})
    /\ part.dirs = Cardinality({l \in Live : part.refs[l] > 0})

\* Users of a directory share one lease until it expires, so that a directory that is
\* locked for a batch or a bulk insertion is open to nothing else (fscli_test.cc:282
\* "Directory locked for batch creates").
ModeExclusive ==
    \A t, u \in Thread :
        /\ pc[t] = "held" /\ pc[u] = "held" /\ name[t] = name[u]
        /\ part.out \cap {lease[t], lease[u]} = {}
        => lease[t] = lease[u] /\ mode[t] = mode[u]

\* Everything a lookup can find is of use to it: a lease in the table or the cache is
\* alive and has its context unless its mode is regular, as Lokup1 assumes
\* (fscli.cc:810-819); a lease in the table is cached or in use, so that the table is
\* empty once the cache of an unused partition is deleted (fscli.cc:1439).
TableSound ==
    \A x \in Name :
        /\ \A l \in {part.ht[x], part.lru.table[x]} \ {NULL} :
              l \in Live /\ (part.mode[l] # "regular" => l \in part.ctx /\ part.refs[l] > 0)
        /\ part.ht[x] # NULL => part.ht[x] \in part.lru.in_cache \/ Holders(part.ht[x]) # {}
        /\ part.lru.table[x] # NULL => part.lru.table[x] = part.ht[x]

\* Nobody waits for a way that nobody will free: a way is busy exactly while one lookup
\* of it is at the server, whether that then succeeds or fails (fscli.cc:989-1093); and
\* when it is back, no other lease for its name is in the table ("there shall be no
\* conflict", fscli.cc:1064-1070), although others had the mutex meanwhile.
BusyOwned ==
    LET AtServer(w) == {t \in Thread : pc[t] = "server" /\ Way[name[t]] = w}
    IN  /\ \A w \in {Way[x] : x \in Name} : Cardinality(AtServer(w)) = IF w \in busy THEN 1 ELSE 0
        /\ \A t \in Thread : pc[t] = "server" => part.ht[name[t]] = NULL
=============================================================================
