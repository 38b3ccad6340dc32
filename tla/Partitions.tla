----------------------------- MODULE Partitions -----------------------------
(***************************************************************************)
(* The directories and directory partitions a client keeps in memory       *)
(* (fscli.cc): the tables dirs_ and pars_ and the LRU cache plru_, all     *)
(* under mutex_, as the threads in Lokup and Release(Lease) use them.  An  *)
(* action is one critical section of mutex_.                               *)
(*                                                                         *)
(* plru_ is LRUCache.  DeletePartition, its deleter, releases the mutex    *)
(* half way: inserting a partition that evicts another is two sections,    *)
(* and AcquirePartition sets lru_handle in the second.  What the leases of *)
(* a partition do meanwhile is the subject of Leases.                      *)
(***************************************************************************)
EXTENDS Client, Integers, Sequences, FiniteSets

CONSTANTS Dir,       \* directory ids
          Key,       \* partition keys
          DirOf,     \* DirOf[k]: the directory of partition k
          MaxParts,  \* bound: partitions in memory at a time
          MaxLookups,          \* bound: calls that are made
          partition_lru_size

Part == 1 .. MaxParts

ASSUME PartitionsAssumption ==
    /\ NULL \notin Part /\ Key # {}
    /\ DirOf \in [Key -> Dir]
    /\ MaxParts \in Nat /\ MaxLookups \in Nat /\ partition_lru_size \in Nat

VARIABLES plru,      \* plru_
          pars,      \* pars_
          handle,    \* partitions whose lru_handle has been set
          drefs,     \* drefs[d]: references to d, which is in dirs_ unless 0
          phase, key, part, victim,   \* what each thread is doing
          lookups, closed

partVars == <<plru, pars, handle, drefs, phase, key, part, victim, lookups, closed>>

lru == INSTANCE LRUCache WITH Entry <- Part, Charge <- {1},
           capacity <- partition_lru_size, MaxHeld <- MaxLookups,
           cache <- plru, held <- [p \in Part |-> 0], open <- ~closed

PartTypeOK ==
    /\ plru \in lru!State
    /\ pars \in [Key -> Part \cup {NULL}]
    /\ handle \subseteq Part
    /\ drefs \in [Dir -> Nat]
    /\ phase \in [Thread -> {"idle", "fetch", "evict", "lokup", "drop", "held", "free",
                          "undefined"}]
    /\ key \in [Thread -> Key]
    /\ part \in [Thread -> Part \cup {NULL}]
    /\ victim \in [Thread -> Part \cup {NULL}]
    /\ lookups \in 0 .. MaxLookups /\ closed \in BOOLEAN

PartInit ==
    /\ plru = [key |-> [p \in Part |-> CHOOSE k \in Key : TRUE],
               charge |-> [p \in Part |-> 0], refs |-> [p \in Part |-> 0],
               in_cache |-> {}, table |-> [k \in Key |-> NULL],
               in_use |-> {}, lru |-> <<>>, usage |-> 0, total |-> 0]
    /\ pars = [k \in Key |-> NULL]
    /\ handle = {}
    /\ drefs = [d \in Dir |-> 0]
    /\ phase = [t \in Thread |-> "idle"]
    /\ key = [t \in Thread |-> CHOOSE k \in Key : TRUE]
    /\ part = [t \in Thread |-> NULL]
    /\ victim = [t \in Thread |-> NULL]
    /\ lookups = 0 /\ closed = FALSE

\* Partitions that are not freed: referenced, or on their way through DeletePartition.
Allocated == {p \in Part : plru.refs[p] > 0 \/ \E t \in Thread : victim[t] = p}
-----------------------------------------------------------------------------
Enter(t, label) == phase' = [phase EXCEPT ![t] = label]

\* A directory is made when the first reference to it is taken.
AcquireDir(d) == [drefs EXCEPT ![d] = @ + 1]

\* Lokup takes a reference to the directory and unlocks to fetch its index.
Lokup(t, k) ==
    /\ phase[t] = "idle" /\ ~closed
    /\ lookups < MaxLookups
    /\ lookups' = lookups + 1
    /\ key' = [key EXCEPT ![t] = k]
    /\ drefs' = AcquireDir(DirOf[k])
    /\ Enter(t, "fetch")
    /\ UNCHANGED <<plru, pars, handle, part, victim, closed>>

\* Reference a partition that was found.  One whose lru_handle is not set yet fails
\* an assertion; without assertions, what the cache has found is used all the same
\* and what the table has found is used through a wild pointer.
Reference(t, p) ==
    /\ \/ /\ p \in handle \/ p = plru.table[key[t]]
          /\ plru' = lru!AddRef(plru, p)
          /\ part' = [part EXCEPT ![t] = p]
          /\ Enter(t, "lokup")
       \/ /\ p \notin handle
          /\ Enter(t, "undefined")
          /\ UNCHANGED <<plru, part>>
    /\ UNCHANGED <<pars, handle, drefs, victim>>

\* LRUCache::Insert once p is in: evict the oldest idle partition, or p itself, when
\* there is too much.  DeletePartition removes the victim from pars_ and unlocks.
InsertPart(t, c, p, table, dr) ==
    /\ drefs' = dr
    /\ IF c.usage > partition_lru_size /\ c.lru # <<>>
       THEN LET v == Head(c.lru)
            IN /\ plru' = lru!RemoveKey(c, c.key[v])
               /\ pars' = [table EXCEPT ![c.key[v]] = NULL]
               /\ victim' = [victim EXCEPT ![t] = v]
               /\ handle' = handle \ {p}
               /\ Enter(t, "evict")
       ELSE /\ plru' = IF c.usage > partition_lru_size THEN lru!RemoveKey(c, c.key[p]) ELSE c
            /\ pars' = table
            /\ victim' = [victim EXCEPT ![t] = NULL]
            /\ handle' = handle \cup {p}
            /\ Enter(t, "lokup")

\* A new partition in pars_ and, unless caching is off, in plru_.
AcquireNew(t) ==
    LET k == key[t]
        new(p) == lru!NewEntry(plru, k, p, 1)
    IN \E p \in Part \ Allocated :
          /\ \A q \in Part \ Allocated : p <= q
          /\ part' = [part EXCEPT ![t] = p]
          /\ InsertPart(t, IF partition_lru_size = 0 THEN new(p) ELSE lru!AddEntry(new(p), k, p),
                    p, [pars EXCEPT ![k] = p], AcquireDir(DirOf[k]))

\* Mutant: only the cache is searched.
AcquirePartitionCacheOnly(t) ==
    /\ phase[t] = "fetch"
    /\ IF plru.table[key[t]] # NULL THEN Reference(t, plru.table[key[t]])
       ELSE AcquireNew(t)
    /\ UNCHANGED <<key, lookups, closed>>

\* AcquirePartition: the cache, then the table, then a new one.
AcquirePartition(t) ==
    /\ phase[t] = "fetch"
    /\ IF plru.table[key[t]] # NULL THEN Reference(t, plru.table[key[t]])
       ELSE IF pars[key[t]] # NULL THEN Reference(t, pars[key[t]])
       ELSE AcquireNew(t)
    /\ UNCHANGED <<key, lookups, closed>>

\* The end of DeletePartition, after it has locked again, releases the directory.
ReleaseDirOf(p) == [drefs EXCEPT ![DirOf[plru.key[p]]] = @ - 1]

\* Insert goes on with what the cache is now.
Evicted(t) ==
    /\ phase[t] = "evict"
    /\ InsertPart(t, plru, part[t], pars, ReleaseDirOf(victim[t]))
    /\ UNCHANGED <<key, part, lookups, closed>>

\* Release(Partition).  The last reference takes it through DeletePartition, and the
\* thread goes on at label `deleting' instead of at label `done'.
ReleasePart(t, p, deleting, done, dr) ==
    LET c == lru!Unref(plru, p)
    IN IF p \notin handle
       THEN Enter(t, "undefined") /\ UNCHANGED <<plru, pars, drefs, part, victim>>
       ELSE /\ plru' = c
            /\ part' = [part EXCEPT ![t] = NULL]
            /\ IF c.refs[p] = 0
               THEN /\ pars' = [pars EXCEPT ![plru.key[p]] = NULL]
                    /\ victim' = [victim EXCEPT ![t] = p]
                    /\ Enter(t, deleting)
                    /\ UNCHANGED drefs
               ELSE /\ drefs' = dr
                    /\ Enter(t, done)
                    /\ UNCHANGED <<pars, victim>>

ReleaseDir(t, dr) == [dr EXCEPT ![DirOf[key[t]]] = @ - 1]

\* Lokup1 has found a lease: Lokup passes its reference on to the caller.
LokupOk(t) ==
    /\ phase[t] = "lokup"
    /\ IF part[t] \in handle
       THEN /\ plru' = lru!Unref(lru!AddRef(plru, part[t]), part[t])
            /\ drefs' = ReleaseDir(t, drefs)
            /\ Enter(t, "held")
       ELSE Enter(t, "undefined") /\ UNCHANGED <<plru, drefs>>
    /\ UNCHANGED <<pars, handle, key, part, victim, lookups, closed>>

\* Mutant: the reference to the directory is forgotten.
LokupFailedLeaks(t) ==
    /\ phase[t] = "lokup"
    /\ ReleasePart(t, part[t], "free", "idle", drefs)
    /\ UNCHANGED <<handle, key, lookups, closed>>

LokupFailed(t) ==
    /\ phase[t] = "lokup"
    /\ ReleasePart(t, part[t], "drop", "idle", ReleaseDir(t, drefs))
    /\ UNCHANGED <<handle, key, lookups, closed>>

\* Release(Lease) gives the reference to the partition back.
ReleaseLease(t) ==
    /\ phase[t] = "held"
    /\ ReleasePart(t, part[t], "free", "idle", drefs)
    /\ UNCHANGED <<handle, key, lookups, closed>>

\* The end of a DeletePartition that Release has run; Lokup then releases its own
\* reference to the directory.
Freed(t) ==
    /\ phase[t] \in {"drop", "free"}
    /\ drefs' = IF phase[t] = "drop" THEN ReleaseDir(t, ReleaseDirOf(victim[t]))
                ELSE ReleaseDirOf(victim[t])
    /\ victim' = [victim EXCEPT ![t] = NULL]
    /\ Enter(t, "idle")
    /\ UNCHANGED <<plru, pars, handle, key, part, lookups, closed>>

\* ~FilesystemCli, when no call is in progress and no lease is out.
Close ==
    /\ ~closed /\ \A t \in Thread : phase[t] = "idle"
    /\ closed' = TRUE
    /\ LET idle == {plru.lru[i] : i \in DOMAIN plru.lru}
       IN /\ plru' = [plru EXCEPT !.refs = [p \in Part |-> IF p \in idle THEN 0 ELSE @[p]],
                                  !.in_cache = @ \ idle, !.lru = <<>>]
          /\ pars' = [k \in Key |-> IF pars[k] \in idle THEN NULL ELSE pars[k]]
          /\ drefs' = [d \in Dir |-> drefs[d]
                          - Cardinality({p \in idle : DirOf[plru.key[p]] = d})]
    /\ UNCHANGED <<handle, phase, key, part, victim, lookups>>

PartNext ==
    \/ \E t \in Thread :
        \/ \E k \in Key : Lokup(t, k)
        \/ AcquirePartition(t) \/ Evicted(t)
        \/ LokupOk(t) \/ LokupFailed(t) \/ ReleaseLease(t) \/ Freed(t)
    \/ Close

PartSpec == PartInit /\ [][PartNext]_partVars
-----------------------------------------------------------------------------
\* Every partition that AcquirePartition finds in the cache or in the table knows its
\* handle (the assertions at fscli.cc:1475 and 1487).
HandleSet == \A t \in Thread : phase[t] # "undefined"

\* The properties below hold as long as HandleSet does.

\* No two partitions for one key: every partition that has references is the one its
\* key leads to, in spite of the evictions that other threads are in the middle of
\* (fscli.cc:1470-1490).
OnePartitionPerKey ==
    HandleSet => \A p \in Part : plru.refs[p] > 0 => pars[plru.key[p]] = p

\* References to partitions and directories are those of the cache, the calls in
\* progress, the leases that are out and the partitions in memory: nothing is freed
\* early and nothing leaks (fscli.cc:1358-1371, 1431-1460).
RefsExact == HandleSet =>
    /\ \A p \in Part : plru.refs[p] =
           Cardinality({t \in Thread : part[t] = p})
           + (IF p \in plru.in_cache THEN 1 ELSE 0)
    /\ \A d \in Dir : drefs[d] =
           Cardinality({p \in Allocated : DirOf[plru.key[p]] = d})
           + IF closed THEN 0
             ELSE Cardinality({t \in Thread : DirOf[key[t]] = d
                                   /\ phase[t] \in {"fetch", "evict", "lokup", "drop"}})
=============================================================================
