------------------------------ MODULE LRUCache ------------------------------
(***************************************************************************)
(* pdlfs's reference-counted LRU cache (lru.h): the hash table of the      *)
(* entries "in" the cache, the in-use list, the LRU list and the two usage *)
(* counters, operation by operation.  The cache needs external             *)
(* synchronization, so an operation is one action.                         *)
(*                                                                         *)
(* The private functions of the class map one cache state to the next and  *)
(* are operators on the record the state is kept in; the public ones are   *)
(* the actions.  A deleted entry is one with no references.                *)
(***************************************************************************)
EXTENDS Integers, Sequences, FiniteSets, Functions

CONSTANTS Entry,     \* the addresses entries may have
          Key,       \* keys
          NULL,      \* the null pointer
          Charge,    \* the charges clients insert entries with
          capacity,  \* capacity_
          MaxHeld    \* bound: references clients keep on one entry

ASSUME LRUCacheAssumption ==
    /\ NULL \notin Entry /\ IsFiniteSet(Entry) /\ Key # {}
    /\ Charge \subseteq Nat
    /\ capacity \in Nat /\ MaxHeld \in Nat

VARIABLES cache,   \* the state of the cache
          held,    \* held[e]: references clients have on e
          open     \* FALSE once ~LRUCache has run

vars == <<cache, held, open>>

State == [key      : [Entry -> Key],
          charge   : [Entry -> Nat],
          refs     : [Entry -> Nat],
          in_cache : SUBSET Entry,
          table    : [Key -> Entry \cup {NULL}],
          in_use   : SUBSET Entry,
          lru      : Seq(Entry),      \* oldest entry first
          usage    : Nat,
          total    : Nat]

TypeOK == /\ cache \in State
          /\ held \in [Entry -> 0 .. MaxHeld]
          /\ open \in BOOLEAN

Live == {e \in Entry : cache.refs[e] > 0}
-----------------------------------------------------------------------------
\* Unlink e from the LRU list, if that is the list e is in.
LRU_Remove(list, e) ==
    IF e \notin Range(list) THEN list
    ELSE LET at == CHOOSE i \in DOMAIN list : list[i] = e
         IN  [i \in 1 .. Len(list) - 1 |-> IF i < at THEN list[i] ELSE list[i + 1]]

\* Withdraw a reference: the last one deletes the entry, and the last but one of an
\* entry in the cache makes it the newest idle entry.
Unref(c, e) ==
    LET d == [c EXCEPT !.refs[e] = @ - 1]
    IN IF d.refs[e] = 0
       THEN [d EXCEPT !.in_use = @ \ {e}, !.lru = LRU_Remove(@, e), !.total = @ - c.charge[e]]
       ELSE IF e \in c.in_cache /\ d.refs[e] = 1
       THEN [d EXCEPT !.in_use = @ \ {e}, !.lru = Append(LRU_Remove(@, e), e)]
       ELSE d

\* Mutant: the usage is not reduced.
RemoveEntryKeepsUsage(c, e) == Unref([c EXCEPT !.in_cache = @ \ {e}], e)

\* Mutant: the cache's reference is not given up.
RemoveEntryNoUnref(c, e) ==
    [c EXCEPT !.in_cache = @ \ {e}, !.usage = @ - c.charge[e]]

\* Take an entry that is out of the table out of the cache.
RemoveEntry(c, e) ==
    Unref([c EXCEPT !.in_cache = @ \ {e}, !.usage = @ - c.charge[e]], e)

\* Remove what the table has under a key from the table and from the cache.
RemoveKey(c, k) == RemoveEntry([c EXCEPT !.table[k] = NULL], c.table[k])

RemoveOldest(c) == RemoveKey(c, c.key[Head(c.lru)])

\* Mutant: the newest idle entry goes first.
MakeRoomNewest(c) ==
    IF c.usage > capacity /\ c.lru # <<>> THEN RemoveKey(c, c.key[c.lru[Len(c.lru)]]) ELSE c

\* While there is too much in the cache, remove the oldest idle entry.
MakeRoom(c) ==
    LET after[n \in 0 .. Len(c.lru)] ==
            IF n = 0 THEN c
            ELSE IF after[n - 1].usage > capacity
                 THEN RemoveOldest(after[n - 1])
                 ELSE after[n - 1]
    IN after[Len(c.lru)]

\* A new entry with the reference of the client that inserts it.
NewEntry(c, k, e, ch) ==
    [c EXCEPT !.key[e] = k, !.charge[e] = ch, !.refs[e] = 1,
              !.in_use = @ \cup {e}, !.total = @ + ch]

\* Mutant: the entry that is replaced stays in the cache.
AddEntryKeepsOld(c, k, e) ==
    [c EXCEPT !.refs[e] = @ + 1, !.in_cache = @ \cup {e},
              !.usage = @ + c.charge[e], !.table[k] = e]

\* The cache takes its own reference to e and puts it in place of what it had.
AddEntry(c, k, e) ==
    LET d == [c EXCEPT !.refs[e] = @ + 1, !.in_cache = @ \cup {e},
                       !.usage = @ + c.charge[e], !.table[k] = e]
    IN IF c.table[k] = NULL THEN d ELSE RemoveEntry(d, c.table[k])

\* Mutant: an entry for which there is no room is cached all the same.
InsertedAlways(c, k, e, ch) == MakeRoom(AddEntry(NewEntry(c, k, e, ch), k, e))

Inserted(c, k, e, ch) ==
    LET new  == NewEntry(c, k, e, ch)
        full == MakeRoom(AddEntry(new, k, e))
    IN IF capacity = 0 THEN new
       ELSE IF full.usage > capacity THEN RemoveKey(full, k) ELSE full

\* Mutant: an idle entry that is used again stays in the LRU list.
AddRefKeepsIdle(c, e) == [c EXCEPT !.refs[e] = @ + 1]

AddRef(c, e) ==
    IF c.refs[e] = 1 /\ e \in c.in_cache
    THEN [c EXCEPT !.refs[e] = 2, !.in_use = @ \cup {e}, !.lru = LRU_Remove(@, e)]
    ELSE [c EXCEPT !.refs[e] = @ + 1]

\* Remove the idle entries, oldest first, from table and cache.
Pruned(c) ==
    LET after[n \in 0 .. Len(c.lru)] == IF n = 0 THEN c ELSE RemoveOldest(after[n - 1])
    IN after[Len(c.lru)]

\* Unreference the idle entries; table and usage are left alone.
Emptied(c) ==
    LET after[n \in 0 .. Len(c.lru)] ==
            IF n = 0 THEN c
            ELSE Unref([after[n - 1] EXCEPT !.in_cache = @ \ {c.lru[n]}], c.lru[n])
    IN after[Len(c.lru)]
-----------------------------------------------------------------------------
Init ==
    /\ cache = [key      |-> [e \in Entry |-> CHOOSE k \in Key : TRUE],
                charge   |-> [e \in Entry |-> 0],
                refs     |-> [e \in Entry |-> 0],
                in_cache |-> {},
                table    |-> [k \in Key |-> NULL],
                in_use   |-> {},
                lru      |-> <<>>,
                usage    |-> 0,
                total    |-> 0]
    /\ held = [e \in Entry |-> 0]
    /\ open = TRUE

Hold(e) == /\ held[e] < MaxHeld
           /\ held' = [held EXCEPT ![e] = @ + 1]

Insert(k, e, ch) ==
    /\ open
    /\ e \notin Live
    /\ cache' = Inserted(cache, k, e, ch)
    /\ Hold(e)
    /\ UNCHANGED open

Lookup(k) ==
    /\ open
    /\ cache.table[k] # NULL
    /\ cache' = AddRef(cache, cache.table[k])
    /\ Hold(cache.table[k])
    /\ UNCHANGED open

\* Clients keep tables of live entries of their own and may revive an idle one.
Ref(e) ==
    /\ open
    /\ e \in Live
    /\ cache' = AddRef(cache, e)
    /\ Hold(e)
    /\ UNCHANGED open

Release(e) ==
    /\ open
    /\ held[e] > 0
    /\ cache' = Unref(cache, e)
    /\ held' = [held EXCEPT ![e] = @ - 1]
    /\ UNCHANGED open

EraseKey(k) ==
    /\ open
    /\ cache.table[k] # NULL
    /\ cache' = RemoveKey(cache, k)
    /\ UNCHANGED <<held, open>>

\* Erase a handle; nothing happens when its key leads to another entry.
EraseEntry(e) ==
    /\ open
    /\ held[e] > 0
    /\ cache' = IF cache.table[cache.key[e]] = e
                THEN RemoveKey(cache, cache.key[e])
                ELSE cache
    /\ UNCHANGED <<held, open>>

Prune ==
    /\ open
    /\ cache' = Pruned(cache)
    /\ UNCHANGED <<held, open>>

\* ~LRUCache, which clients run when they hold nothing.
Destroy ==
    /\ open
    /\ \A e \in Entry : held[e] = 0
    /\ cache' = Emptied(cache)
    /\ open' = FALSE
    /\ UNCHANGED held

Closed == ~open /\ UNCHANGED vars

Next == \/ \E k \in Key, e \in Entry, ch \in Charge : Insert(k, e, ch)
        \/ \E k \in Key : Lookup(k) \/ EraseKey(k)
        \/ \E e \in Entry : Ref(e) \/ Release(e) \/ EraseEntry(e)
        \/ Prune \/ Destroy \/ Closed

Spec == Init /\ [][Next]_vars
-----------------------------------------------------------------------------
\* "Each live handle is in either one of the two lists, but never both"
\* (lru.h:36-39): idle entries are the cached ones no client holds, each in the LRU
\* list once; the others that are alive are in use, held by at least one client.
ListsPartition ==
    LET idle == Range(cache.lru)
    IN /\ Len(cache.lru) = Cardinality(idle)
       /\ idle \cap cache.in_use = {}
       /\ idle \cup cache.in_use = Live
       /\ idle = {e \in cache.in_cache : held[e] = 0}
       /\ \A e \in cache.in_use : held[e] > 0

\* An entry's references are its clients' and, while it is in the cache, the cache's
\* own, whatever mix of replacement, ejection and erasure it went through; so an
\* entry a client holds is never deleted.
RefsAccounted ==
    \A e \in Entry :
        cache.refs[e] = held[e] + (IF e \in cache.in_cache THEN 1 ELSE 0)

\* The table leads to exactly the entries in the cache, under their keys: a key
\* never leads to an entry that was evicted, replaced or freed (lru.h:158-160).
TableExact ==
    open => /\ \A k \in Key : cache.table[k] # NULL =>
                  cache.table[k] \in cache.in_cache /\ cache.key[cache.table[k]] = k
            /\ \A e \in cache.in_cache : cache.table[cache.key[e]] = e

\* The sum of the charges of the entries in S, as the number of units charged.
ChargeOf(charge, S) == Cardinality(UNION {{e} \X (1 .. charge[e]) : e \in S})

\* usage_ is the charge of what is in the cache and never more than the capacity
\* after an operation (lru.h:312); total_usage_ is the charge of all live entries.
UsageExact ==
    /\ open => cache.usage = ChargeOf(cache.charge, cache.in_cache)
    /\ cache.usage <= capacity
    /\ cache.total = ChargeOf(cache.charge, Live)

\* An insertion that evicts an idle entry has evicted all that were idle for longer
\* (lru.h:292-299), but for the one entry it may replace.
OldestFirst ==
    [][\A k \in Key, e \in Entry, ch \in Charge : Insert(k, e, ch) =>
          \A i, j \in DOMAIN cache.lru :
             (/\ i < j
              /\ cache.key[cache.lru[j]] # k
              /\ cache'.refs[cache.lru[j]] = 0)
                => cache'.refs[cache.lru[i]] = 0]_vars

Abstract == INSTANCE RefCache WITH
    Capacity <- capacity, key <- cache.key, refs <- cache.refs, cached <- cache.in_cache

UnitCharges == \A e \in Live : cache.charge[e] = 1

\* While every live entry is charged 1, each operation is one of the RefCache that
\* DeltaFS relies on, which knows no lists, table or counters: what insertion,
\* replacement and eviction keep, drop and free is what RefCache says.
ImplementsRefCache ==
    [][UnitCharges /\ UnitCharges' => [Abstract!Next]_(Abstract!cacheVars)]_vars
=============================================================================
