---------------------------- MODULE LeasesProofs ----------------------------
(***************************************************************************)
(* Proofs about the leases of a partition for any number of threads,       *)
(* names and leases and any size of the cache.  What the cache does is     *)
(* taken from LRUCacheProofs.                                              *)
(***************************************************************************)
EXTENDS Leases, FiniteSetTheorems, TLAPS

L == INSTANCE LRUCacheProofs WITH Entry <- Lease, Key <- Name, Charge <- {1},
         capacity <- lease_lru_size, MaxHeld <- MaxLookups,
         cache <- part.lru, held <- [l \in Lease |-> 0], open <- TRUE

(***************************************************************************)
(* The invariant.  p is the partition, h counts the users of each lease,   *)
(* u those of them the context of the lease has counted.                   *)
(***************************************************************************)
Users == [Lease -> Nat]
More(h, l) == [h EXCEPT ![l] = @ + 1]
Less(h, l) == [h EXCEPT ![l] = @ - 1]

PartState == [lru  : L!IntState,
              ht   : [Name -> Lease \cup {NULL}],
              mode : [Lease -> Mode],
              due  : [Lease -> {"never", "later", "zero", "past"}],
              out  : SUBSET Lease,
              ctx  : SUBSET Lease,
              refs : [Lease -> Nat],
              dirs : Nat]

CacheOk(c, h) == L!Good(c, h) /\ c.usage <= lease_lru_size

Alive(c) == {l \in Lease : c.refs[l] > 0}

\* What the cache has under a name is what the table has.
CacheInTable(p) ==
    \A x \in Name : p.lru.table[x] # NULL => p.ht[x] = p.lru.table[x]

\* The table has the leases that are alive and have not been taken out of it.
TableAlive(p) ==
    \A x \in Name : p.ht[x] # NULL =>
        p.ht[x] \in Alive(p.lru) /\ p.lru.key[p.ht[x]] = x /\ p.ht[x] \notin p.out
AliveInTable(p) ==
    \A l \in Alive(p.lru) : l \notin p.out => p.ht[p.lru.key[l]] = l

Base(p, h) == /\ p \in PartState /\ CacheOk(p.lru, h)
              /\ CacheInTable(p) /\ TableAlive(p) /\ AliveInTable(p)

\* A lease has a context, with its users counted, unless its mode is regular.  The users of
\* the context keep it alive.
Shared(p) == {l \in Alive(p.lru) : p.mode[l] # "regular"}
Counted(p, u) ==
    /\ \A l \in Alive(p.lru) \ Shared(p) : p.refs[l] = 0 /\ l \notin p.ctx
    /\ \A l \in Shared(p) : p.refs[l] = u[l] /\ l \in p.ctx
    /\ p.dirs = Cardinality(Shared(p))
Used(p, h) == \A l \in Shared(p) : h[l] > 0

Fine(p, h) == h \in Users /\ Base(p, h) /\ Counted(p, h) /\ Used(p, h)

\* With servers whose leases for bulk insertions never expire, such a lease stays in
\* the table as long as it is used, and no lease is deleted that has a context.
BulkNever == "bulk" \in Mode => Due["bulk"] \subseteq {"never"}
ContextOk(p) ==
    /\ \A l \in Lease : l \notin Alive(p.lru) => l \notin p.ctx
    /\ \A l \in Alive(p.lru) : p.mode[l] = "bulk" => p.due[l] = "never" /\ l \notin p.out

\* The users of the leases.
Held == [l \in Lease |-> Cardinality(Holders(l))]

HoldersOk ==
    \A t \in Thread :
        /\ pc[t] = "held" <=> lease[t] # NULL
        /\ lease[t] # NULL => part.lru.key[lease[t]] = name[t] /\ part.mode[lease[t]] = mode[t]

\* One lookup of a way is at the server, and its name has no lease.
ServerOk ==
    /\ \A t \in Thread : pc[t] = "server" => Way[name[t]] \in busy /\ part.ht[name[t]] = NULL
    /\ \A t, v \in Thread :
          pc[t] = "server" /\ pc[v] = "server" /\ Way[name[t]] = Way[name[v]] => t = v
    /\ \A w \in busy : \E t \in Thread : pc[t] = "server" /\ Way[name[t]] = w

ThreadsTyped ==
    /\ busy \subseteq {Way[x] : x \in Name}
    /\ pc \in [Thread -> {"idle", "wait", "server", "held"}]
    /\ name \in [Thread -> Name]
    /\ mode \in [Thread -> Mode]
    /\ lease \in [Thread -> Lease \cup {NULL}]
    /\ lookups \in 0 .. MaxLookups

LeaseInv == /\ ThreadsTyped /\ Fine(part, Held) /\ HoldersOk /\ ServerOk
            /\ BulkNever => ContextOk(part)
-----------------------------------------------------------------------------
(***************************************************************************)
(* The cache.  The operators that Leases and LRUCacheProofs know are       *)
(* instances of the same ones.                                             *)
(***************************************************************************)
LEMMA SameFinite == ASSUME NEW S, IsFiniteSet(S) PROVE L!IsFiniteSet(S)
  BY DEF IsFiniteSet, L!IsFiniteSet

LEMMA CacheAssumption == L!LRUCacheAssumption
  BY SameFinite, LeasesAssumption, FS_Interval DEF L!LRUCacheAssumption, Lease

LEMMA SameList == ASSUME NEW s, NEW e PROVE lru!LRU_Remove(s, e) = L!LRU_Remove(s, e)
  BY Zenon DEF L!LRU_Remove, lru!LRU_Remove, L!Range, lru!Range

LEMMA SameUnref == \A c, e : lru!Unref(c, e) = L!Unref(c, e)
  <1> SUFFICES ASSUME NEW c, NEW e PROVE lru!Unref(c, e) = L!Unref(c, e)
    OBVIOUS
  <1> QED BY Zenon DEF L!Unref, lru!Unref, L!LRU_Remove, lru!LRU_Remove, L!Range, lru!Range

LEMMA SameAddRef == \A c, e : lru!AddRef(c, e) = L!AddRef(c, e)
  <1> SUFFICES ASSUME NEW c, NEW e PROVE lru!AddRef(c, e) = L!AddRef(c, e)
    OBVIOUS
  <1> QED BY Zenon DEF L!AddRef, lru!AddRef, L!LRU_Remove, lru!LRU_Remove, L!Range, lru!Range

LEMMA SameRemoveEntry == \A c, e : lru!RemoveEntry(c, e) = L!RemoveEntry(c, e)
  BY SameUnref, Zenon DEF L!RemoveEntry, lru!RemoveEntry

LEMMA SameRemoveKey == \A c, k : lru!RemoveKey(c, k) = L!RemoveKey(c, k)
  BY SameRemoveEntry, Zenon DEF L!RemoveKey, lru!RemoveKey

LEMMA SameRemoveOldest == \A c : lru!RemoveOldest(c) = L!RemoveOldest(c)
  BY SameRemoveKey, Zenon DEF L!RemoveOldest, lru!RemoveOldest

LEMMA SameMakeRoom == \A c : lru!MakeRoom(c) = L!MakeRoom(c)
  <1> SUFFICES ASSUME NEW c PROVE lru!MakeRoom(c) = L!MakeRoom(c)
    OBVIOUS
  <1>1. ASSUME NEW g
        PROVE  [n \in 0 .. Len(c.lru) |-> IF n = 0 THEN c
                    ELSE IF g[n - 1].usage > lease_lru_size THEN lru!RemoveOldest(g[n - 1])
                    ELSE g[n - 1]]
               = [n \in 0 .. Len(c.lru) |-> IF n = 0 THEN c
                    ELSE IF g[n - 1].usage > lease_lru_size THEN L!RemoveOldest(g[n - 1])
                    ELSE g[n - 1]]
    BY SameRemoveOldest, Zenon
  <1> QED BY <1>1, Zenon DEF L!MakeRoom, lru!MakeRoom

LEMMA SameAddEntry == \A c, k, e : lru!AddEntry(c, k, e) = L!AddEntry(c, k, e)
  <1> SUFFICES ASSUME NEW c, NEW k, NEW e PROVE lru!AddEntry(c, k, e) = L!AddEntry(c, k, e)
    OBVIOUS
  <1> DEFINE d == [c EXCEPT !.refs[e] = @ + 1, !.in_cache = @ \cup {e},
                            !.usage = @ + c.charge[e], !.table[k] = e]
             A == IF c.table[k] = NULL THEN d ELSE lru!RemoveEntry(d, c.table[k])
             B == IF c.table[k] = NULL THEN d ELSE L!RemoveEntry(d, c.table[k])
  <1>1. lru!AddEntry(c, k, e) = A
    BY Zenon DEF lru!AddEntry
  <1>2. L!AddEntry(c, k, e) = B
    BY Zenon DEF L!AddEntry
  <1> HIDE DEF d
  <1>3. A = B
    BY SameRemoveEntry, Zenon
  <1> QED BY <1>1, <1>2, <1>3, Zenon

LEMMA SameInserted ==
    \A c, k, e, ch : lru!Inserted(c, k, e, ch) = L!Inserted(c, k, e, ch)
  <1> SUFFICES ASSUME NEW c, NEW k, NEW e, NEW ch
               PROVE  lru!Inserted(c, k, e, ch) = L!Inserted(c, k, e, ch)
    OBVIOUS
  <1>1. lru!NewEntry(c, k, e, ch) = L!NewEntry(c, k, e, ch)
    BY Zenon DEF L!NewEntry, lru!NewEntry
  <1>2. lru!MakeRoom(lru!AddEntry(lru!NewEntry(c, k, e, ch), k, e))
          = L!MakeRoom(L!AddEntry(L!NewEntry(c, k, e, ch), k, e))
    BY <1>1, SameMakeRoom, SameAddEntry, Zenon
  <1> QED BY <1>1, <1>2, SameRemoveKey, Zenon DEF L!Inserted, lru!Inserted

\* What the proofs below use of the cache: its references are those of the users and its
\* own, and its table leads to the entries in it.
View(c, h) ==
    /\ c \in L!IntState
    /\ c.key \in [Lease -> Name] /\ c.refs \in [Lease -> Nat] /\ c.in_cache \in SUBSET Lease
    /\ c.table \in [Name -> Lease \cup {NULL}]
    /\ \A l \in Lease : c.refs[l] = h[l] + (IF l \in c.in_cache THEN 1 ELSE 0)
    /\ \A l \in Lease : l \in Alive(c) <=> h[l] > 0 \/ l \in c.in_cache
    /\ \A x \in Name : c.table[x] # NULL => c.table[x] \in c.in_cache /\ c.key[c.table[x]] = x
    /\ \A l \in c.in_cache : c.table[c.key[l]] = l

LEMMA CacheView == ASSUME NEW c, NEW h \in Users, CacheOk(c, h) PROVE View(c, h)
  <1>1. /\ c \in L!IntState
        /\ L!Lists(c, h) /\ L!TableHas(c, c.in_cache)
    BY Zenon DEF CacheOk, L!Good
  <1>2. /\ c.key \in [Lease -> Name] /\ c.refs \in [Lease -> Nat] /\ c.in_cache \in SUBSET Lease
        /\ c.table \in [Name -> Lease \cup {NULL}]
    BY <1>1 DEF L!IntState
  <1>3. \A l \in Lease : c.refs[l] = h[l] + (IF l \in c.in_cache THEN 1 ELSE 0)
    BY <1>1 DEF L!Lists
  <1>4. \A l \in Lease : l \in Alive(c) <=> h[l] > 0 \/ l \in c.in_cache
    BY <1>2, <1>3 DEF Alive, Users
  <1>5. /\ \A x \in Name : c.table[x] # NULL => c.table[x] \in c.in_cache /\ c.key[c.table[x]] = x
        /\ \A l \in c.in_cache : c.table[c.key[l]] = l
    BY <1>1 DEF L!TableHas
  <1> QED BY <1>1, <1>2, <1>3, <1>4, <1>5 DEF View

LEMMA UsersMore ==
    ASSUME NEW h \in Users, NEW l \in Lease
    PROVE  /\ More(h, l) \in Users /\ More(h, l)[l] = h[l] + 1 /\ More(h, l)[l] > 0
           /\ \A k \in Lease \ {l} : More(h, l)[k] = h[k]
  BY DEF Users, More

LEMMA UsersLess ==
    ASSUME NEW h \in Users, NEW l \in Lease, h[l] > 0
    PROVE  /\ Less(h, l) \in Users /\ Less(h, l)[l] = h[l] - 1
           /\ \A k \in Lease \ {l} : Less(h, l)[k] = h[k]
  BY DEF Users, Less

\* d is c after a step that leaves keys and the entries in the cache alone.
Steps(c, h, d) == CacheOk(d, h) /\ d.key = c.key /\ d.in_cache = c.in_cache

LEMMA RefStep ==
    ASSUME NEW c, NEW h \in Users, CacheOk(c, h), NEW l \in Lease, c.refs[l] > 0
    PROVE  Steps(c, More(h, l), lru!AddRef(c, l))
  <1> DEFINE d == L!AddRef(c, l)
  <1>1. L!Good(c, h) /\ h \in L!Holding /\ c.usage <= lease_lru_size
    BY DEF CacheOk, Users, L!Holding
  <1>2. L!Good(d, L!More(h, l)) /\ d.usage = c.usage /\ d.key = c.key /\ d.in_cache = c.in_cache
    BY <1>1, L!AddRefOk, CacheAssumption
  <1> HIDE DEF d
  <1>3. Steps(c, More(h, l), d)
    BY <1>1, <1>2 DEF Steps, CacheOk, More, L!More
  <1> QED BY <1>3, SameAddRef DEF d

LEMMA ReleaseStep ==
    ASSUME NEW c, NEW h \in Users, CacheOk(c, h), NEW l \in Lease, h[l] > 0
    PROVE  Steps(c, Less(h, l), lru!Unref(c, l))
  <1> DEFINE d == L!Unref(c, l)
  <1>1. L!Good(c, h) /\ h \in L!Holding /\ c.usage <= lease_lru_size
    BY DEF CacheOk, Users, L!Holding
  <1>2. L!Released(c, h, l, d)
    BY <1>1, L!ReleaseOk, CacheAssumption
  <1> HIDE DEF d
  <1>3. Steps(c, Less(h, l), d)
    BY <1>1, <1>2 DEF Steps, CacheOk, L!Released, Less, L!Less
  <1> QED BY <1>3, SameUnref DEF d

\* d is c without what it has under the name x.
Removes(c, h, x, d) ==
    CacheOk(d, h) /\ d.key = c.key /\ d.in_cache = c.in_cache \ {c.table[x]}

LEMMA RemoveStep ==
    ASSUME NEW c, NEW h \in Users, CacheOk(c, h), NEW x \in Name, c.table[x] # NULL
    PROVE  Removes(c, h, x, lru!RemoveKey(c, x))
  <1> DEFINE d == L!RemoveKey(c, x)
  <1>1. L!Good(c, h) /\ h \in L!Holding /\ c.usage <= lease_lru_size
    BY DEF CacheOk, Users, L!Holding
  <1>2. L!KeyRemoved(c, h, x, d)
    BY <1>1, L!RemoveKeyOk, CacheAssumption
  <1> HIDE DEF d
  <1>3. /\ L!Good(d, h) /\ d.key = c.key /\ d.in_cache = c.in_cache \ {c.table[x]}
        /\ d.usage = c.usage - c.charge[c.table[x]] /\ c.table[x] \in c.in_cache
    BY <1>2 DEF L!KeyRemoved
  <1>4. d.usage <= lease_lru_size
    <2>1. /\ c \in L!IntState
      BY <1>1, Zenon DEF L!Good
    <2>2. c.usage \in Int /\ c.charge \in [Lease -> Nat] /\ c.in_cache \in SUBSET Lease
      BY <2>1 DEF L!IntState
    <2> QED BY <1>1, <1>3, <2>2, LeasesAssumption
  <1>5. Removes(c, h, x, d)
    BY <1>3, <1>4 DEF Removes, CacheOk
  <1> QED BY <1>5, SameRemoveKey DEF d

\* d is c with a new entry l for the name x, which has none, in the cache or not.
Inserts(c, h, x, l, d) ==
    /\ CacheOk(d, h) /\ d.key = [c.key EXCEPT ![l] = x]
    /\ d.in_cache \subseteq c.in_cache \cup {l}

LEMMA InsertStep ==
    ASSUME NEW c, NEW h \in Users, CacheOk(c, h), NEW x \in Name, NEW l \in Lease,
           c.refs[l] = 0
    PROVE  Inserts(c, More(h, l), x, l, lru!Inserted(c, x, l, 1))
  <1> DEFINE d == L!Inserted(c, x, l, 1)
  <1>1. L!Good(c, h) /\ h \in L!Holding /\ c.usage <= lease_lru_size
    BY DEF CacheOk, Users, L!Holding
  <1>2. L!Insertion(c, h, x, l, 1, d)
    BY <1>1, L!InsertedOk, CacheAssumption
  <1> HIDE DEF d
  <1>3. /\ L!Good(d, L!More(h, l)) /\ d.usage <= lease_lru_size
        /\ d.key = [c.key EXCEPT ![l] = x]
        /\ lease_lru_size = 0 => d.in_cache = c.in_cache
        /\ lease_lru_size # 0 => L!Fits(c, h, x, l, d)
    BY <1>2 DEF L!Insertion
  <1>4. d.in_cache \subseteq c.in_cache \cup {l}
    BY <1>3 DEF L!Fits, L!Kept
  <1>5. Inserts(c, More(h, l), x, l, d)
    BY <1>3, <1>4 DEF Inserts, CacheOk, More, L!More
  <1> QED BY <1>5, SameInserted DEF d
-----------------------------------------------------------------------------
(***************************************************************************)
(* The partition: its table and its cache stay in agreement.               *)
(***************************************************************************)
LEMMA PartFields ==
    ASSUME NEW p \in PartState
    PROVE  /\ p.lru \in L!IntState /\ p.ht \in [Name -> Lease \cup {NULL}]
           /\ p.mode \in [Lease -> Mode] /\ p.due \in [Lease -> {"never", "later", "zero", "past"}]
           /\ p.out \in SUBSET Lease /\ p.ctx \in SUBSET Lease
           /\ p.refs \in [Lease -> Nat] /\ p.dirs \in Nat
  BY DEF PartState

\* q has the same leases as p, with cache c, table T and O out of it.
With(p, c, T, O, q) ==
    /\ q \in PartState /\ q.lru = c /\ q.ht = T /\ q.out = O
    /\ q.mode = p.mode /\ q.due = p.due /\ q.ctx = p.ctx /\ q.refs = p.refs /\ q.dirs = p.dirs

LEMMA Withs ==
    ASSUME NEW p \in PartState, NEW c \in L!IntState, NEW T \in [Name -> Lease \cup {NULL}],
           NEW O \in SUBSET Lease
    PROVE  /\ With(p, c, T, p.out, [p EXCEPT !.lru = c, !.ht = T])
           /\ With(p, p.lru, T, O, [p EXCEPT !.ht = T, !.out = O])
           /\ With(p, c, p.ht, p.out, [p EXCEPT !.lru = c])
  BY DEF PartState, With

\* The table after leases have been deleted, and after one has been taken out.
HtCached(p, c) ==
    [x \in Name |-> IF p.ht[x] \in {l \in Lease : p.lru.refs[l] > 0 /\ c.refs[l] = 0} \ p.out
                    THEN NULL ELSE p.ht[x]]
HtWithout(p, l) == [x \in Name |-> IF p.ht[x] = l THEN NULL ELSE p.ht[x]]

LEMMA CachedWith ==
    ASSUME NEW p \in PartState, NEW c \in L!IntState
    PROVE  /\ HtCached(p, c) \in [Name -> Lease \cup {NULL}]
           /\ With(p, c, HtCached(p, c), p.out, Cached(p, c))
  <1> DEFINE T == HtCached(p, c)
  <1>1. T \in [Name -> Lease \cup {NULL}]
    BY PartFields DEF HtCached
  <1>2. Cached(p, c) = [p EXCEPT !.lru = c, !.ht = T]
    BY Zenon DEF Cached, HtCached
  <1> HIDE DEF T
  <1>3. With(p, c, T, p.out, [p EXCEPT !.lru = c, !.ht = T])
    BY <1>1, Withs, PartFields
  <1> QED BY <1>1, <1>2, <1>3 DEF T

LEMMA RemoveWith ==
    ASSUME NEW p \in PartState, NEW l \in Lease
    PROVE  /\ HtWithout(p, l) \in [Name -> Lease \cup {NULL}]
           /\ With(p, p.lru, HtWithout(p, l), p.out \cup {l}, RemoveLease(p, l))
  <1> DEFINE T == HtWithout(p, l)
             O == p.out \cup {l}
  <1>1. T \in [Name -> Lease \cup {NULL}] /\ O \in SUBSET Lease /\ p.lru \in L!IntState
    BY PartFields DEF HtWithout
  <1>2. RemoveLease(p, l) = [p EXCEPT !.ht = T, !.out = O]
    BY Zenon DEF RemoveLease, HtWithout
  <1> HIDE DEF T, O
  <1>3. With(p, p.lru, T, O, [p EXCEPT !.ht = T, !.out = O])
    BY <1>1, Withs
  <1> QED BY <1>1, <1>2, <1>3 DEF T, O

\* q is p with the users h, I in the cache and O out of the table.
SameLeases(p, q) ==
    /\ q.lru.key = p.lru.key /\ q.mode = p.mode /\ q.due = p.due
    /\ q.ctx = p.ctx /\ q.refs = p.refs /\ q.dirs = p.dirs
Becomes(p, h, I, O, q) ==
    /\ Base(q, h) /\ SameLeases(p, q) /\ q.lru.in_cache = I /\ q.out = O
    /\ \A x \in Name : q.ht[x] \in {p.ht[x], NULL}

\* A new state of the cache that agrees with the table.
Agrees(p, c) ==
    /\ \A x \in Name : c.table[x] # NULL => p.ht[x] = c.table[x]
    /\ \A x \in Name : p.ht[x] # NULL =>
          /\ p.ht[x] \notin p.out /\ c.key[p.ht[x]] = x
          /\ p.lru.refs[p.ht[x]] > 0 \/ c.refs[p.ht[x]] > 0
    /\ \A l \in Alive(c) : l \notin p.out => p.ht[c.key[l]] = l

LEMMA CachedOk ==
    ASSUME NEW p \in PartState, NEW c, NEW h \in Users, CacheOk(c, h), Agrees(p, c)
    PROVE  Base(Cached(p, c), h)
  <1> DEFINE q == Cached(p, c)
             T == HtCached(p, c)
  <1>1. View(c, h)
    BY CacheView
  <1>2. /\ c \in L!IntState /\ c.key \in [Lease -> Name] /\ c.refs \in [Lease -> Nat]
        /\ c.in_cache \in SUBSET Lease
        /\ \A l \in Lease : l \in Alive(c) <=> h[l] > 0 \/ l \in c.in_cache
        /\ \A x \in Name : c.table[x] # NULL => c.table[x] \in c.in_cache
    BY <1>1 DEF View
  <1>3. With(p, c, T, p.out, q) /\ T \in [Name -> Lease \cup {NULL}]
    BY <1>2, CachedWith
  <1>4. /\ p.ht \in [Name -> Lease \cup {NULL}] /\ NULL \notin Lease
    BY PartFields, LeasesAssumption
  <1>5. \A x \in Name : T[x] = IF p.ht[x] # NULL /\ c.refs[p.ht[x]] > 0 THEN p.ht[x] ELSE NULL
    <2> SUFFICES ASSUME NEW x \in Name
                 PROVE  T[x] = IF p.ht[x] # NULL /\ c.refs[p.ht[x]] > 0 THEN p.ht[x] ELSE NULL
      OBVIOUS
    <2>1. CASE p.ht[x] = NULL
      BY <1>4, <2>1 DEF HtCached
    <2>2. CASE p.ht[x] # NULL
      <3>1. /\ p.ht[x] \in Lease /\ p.ht[x] \notin p.out
            /\ p.lru.refs[p.ht[x]] > 0 \/ c.refs[p.ht[x]] > 0
            /\ c.refs[p.ht[x]] \in Nat
        BY <1>2, <1>4, <2>2 DEF Agrees
      <3> QED BY <2>2, <3>1 DEF HtCached
    <2> QED BY <2>1, <2>2
  <1> HIDE DEF q, T
  <1>6. q \in PartState /\ q.lru = c /\ q.ht = T /\ q.out = p.out
    BY <1>3 DEF With
  <1>7. CacheInTable(q)
    <2> SUFFICES ASSUME NEW x \in Name, c.table[x] # NULL PROVE T[x] = c.table[x]
      BY <1>6 DEF CacheInTable
    <2>1. c.table[x] \in Alive(c) /\ p.ht[x] = c.table[x]
      BY <1>2 DEF Agrees
    <2> QED BY <1>5, <2>1 DEF Alive
  <1>8. TableAlive(q)
    <2> SUFFICES ASSUME NEW x \in Name, T[x] # NULL
                 PROVE  T[x] \in Alive(c) /\ c.key[T[x]] = x /\ T[x] \notin p.out
      BY <1>6 DEF TableAlive
    <2> QED BY <1>4, <1>5 DEF Agrees, Alive
  <1>9. AliveInTable(q)
    <2> SUFFICES ASSUME NEW l \in Alive(c), l \notin p.out PROVE T[c.key[l]] = l
      BY <1>6 DEF AliveInTable
    <2>1. l \in Lease /\ c.refs[l] > 0 /\ c.key[l] \in Name /\ p.ht[c.key[l]] = l
      BY <1>2 DEF Agrees, Alive
    <2> QED BY <1>4, <1>5, <2>1
  <1> QED BY <1>6, <1>7, <1>8, <1>9 DEF Base, q

\* The same, put together with what does not change.
LEMMA CachedBecomes ==
    ASSUME NEW p \in PartState, NEW c, NEW h \in Users, CacheOk(c, h), Agrees(p, c),
           c.key = p.lru.key
    PROVE  Becomes(p, h, c.in_cache, p.out, Cached(p, c))
  <1> DEFINE q == Cached(p, c)
             T == HtCached(p, c)
  <1>1. c \in L!IntState
    BY CacheView DEF View
  <1>2. With(p, c, T, p.out, q)
    BY <1>1, CachedWith
  <1>3. \A x \in Name : T[x] \in {p.ht[x], NULL}
    BY DEF HtCached
  <1>4. Base(q, h)
    BY CachedOk
  <1> HIDE DEF q, T
  <1>5. Becomes(p, h, c.in_cache, p.out, q)
    BY <1>2, <1>3, <1>4 DEF Becomes, SameLeases, With
  <1> QED BY <1>5 DEF q
-----------------------------------------------------------------------------
\* q is p with the leases O out of the table.
Thinner(p, O, q) ==
    /\ q \in PartState /\ q.lru = p.lru /\ q.out = O /\ p.out \subseteq O
    /\ \A x \in Name : q.ht[x] = IF p.ht[x] \in O THEN NULL ELSE p.ht[x]

LEMMA BaseFacts ==
    ASSUME NEW p, NEW h \in Users, Base(p, h)
    PROVE  /\ p \in PartState /\ CacheOk(p.lru, h) /\ View(p.lru, h)
           /\ CacheInTable(p) /\ TableAlive(p) /\ AliveInTable(p)
           /\ p.ht \in [Name -> Lease \cup {NULL}] /\ NULL \notin Lease
           /\ p.out \in SUBSET Lease
  <1>1. /\ p \in PartState /\ CacheOk(p.lru, h)
        /\ CacheInTable(p) /\ TableAlive(p) /\ AliveInTable(p)
    BY DEF Base
  <1>2. View(p.lru, h)
    BY <1>1, CacheView
  <1> QED BY <1>1, <1>2, PartFields, LeasesAssumption

LEMMA NotOut ==
    ASSUME NEW p, NEW h \in Users, Base(p, h)
    PROVE  /\ Thinner(p, p.out, p)
           /\ p.lru.in_cache \cap p.out = {}
  <1>1. /\ p \in PartState /\ View(p.lru, h) /\ CacheInTable(p) /\ TableAlive(p)
        /\ p.ht \in [Name -> Lease \cup {NULL}] /\ NULL \notin Lease /\ p.out \in SUBSET Lease
    BY BaseFacts
  <1>2. \A x \in Name : p.ht[x] = IF p.ht[x] \in p.out THEN NULL ELSE p.ht[x]
    BY <1>1 DEF TableAlive
  <1>3. p.lru.in_cache \cap p.out = {}
    <2> SUFFICES ASSUME NEW l \in p.lru.in_cache, l \in p.out PROVE FALSE
      OBVIOUS
    <2>1. l \in Lease /\ p.lru.key[l] \in Name /\ p.lru.table[p.lru.key[l]] = l
      BY <1>1 DEF View
    <2> QED BY <1>1, <2>1 DEF CacheInTable, TableAlive
  <1> QED BY <1>1, <1>2, <1>3 DEF Thinner

\* A cache with fewer entries and users agrees with a table that has lost some of those
\* that are not in it.
LEMMA AgreesLater ==
    ASSUME NEW p, NEW h \in Users, Base(p, h), NEW O, NEW q, Thinner(p, O, q),
           NEW c, NEW g \in Users, CacheOk(c, g), c.key = p.lru.key,
           c.in_cache \subseteq p.lru.in_cache, c.in_cache \cap O = {},
           \A l \in Lease : g[l] > 0 => l \in Alive(p.lru)
    PROVE  Agrees(q, c)
  <1>1. /\ View(p.lru, h) /\ CacheInTable(p) /\ TableAlive(p) /\ AliveInTable(p)
        /\ p.ht \in [Name -> Lease \cup {NULL}] /\ NULL \notin Lease
    BY BaseFacts
  <1>2. View(c, g)
    BY CacheView
  <1>3. /\ q.lru = p.lru /\ q.out = O /\ p.out \subseteq O
        /\ \A x \in Name : q.ht[x] = IF p.ht[x] \in O THEN NULL ELSE p.ht[x]
    BY DEF Thinner
  <1>4. \A x \in Name : c.table[x] # NULL => q.ht[x] = c.table[x]
    <2> SUFFICES ASSUME NEW x \in Name, c.table[x] # NULL PROVE q.ht[x] = c.table[x]
      OBVIOUS
    <2>1. /\ c.table[x] \in c.in_cache /\ c.key[c.table[x]] = x
      BY <1>2 DEF View
    <2>2. p.lru.table[x] = c.table[x]
      BY <1>1, <2>1 DEF View
    <2>3. p.ht[x] = c.table[x]
      BY <1>1, <2>2 DEF CacheInTable
    <2> QED BY <1>3, <2>1, <2>3
  <1>5. \A x \in Name : q.ht[x] # NULL =>
          /\ q.ht[x] \notin q.out /\ c.key[q.ht[x]] = x
          /\ q.lru.refs[q.ht[x]] > 0 \/ c.refs[q.ht[x]] > 0
    BY <1>1, <1>3 DEF TableAlive, Alive
  <1>6. \A l \in Alive(c) : l \notin q.out => q.ht[c.key[l]] = l
    <2> SUFFICES ASSUME NEW l \in Alive(c), l \notin O PROVE q.ht[c.key[l]] = l
      BY <1>3
    <2>1. l \in Lease /\ (g[l] > 0 \/ l \in c.in_cache)
      BY <1>2 DEF View, Alive
    <2>2. l \in Alive(p.lru) /\ c.key[l] \in Name
      BY <1>1, <2>1 DEF View
    <2>3. p.ht[p.lru.key[l]] = l
      BY <1>1, <1>3, <2>2 DEF AliveInTable
    <2> QED BY <1>3, <2>2, <2>3
  <1> QED BY <1>4, <1>5, <1>6 DEF Agrees

LEMMA AgreesBase ==
    ASSUME NEW q \in PartState, NEW h \in Users, CacheOk(q.lru, h), Agrees(q, q.lru)
    PROVE  Base(q, h)
  <1>1. q.ht \in [Name -> Lease \cup {NULL}] /\ NULL \notin Lease
    BY PartFields, LeasesAssumption
  <1>2. CacheInTable(q)
    BY DEF Agrees, CacheInTable
  <1>3. TableAlive(q)
    BY <1>1 DEF Agrees, TableAlive, Alive
  <1>4. AliveInTable(q)
    BY DEF Agrees, AliveInTable
  <1> QED BY <1>2, <1>3, <1>4 DEF Base

LEMMA ThinCached ==
    ASSUME NEW p, NEW h \in Users, Base(p, h), NEW O, NEW q, Thinner(p, O, q), SameLeases(p, q),
           NEW c, NEW g \in Users, CacheOk(c, g), c.key = p.lru.key,
           c.in_cache \subseteq p.lru.in_cache, c.in_cache \cap O = {},
           \A l \in Lease : g[l] > 0 => l \in Alive(p.lru)
    PROVE  Becomes(p, g, c.in_cache, O, Cached(q, c))
  <1> DEFINE r == Cached(q, c)
  <1>1. Agrees(q, c)
    BY AgreesLater
  <1>2. /\ q \in PartState /\ q.lru = p.lru /\ q.out = O
        /\ \A x \in Name : q.ht[x] \in {p.ht[x], NULL}
    BY DEF Thinner
  <1>3. Becomes(q, g, c.in_cache, O, r)
    BY <1>1, <1>2, CachedBecomes
  <1> HIDE DEF r
  <1>4. Becomes(p, g, c.in_cache, O, r)
    BY <1>2, <1>3 DEF Becomes, SameLeases
  <1> QED BY <1>4 DEF r

LEMMA ThinSame ==
    ASSUME NEW p, NEW h \in Users, Base(p, h), NEW O, NEW q, Thinner(p, O, q), SameLeases(p, q),
           p.lru.in_cache \cap O = {}
    PROVE  Becomes(p, h, p.lru.in_cache, O, q)
  <1>1. /\ q \in PartState /\ q.lru = p.lru /\ q.out = O
        /\ \A x \in Name : q.ht[x] \in {p.ht[x], NULL}
    BY DEF Thinner
  <1>2. CacheOk(p.lru, h) /\ View(p.lru, h)
    BY BaseFacts
  <1>3. \A l \in Lease : h[l] > 0 => l \in Alive(p.lru)
    BY <1>2 DEF View
  <1>4. Agrees(q, p.lru)
    BY <1>2, <1>3, AgreesLater
  <1>5. Base(q, h)
    BY <1>1, <1>2, <1>4, AgreesBase
  <1> QED BY <1>1, <1>5 DEF Becomes

LEMMA RemoveThin ==
    ASSUME NEW p, NEW h \in Users, Base(p, h), NEW l \in Lease
    PROVE  Thinner(p, p.out \cup {l}, RemoveLease(p, l)) /\ SameLeases(p, RemoveLease(p, l))
  <1> DEFINE q == RemoveLease(p, l)
             T == HtWithout(p, l)
  <1>1. p \in PartState /\ TableAlive(p) /\ p.ht \in [Name -> Lease \cup {NULL}]
    BY BaseFacts
  <1>2. With(p, p.lru, T, p.out \cup {l}, q)
    BY <1>1, RemoveWith
  <1>3. \A x \in Name : T[x] = IF p.ht[x] \in p.out \cup {l} THEN NULL ELSE p.ht[x]
    BY <1>1 DEF HtWithout, TableAlive
  <1> HIDE DEF q, T
  <1>4. Thinner(p, p.out \cup {l}, q) /\ SameLeases(p, q)
    BY <1>2, <1>3 DEF Thinner, SameLeases, With
  <1> QED BY <1>4 DEF q

LEMMA RemoveOk ==
    ASSUME NEW p, NEW h \in Users, Base(p, h), NEW l \in Lease, l \notin p.lru.in_cache
    PROVE  Becomes(p, h, p.lru.in_cache, p.out \cup {l}, RemoveLease(p, l))
  <1> DEFINE q == RemoveLease(p, l)
  <1>1. Thinner(p, p.out \cup {l}, q) /\ SameLeases(p, q)
    BY RemoveThin
  <1>2. p.lru.in_cache \cap (p.out \cup {l}) = {}
    BY NotOut
  <1> HIDE DEF q
  <1>3. Becomes(p, h, p.lru.in_cache, p.out \cup {l}, q)
    BY <1>1, <1>2, ThinSame
  <1> QED BY <1>3 DEF q

LEMMA UnrefOk ==
    ASSUME NEW p, NEW h \in Users, Base(p, h), NEW l \in Lease, h[l] > 0
    PROVE  Becomes(p, Less(h, l), p.lru.in_cache, p.out, Unref(p, l))
  <1> DEFINE c == lru!Unref(p.lru, l)
             g == Less(h, l)
  <1>1. CacheOk(p.lru, h) /\ View(p.lru, h) /\ Thinner(p, p.out, p) /\ SameLeases(p, p)
        /\ p.lru.in_cache \cap p.out = {}
    BY BaseFacts, NotOut DEF SameLeases
  <1>2. Steps(p.lru, g, c)
    BY <1>1, ReleaseStep
  <1>3. /\ g \in Users /\ g[l] = h[l] - 1 /\ \A k \in Lease \ {l} : g[k] = h[k]
    BY UsersLess
  <1>4. \A k \in Lease : g[k] > 0 => k \in Alive(p.lru)
    BY <1>1, <1>3 DEF View
  <1> HIDE DEF c, g
  <1>5. CacheOk(c, g) /\ c.key = p.lru.key /\ c.in_cache = p.lru.in_cache
    BY <1>2 DEF Steps
  <1>6. Becomes(p, g, c.in_cache, p.out, Cached(p, c))
    BY <1>1, <1>3, <1>4, <1>5, ThinCached
  <1> QED BY <1>5, <1>6 DEF c, g, Unref

\* The cache loses l, and so may the table.
LEMMA EraseThin ==
    ASSUME NEW p, NEW h \in Users, Base(p, h), NEW l \in Lease,
           NEW O, NEW q, Thinner(p, O, q), SameLeases(p, q), O \subseteq p.out \cup {l}
    PROVE  Becomes(p, h, p.lru.in_cache \ {l}, O, Erase(q, l))
  <1>1. CacheOk(p.lru, h) /\ View(p.lru, h) /\ NULL \notin Lease
        /\ p.lru.in_cache \cap p.out = {}
    BY BaseFacts, NotOut
  <1>2. q.lru = p.lru
    BY DEF Thinner
  <1>3. /\ p.lru.key[l] \in Name
        /\ l \in p.lru.in_cache <=> p.lru.table[p.lru.key[l]] = l
    BY <1>1 DEF View
  <1>4. \A k \in Lease : h[k] > 0 => k \in Alive(p.lru)
    BY <1>1 DEF View
  <1>5. CASE p.lru.table[p.lru.key[l]] # l
    <2>1. Erase(q, l) = q
      BY <1>2, <1>5 DEF Erase
    <2>2. p.lru.in_cache \ {l} = p.lru.in_cache /\ p.lru.in_cache \cap O = {}
      BY <1>1, <1>3, <1>5
    <2>3. Becomes(p, h, p.lru.in_cache, O, q)
      BY <2>2, ThinSame
    <2> QED BY <2>1, <2>2, <2>3
  <1>6. CASE p.lru.table[p.lru.key[l]] = l
    <2> DEFINE c == lru!RemoveKey(p.lru, p.lru.key[l])
    <2>1. Erase(q, l) = Cached(q, c)
      BY <1>2, <1>6 DEF Erase
    <2>2. Removes(p.lru, h, p.lru.key[l], c)
      BY <1>1, <1>3, <1>6, RemoveStep
    <2> HIDE DEF c
    <2>3. CacheOk(c, h) /\ c.key = p.lru.key /\ c.in_cache = p.lru.in_cache \ {l}
      BY <1>6, <2>2 DEF Removes
    <2>4. c.in_cache \cap O = {} /\ c.in_cache \subseteq p.lru.in_cache
      BY <1>1, <2>3
    <2>5. Becomes(p, h, c.in_cache, O, Cached(q, c))
      BY <1>4, <2>3, <2>4, ThinCached
    <2> QED BY <2>1, <2>3, <2>5
  <1> QED BY <1>5, <1>6

LEMMA EraseOk ==
    ASSUME NEW p, NEW h \in Users, Base(p, h), NEW l \in Lease
    PROVE  Becomes(p, h, p.lru.in_cache \ {l}, p.out, Erase(p, l))
  <1>1. Thinner(p, p.out, p) /\ SameLeases(p, p)
    BY NotOut DEF SameLeases
  <1> QED BY <1>1, EraseThin

LEMMA OutEraseOk ==
    ASSUME NEW p, NEW h \in Users, Base(p, h), NEW l \in Lease
    PROVE  Becomes(p, h, p.lru.in_cache \ {l}, p.out \cup {l}, Erase(RemoveLease(p, l), l))
  <1> DEFINE q == RemoveLease(p, l)
  <1>1. Thinner(p, p.out \cup {l}, q) /\ SameLeases(p, q)
    BY RemoveThin
  <1> HIDE DEF q
  <1>2. Becomes(p, h, p.lru.in_cache \ {l}, p.out \cup {l}, Erase(q, l))
    BY <1>1, EraseThin
  <1> QED BY <1>2 DEF q

LEMMA RefOk ==
    ASSUME NEW p, NEW h \in Users, Base(p, h), NEW l \in Lease, l \in Alive(p.lru)
    PROVE  Becomes(p, More(h, l), p.lru.in_cache, p.out, [p EXCEPT !.lru = lru!AddRef(@, l)])
  <1> DEFINE c == lru!AddRef(p.lru, l)
             g == More(h, l)
             q == [p EXCEPT !.lru = c]
  <1>1. /\ p \in PartState /\ CacheOk(p.lru, h) /\ View(p.lru, h)
        /\ Thinner(p, p.out, p) /\ SameLeases(p, p) /\ p.lru.in_cache \cap p.out = {}
    BY BaseFacts, NotOut DEF SameLeases
  <1>2. Steps(p.lru, g, c)
    BY <1>1, RefStep DEF Alive
  <1>3. /\ g \in Users /\ g[l] > 0 /\ \A k \in Lease \ {l} : g[k] = h[k]
    BY UsersMore
  <1>4. \A k \in Lease : g[k] > 0 => k \in Alive(p.lru)
    BY <1>1, <1>3 DEF View
  <1> HIDE DEF c, g
  <1>5. CacheOk(c, g) /\ c.key = p.lru.key /\ c.in_cache = p.lru.in_cache
    BY <1>2 DEF Steps
  <1>6. Agrees(p, c)
    BY <1>1, <1>3, <1>4, <1>5, AgreesLater
  <1>7. View(c, g) /\ c \in L!IntState
    BY <1>3, <1>5, CacheView DEF View
  <1>8. With(p, c, p.ht, p.out, q)
    BY <1>1, <1>7, Withs, PartFields
  <1> HIDE DEF q
  <1>9. Agrees(q, c)
    <2>1. \A k \in Lease : k \in Alive(p.lru) => c.refs[k] > 0
      <3> SUFFICES ASSUME NEW k \in Lease, k \in Alive(p.lru) PROVE k \in Alive(c)
        BY DEF Alive
      <3>1. g[k] > 0 \/ k \in c.in_cache
        BY <1>1, <1>3, <1>5 DEF View
      <3> QED BY <1>7, <3>1 DEF View
    <2>2. /\ q.ht = p.ht /\ q.out = p.out /\ TableAlive(p)
          /\ p.ht \in [Name -> Lease \cup {NULL}]
      BY <1>8, BaseFacts DEF With
    <2> QED BY <1>6, <2>1, <2>2 DEF Agrees, TableAlive
  <1>10. Base(q, g)
    BY <1>3, <1>5, <1>8, <1>9, AgreesBase DEF With
  <1>11. Becomes(p, g, p.lru.in_cache, p.out, q)
    BY <1>5, <1>8, <1>10 DEF Becomes, SameLeases, With
  <1> QED BY <1>11 DEF q, c, g
-----------------------------------------------------------------------------
(***************************************************************************)
(* Sequences of such changes, and what they keep of the contexts.          *)
(***************************************************************************)
LEMMA BecomesTrans ==
    ASSUME NEW p, NEW h, NEW I, NEW O, NEW q, Becomes(p, h, I, O, q),
           NEW g, NEW J, NEW R, NEW r, Becomes(q, g, J, R, r)
    PROVE  Becomes(p, g, J, R, r)
  BY DEF Becomes, SameLeases

LEMMA MoreLess ==
    ASSUME NEW h \in Users, NEW l \in Lease PROVE Less(More(h, l), l) = h
  <1> DEFINE g == More(h, l)
             f == Less(g, l)
  <1>1. g \in Users /\ g[l] = h[l] + 1 /\ g[l] > 0 /\ \A k \in Lease \ {l} : g[k] = h[k]
    BY UsersMore
  <1> HIDE DEF g
  <1>2. f \in Users /\ f[l] = g[l] - 1 /\ \A k \in Lease \ {l} : f[k] = g[k]
    BY <1>1, UsersLess
  <1> HIDE DEF f
  <1>3. \A k \in Lease : f[k] = h[k]
    BY <1>1, <1>2 DEF Users
  <1>4. f = h
    BY <1>2, <1>3 DEF Users
  <1> QED BY <1>4 DEF f, g

\* Only leases without users have died, which have no contexts.
Kept(p, u, g, q) ==
    /\ Base(q, g) /\ SameLeases(p, q) /\ Counted(q, u) /\ Used(q, g)
    /\ Shared(q) = Shared(p) /\ Alive(q.lru) \subseteq Alive(p.lru)
    /\ \A x \in Name : q.ht[x] \in {p.ht[x], NULL}
    /\ (ContextOk(p) /\ \A l \in q.out \ p.out : p.due[l] # "never") => ContextOk(q)

LEMMA KeptContexts ==
    ASSUME NEW p, NEW h \in Users, Base(p, h), NEW u, Counted(p, u), NEW g \in Users, Used(p, g),
           NEW I, NEW O, NEW q, Becomes(p, g, I, O, q), I \subseteq p.lru.in_cache,
           \A l \in Lease : g[l] > 0 => l \in Alive(p.lru)
    PROVE  Kept(p, u, g, q)
  <1>1. /\ Base(q, g) /\ SameLeases(p, q) /\ q.lru.in_cache = I
        /\ \A x \in Name : q.ht[x] \in {p.ht[x], NULL}
    BY DEF Becomes
  <1>2. View(p.lru, h) /\ View(q.lru, g)
    BY <1>1, BaseFacts
  <1>3. \A l \in Alive(q.lru) : l \in Alive(p.lru)
    <2> SUFFICES ASSUME NEW l \in Lease, l \in Alive(q.lru) PROVE l \in Alive(p.lru)
      BY DEF Alive
    <2>1. g[l] > 0 \/ l \in I
      BY <1>1, <1>2 DEF View
    <2> QED BY <1>2, <2>1 DEF View
  <1>4. Shared(q) = Shared(p)
    <2>1. \A l \in Shared(p) : l \in Alive(q.lru)
      BY <1>2 DEF Used, View, Shared, Alive
    <2> QED BY <1>1, <1>3, <2>1 DEF Shared, SameLeases
  <1>5. Counted(q, u)
    BY <1>1, <1>3, <1>4 DEF Counted, SameLeases
  <1>6. Used(q, g)
    BY <1>4 DEF Used
  <1>7. ASSUME ContextOk(p), \A l \in q.out \ p.out : p.due[l] # "never" PROVE ContextOk(q)
    <2>1. ASSUME NEW l \in Lease, l \notin Alive(q.lru) PROVE l \notin q.ctx
      <3>1. CASE l \notin Alive(p.lru)
        BY <1>1, <1>7, <3>1 DEF ContextOk, SameLeases
      <3>2. CASE l \in Alive(p.lru)
        <4>1. l \in Alive(p.lru) \ Shared(p)
          BY <1>4, <2>1, <3>2 DEF Shared
        <4> QED BY <1>1, <4>1 DEF Counted, SameLeases
      <3> QED BY <3>1, <3>2
    <2>2. ASSUME NEW l \in Alive(q.lru), q.mode[l] = "bulk"
          PROVE  q.due[l] = "never" /\ l \notin q.out
      BY <1>1, <1>3, <1>7, <2>2 DEF ContextOk, SameLeases
    <2> QED BY <2>1, <2>2 DEF ContextOk
  <1> QED BY <1>1, <1>3, <1>4, <1>5, <1>6, <1>7 DEF Kept
-----------------------------------------------------------------------------
(***************************************************************************)
(* A search finds a lease for the name, which gets a user, or leaves       *)
(* none in the table.                                                      *)
(***************************************************************************)
SearchFound(p, h, x, s) ==
    /\ s.lease \in Lease /\ s.lease \in Alive(p.lru) /\ p.lru.key[s.lease] = x
    /\ Becomes(p, More(h, s.lease), p.lru.in_cache, p.out, s.part)
SearchNone(p, h, x, s) ==
    /\ s.lease = NULL /\ s.part.ht[x] = NULL
    /\ \E I \in SUBSET p.lru.in_cache, O \in SUBSET Lease :
          /\ Becomes(p, h, I, O, s.part)
          /\ \A l \in O \ p.out : p.due[l] = "past"

LEMMA SearchCached ==
    ASSUME NEW p, NEW h \in Users, Base(p, h), NEW x \in Name, p.lru.table[x] # NULL
    PROVE  SearchFound(p, h, x, Search(p, x)) \/ SearchNone(p, h, x, Search(p, x))
  <1> DEFINE e == p.lru.table[x]
             q == [p EXCEPT !.lru = lru!AddRef(@, e)]
             r == Erase(RemoveLease(q, e), e)
             s == Unref(r, e)
             g == More(h, e)
             I == p.lru.in_cache \ {e}
             O == p.out \cup {e}
  <1>1. /\ View(p.lru, h) /\ CacheInTable(p) /\ NULL \notin Lease /\ p.out \in SUBSET Lease
    BY BaseFacts
  <1>2. /\ e \in Lease /\ e \in p.lru.in_cache /\ e \in Alive(p.lru) /\ p.lru.key[e] = x
        /\ p.ht[x] = e
    BY <1>1 DEF View, CacheInTable
  <1>3. Becomes(p, g, p.lru.in_cache, p.out, q)
    BY <1>2, RefOk
  <1>4. g \in Users /\ g[e] > 0 /\ Less(g, e) = h
    BY <1>2, UsersMore, MoreLess
  <1>5. Search(p, x) = IF p.due[e] = "past" THEN Found(s, NULL) ELSE Found(q, e)
    BY DEF Search
  <1> HIDE DEF e, q, r, s, g
  <1>6. CASE p.due[e] # "past"
    <2>1. Search(p, x).lease = e /\ Search(p, x).part = q
      BY <1>5, <1>6 DEF Found
    <2> QED BY <1>2, <1>3, <2>1 DEF SearchFound, g
  <1>7. CASE p.due[e] = "past"
    <2>1. Search(p, x).lease = NULL /\ Search(p, x).part = s
      BY <1>5, <1>7 DEF Found
    <2>2. Base(q, g) /\ q.lru.in_cache = p.lru.in_cache /\ q.out = p.out
      BY <1>3 DEF Becomes
    <2>3. Becomes(q, g, I, O, r)
      BY <1>2, <1>4, <2>2, OutEraseOk DEF r
    <2>4. Base(r, g) /\ r.lru.in_cache = I /\ r.out = O
      BY <2>3 DEF Becomes
    <2>5. Becomes(r, Less(g, e), r.lru.in_cache, r.out, s)
      BY <1>2, <1>4, <2>4, UnrefOk DEF s
    <2>6. Becomes(p, h, I, O, s)
      BY <1>3, <1>4, <2>3, <2>4, <2>5, BecomesTrans
    <2>7. s.ht[x] = NULL
      <3>1. Base(s, h) /\ s.ht[x] \in {e, NULL} /\ s.out = O
        BY <1>2, <2>6 DEF Becomes
      <3>2. TableAlive(s)
        BY <3>1, BaseFacts
      <3> QED BY <3>1, <3>2 DEF TableAlive
    <2>8. I \in SUBSET p.lru.in_cache /\ O \in SUBSET Lease /\ \A l \in O \ p.out : p.due[l] = "past"
      BY <1>1, <1>2, <1>7
    <2>9. SearchNone(p, h, x, Search(p, x))
      BY <2>1, <2>6, <2>7, <2>8 DEF SearchNone
    <2> QED BY <2>9
  <1> QED BY <1>6, <1>7

LEMMA SearchTable ==
    ASSUME NEW p, NEW h \in Users, Base(p, h), NEW x \in Name, p.lru.table[x] = NULL
    PROVE  SearchFound(p, h, x, Search(p, x)) \/ SearchNone(p, h, x, Search(p, x))
  <1> DEFINE e == p.ht[x]
             q == [p EXCEPT !.lru = lru!AddRef(@, e)]
             r == RemoveLease(p, e)
  <1>1. /\ View(p.lru, h) /\ TableAlive(p) /\ NULL \notin Lease /\ p.out \in SUBSET Lease
        /\ p.ht \in [Name -> Lease \cup {NULL}]
    BY BaseFacts
  <1>2. Search(p, x) = IF e = NULL THEN Found(p, NULL)
                       ELSE IF p.due[e] = "past" THEN Found(r, NULL) ELSE Found(q, e)
    BY DEF Search
  <1>3. CASE e = NULL
    <2>1. Search(p, x).lease = NULL /\ Search(p, x).part = p
      BY <1>2, <1>3 DEF Found
    <2>2. Becomes(p, h, p.lru.in_cache, p.out, p)
      BY DEF Becomes, SameLeases
    <2> QED BY <1>1, <1>3, <2>1, <2>2 DEF SearchNone
  <1>4. CASE e # NULL
    <2>1. e \in Lease /\ e \in Alive(p.lru) /\ p.lru.key[e] = x
      BY <1>1, <1>4 DEF TableAlive
    <2>2. e \notin p.lru.in_cache
      BY <1>1, <1>4, <2>1 DEF View
    <2>3. CASE p.due[e] # "past"
      <3>1. Becomes(p, More(h, e), p.lru.in_cache, p.out, q)
        BY <2>1, RefOk
      <3> HIDE DEF q
      <3>2. Search(p, x).lease = e /\ Search(p, x).part = q
        BY <1>2, <1>4, <2>3 DEF Found
      <3> HIDE DEF e
      <3> QED BY <2>1, <3>1, <3>2 DEF SearchFound
    <2>4. CASE p.due[e] = "past"
      <3> DEFINE O == p.out \cup {e}
      <3>1. Becomes(p, h, p.lru.in_cache, O, r)
        BY <2>1, <2>2, RemoveOk
      <3> HIDE DEF r
      <3>2. Search(p, x).lease = NULL /\ Search(p, x).part = r
        BY <1>2, <1>4, <2>4 DEF Found
      <3>3. r.ht[x] = NULL
        <4>1. Base(r, h) /\ r.ht[x] \in {e, NULL} /\ r.out = O
          BY <3>1 DEF Becomes
        <4>2. TableAlive(r)
          BY <4>1, BaseFacts
        <4> QED BY <4>1, <4>2 DEF TableAlive
      <3>4. O \in SUBSET Lease /\ \A l \in O \ p.out : p.due[l] = "past"
        BY <1>1, <2>1, <2>4
      <3> HIDE DEF e, O
      <3>5. SearchNone(p, h, x, Search(p, x))
        BY <3>1, <3>2, <3>3, <3>4 DEF SearchNone
      <3> QED BY <3>5
    <2> QED BY <2>3, <2>4
  <1> QED BY <1>3, <1>4

\* The lease l has a user that its context has not counted yet.
Pending(p, h, l) == Base(p, More(h, l)) /\ Counted(p, h) /\ Used(p, More(h, l))

\* Changes of the table and the cache, and how they look from p.
Later(p, h, q) ==
    /\ \A l \in Lease : h[l] > 0 => q.lru.key[l] = p.lru.key[l] /\ q.mode[l] = p.mode[l]
    /\ \A x \in Name : p.ht[x] = NULL => q.ht[x] = NULL
KeepsContexts(p, q) == BulkNever /\ ContextOk(p) => ContextOk(q)

LEMMA SearchOk ==
    ASSUME NEW p, NEW h, Fine(p, h), NEW x \in Name, NEW s, s = Search(p, x)
    PROVE  \/ /\ s.lease = NULL /\ s.part.ht[x] = NULL /\ Fine(s.part, h)
              /\ Later(p, h, s.part) /\ KeepsContexts(p, s.part)
           \/ /\ s.lease \in Lease /\ s.lease # NULL /\ s.part.lru.key[s.lease] = x
              /\ Pending(s.part, h, s.lease) /\ Used(s.part, h)
              /\ Later(p, h, s.part) /\ KeepsContexts(p, s.part)
  <1>1. h \in Users /\ Base(p, h) /\ Counted(p, h) /\ Used(p, h)
    BY DEF Fine
  <1>2. SearchFound(p, h, x, s) \/ SearchNone(p, h, x, s)
    BY <1>1, SearchCached, SearchTable
  <1>3. /\ \A l \in Lease : h[l] > 0 => l \in Alive(p.lru)
        /\ NULL \notin Lease /\ p.ht \in [Name -> Lease \cup {NULL}]
    BY <1>1, BaseFacts DEF View
  <1>4. ASSUME NEW q, NEW u, NEW g, Kept(p, u, g, q),
               \A l \in q.out \ p.out : p.due[l] # "never"
        PROVE  Later(p, h, q) /\ KeepsContexts(p, q)
    <2>1. \A y \in Name : p.ht[y] = NULL => q.ht[y] = NULL
      BY <1>4 DEF Kept
    <2> QED BY <1>4, <2>1 DEF Kept, Later, KeepsContexts, SameLeases
  <1>5. CASE SearchNone(p, h, x, s)
    <2>1. PICK I \in SUBSET p.lru.in_cache, O \in SUBSET Lease :
            /\ Becomes(p, h, I, O, s.part)
            /\ \A l \in O \ p.out : p.due[l] = "past"
      BY <1>5 DEF SearchNone
    <2>2. Kept(p, h, h, s.part)
      BY <1>1, <1>3, <2>1, KeptContexts
    <2>3. s.part.out = O
      BY <2>1 DEF Becomes
    <2>4. Later(p, h, s.part) /\ KeepsContexts(p, s.part)
      BY <1>4, <2>1, <2>2, <2>3
    <2>5. Fine(s.part, h)
      BY <1>1, <2>2 DEF Fine, Kept
    <2> QED BY <1>5, <2>4, <2>5 DEF SearchNone
  <1>6. CASE SearchFound(p, h, x, s)
    <2> DEFINE l == s.lease
               g == More(h, l)
    <2>1. /\ l \in Lease /\ l \in Alive(p.lru) /\ p.lru.key[l] = x
          /\ Becomes(p, g, p.lru.in_cache, p.out, s.part)
      BY <1>6 DEF SearchFound
    <2>2. /\ g \in Users /\ g[l] > 0 /\ \A k \in Lease \ {l} : g[k] = h[k]
      BY <1>1, <2>1, UsersMore
    <2> HIDE DEF g, l
    <2>3. \A k \in Lease : g[k] > 0 => k \in Alive(p.lru)
      BY <1>3, <2>1, <2>2
    <2>4. Used(p, g) /\ Shared(p) \subseteq Lease
      BY <1>1, <2>2 DEF Used, Shared, Alive
    <2>5. Kept(p, h, g, s.part)
      BY <1>1, <2>1, <2>2, <2>3, <2>4, KeptContexts
    <2>6. s.part.out = p.out
      BY <2>1 DEF Becomes
    <2>7. Later(p, h, s.part) /\ KeepsContexts(p, s.part)
      BY <1>4, <2>5, <2>6
    <2>8. Pending(s.part, h, l) /\ Used(s.part, h) /\ s.part.lru.key[l] = x
      BY <1>1, <2>1, <2>5 DEF Pending, Kept, g, Used, SameLeases
    <2> QED BY <1>3, <2>1, <2>7, <2>8 DEF l
  <1> QED BY <1>2, <1>5, <1>6

\* The lease is given back.
LEMMA ReturnOk ==
    ASSUME NEW p, NEW h \in Users, NEW l \in Lease, Pending(p, h, l), Used(p, h), NEW q,
           q = Unref(p, l)
    PROVE  Fine(q, h) /\ Later(p, h, q) /\ KeepsContexts(p, q)
  <1> DEFINE g == More(h, l)
  <1>1. g \in Users /\ g[l] > 0 /\ Less(g, l) = h /\ \A k \in Lease \ {l} : g[k] = h[k]
    BY UsersMore, MoreLess
  <1>2. Base(p, g) /\ Counted(p, h)
    BY DEF Pending
  <1> HIDE DEF g
  <1>3. Becomes(p, Less(g, l), p.lru.in_cache, p.out, q)
    BY <1>1, <1>2, UnrefOk
  <1>4. Becomes(p, h, p.lru.in_cache, p.out, q)
    BY <1>1, <1>3
  <1>5. \A k \in Lease : h[k] > 0 => k \in Alive(p.lru)
    BY <1>1, <1>2, BaseFacts DEF View
  <1>6. Kept(p, h, h, q)
    BY <1>1, <1>2, <1>4, <1>5, KeptContexts
  <1>7. q.out = p.out
    BY <1>4 DEF Becomes
  <1>8. \A y \in Name : p.ht[y] = NULL => q.ht[y] = NULL
    BY <1>6 DEF Kept
  <1> QED BY <1>6, <1>7, <1>8 DEF Fine, Kept, Later, KeepsContexts, SameLeases

\* q differs from p in its contexts only.
SameTable(p, q) ==
    /\ q.lru = p.lru /\ q.ht = p.ht /\ q.out = p.out /\ q.mode = p.mode /\ q.due = p.due
LEMMA SameTableBase ==
    ASSUME NEW p, NEW h, Base(p, h), NEW q \in PartState, SameTable(p, q)
    PROVE  Base(q, h) /\ Shared(q) = Shared(p)
  BY DEF Base, SameTable, CacheInTable, TableAlive, AliveInTable, Shared

\* The lease is granted.
LEMMA GrantOk ==
    ASSUME NEW p, NEW h \in Users, NEW l \in Lease, Pending(p, h, l), NEW m, m = p.mode[l],
           NEW q, q = Grant(p, l, m)
    PROVE  Fine(q, More(h, l)) /\ Later(p, h, q) /\ KeepsContexts(p, q)
  <1> DEFINE g == More(h, l)
             n == IF m = "regular" THEN p.refs[l] ELSE p.refs[l] + 1
  <1>1. g \in Users /\ g[l] > 0 /\ g[l] = h[l] + 1 /\ \A k \in Lease \ {l} : g[k] = h[k]
    BY UsersMore
  <1>2. Base(p, g) /\ Counted(p, h) /\ Used(p, g)
    BY DEF Pending
  <1>3. p \in PartState /\ p.refs \in [Lease -> Nat]
    BY <1>2, PartFields DEF Base
  <1>4. n \in Nat
    BY <1>3
  <1>5. q = [p EXCEPT !.refs[l] = n]
    BY <1>3 DEF Grant
  <1>6. /\ q \in PartState /\ SameTable(p, q) /\ q.ctx = p.ctx /\ q.dirs = p.dirs
        /\ q.refs[l] = n /\ \A k \in Lease \ {l} : q.refs[k] = p.refs[k]
    <2> HIDE DEF n
    <2> QED BY <1>3, <1>4, <1>5 DEF PartState, SameTable
  <1> HIDE DEF g
  <1>7. Base(q, g) /\ Shared(q) = Shared(p) /\ Alive(q.lru) = Alive(p.lru)
    BY <1>2, <1>6, SameTableBase DEF SameTable
  <1>8. Counted(q, g)
    <2>1. l \in Shared(p) <=> m # "regular"
      <3>1. l \in Alive(p.lru)
        BY <1>1, <1>2, BaseFacts DEF View
      <3> QED BY <3>1 DEF Shared
    <2>2. ASSUME NEW k \in Alive(q.lru) \ Shared(q) PROVE q.refs[k] = 0 /\ k \notin q.ctx
      <3>1. k \in Lease /\ p.refs[k] = 0 /\ k \notin p.ctx
        BY <1>2, <1>7 DEF Counted, Alive
      <3>2. k = l => m = "regular"
        BY <1>7, <2>1
      <3> QED BY <1>6, <3>1, <3>2
    <2>3. ASSUME NEW k \in Shared(q) PROVE q.refs[k] = g[k] /\ k \in q.ctx
      <3>1. k \in Lease /\ p.refs[k] = h[k] /\ k \in p.ctx
        BY <1>2, <1>7 DEF Counted, Shared, Alive
      <3>2. k = l => m # "regular"
        BY <1>7, <2>1
      <3> QED BY <1>1, <1>6, <3>1, <3>2
    <2> QED BY <1>2, <1>6, <1>7, <2>2, <2>3 DEF Counted
  <1>9. Used(q, g)
    BY <1>2, <1>7 DEF Used
  <1>10. KeepsContexts(p, q)
    BY <1>6, <1>7 DEF KeepsContexts, ContextOk, SameTable
  <1>11. Later(p, h, q)
    BY <1>6 DEF Later, SameTable
  <1> QED BY <1>1, <1>7, <1>8, <1>9, <1>10, <1>11 DEF Fine, g
-----------------------------------------------------------------------------
(***************************************************************************)
(* A new lease.                                                            *)
(***************************************************************************)
\* q is p with the lease l for x in the table, not yet in the cache.
Fresh(p, l, x, m, d, q) ==
    /\ q \in PartState /\ q.lru = p.lru
    /\ q.ht[x] = l /\ \A y \in Name \ {x} : q.ht[y] = p.ht[y]
    /\ q.mode[l] = m /\ q.due[l] = d /\ q.refs[l] = 0 /\ q.out = p.out \ {l}
    /\ \A k \in Lease \ {l} :
          q.mode[k] = p.mode[k] /\ q.due[k] = p.due[k] /\ q.refs[k] = p.refs[k]
    /\ q.ctx = IF m = "regular" THEN p.ctx \ {l} ELSE p.ctx \cup {l}
    /\ q.dirs = IF m = "regular" THEN p.dirs ELSE p.dirs + 1

Listed(p, l, x, m, d) ==
    [p EXCEPT !.ht[x] = l, !.mode[l] = m, !.due[l] = d,
              !.out = @ \ {l}, !.refs[l] = 0,
              !.ctx = IF m = "regular" THEN @ \ {l} ELSE @ \cup {l},
              !.dirs = IF m = "regular" THEN @ ELSE @ + 1]

LEMMA FreshLease ==
    ASSUME NEW p \in PartState, NEW l \in Lease, NEW x \in Name, NEW m \in Mode,
           NEW d \in {"never", "later", "zero"}
    PROVE  Fresh(p, l, x, m, d, Listed(p, l, x, m, d))
  <1> DEFINE C == IF m = "regular" THEN p.ctx \ {l} ELSE p.ctx \cup {l}
             n == IF m = "regular" THEN p.dirs ELSE p.dirs + 1
             T == [p.ht EXCEPT ![x] = l]
             M == [p.mode EXCEPT ![l] = m]
             D == [p.due EXCEPT ![l] = d]
             R == [p.refs EXCEPT ![l] = 0]
             O == p.out \ {l}
             q == [p EXCEPT !.ht = T, !.mode = M, !.due = D, !.out = O,
                            !.refs = R, !.ctx = C, !.dirs = n]
  <1>1. /\ p.lru \in L!IntState /\ p.ht \in [Name -> Lease \cup {NULL}]
        /\ p.mode \in [Lease -> Mode] /\ p.due \in [Lease -> {"never", "later", "zero", "past"}]
        /\ p.out \in SUBSET Lease /\ p.ctx \in SUBSET Lease
        /\ p.refs \in [Lease -> Nat] /\ p.dirs \in Nat
    BY PartFields
  <1>2. Listed(p, l, x, m, d) = q
    BY DEF Listed
  <1>3. C \in SUBSET Lease /\ n \in Nat
    BY <1>1
  <1>4. /\ T \in [Name -> Lease \cup {NULL}] /\ T[x] = l /\ \A y \in Name \ {x} : T[y] = p.ht[y]
    BY <1>1
  <1>5. /\ M \in [Lease -> Mode] /\ M[l] = m /\ \A k \in Lease \ {l} : M[k] = p.mode[k]
    BY <1>1
  <1>6. /\ D \in [Lease -> {"never", "later", "zero", "past"}] /\ D[l] = d
        /\ \A k \in Lease \ {l} : D[k] = p.due[k]
    BY <1>1
  <1>7. /\ R \in [Lease -> Nat] /\ R[l] = 0 /\ \A k \in Lease \ {l} : R[k] = p.refs[k]
    BY <1>1
  <1>8. O \in SUBSET Lease
    BY <1>1
  <1> HIDE DEF T, M, D, R, O, C, n
  <1>9. /\ q.lru = p.lru /\ q.ht = T /\ q.mode = M /\ q.due = D /\ q.out = O
        /\ q.ctx = C /\ q.refs = R /\ q.dirs = n
    BY DEF PartState
  <1>10. q \in PartState
    BY <1>1, <1>3, <1>4, <1>5, <1>6, <1>7, <1>8 DEF PartState
  <1> HIDE DEF q
  <1>11. Fresh(p, l, x, m, d, q)
    BY <1>4, <1>5, <1>6, <1>7, <1>9, <1>10 DEF Fresh, O, C, n
  <1> QED BY <1>2, <1>11

LEMMA FreshAgrees ==
    ASSUME NEW p, NEW h \in Users, Base(p, h), NEW l \in Lease, l \notin Alive(p.lru),
           NEW x \in Name, p.ht[x] = NULL, NEW m, NEW d, NEW q, Fresh(p, l, x, m, d, q),
           NEW c, Inserts(p.lru, More(h, l), x, l, c)
    PROVE  /\ Agrees(q, c) /\ CacheOk(c, More(h, l)) /\ View(c, More(h, l))
           /\ c.key[l] = x /\ \A k \in Lease \ {l} : c.key[k] = p.lru.key[k]
           /\ l \in Alive(c) /\ \A k \in Alive(c) : k # l => k \in Alive(p.lru)
  <1> DEFINE g == More(h, l)
  <1>1. /\ View(p.lru, h) /\ CacheInTable(p) /\ TableAlive(p) /\ AliveInTable(p)
        /\ p.ht \in [Name -> Lease \cup {NULL}] /\ NULL \notin Lease
    BY BaseFacts
  <1>2. g \in Users /\ g[l] > 0 /\ \A k \in Lease \ {l} : g[k] = h[k]
    BY UsersMore
  <1> HIDE DEF g
  <1>3. /\ CacheOk(c, g) /\ c.key = [p.lru.key EXCEPT ![l] = x]
        /\ c.in_cache \subseteq p.lru.in_cache \cup {l}
    BY DEF Inserts, g
  <1>4. View(c, g)
    BY <1>2, <1>3, CacheView
  <1>5. c.key[l] = x /\ \A k \in Lease \ {l} : c.key[k] = p.lru.key[k]
    BY <1>1, <1>3 DEF View
  <1>6. \A k \in Alive(c) : k # l => k \in Lease /\ k \in Alive(p.lru)
    <2> SUFFICES ASSUME NEW k \in Lease, k \in Alive(c), k # l PROVE k \in Alive(p.lru)
      BY DEF Alive
    <2>1. h[k] > 0 \/ k \in p.lru.in_cache
      BY <1>2, <1>3, <1>4 DEF View
    <2> QED BY <1>1, <2>1 DEF View
  <1>7. l \in Alive(c) /\ c.refs[l] > 0
    BY <1>2, <1>4 DEF View, Alive
  <1>8. /\ q.lru = p.lru /\ q.ht[x] = l /\ (\A y \in Name \ {x} : q.ht[y] = p.ht[y])
        /\ q.out = p.out \ {l}
    BY DEF Fresh
  <1>9. \A y \in Name : c.table[y] # NULL => q.ht[y] = c.table[y]
    <2> SUFFICES ASSUME NEW y \in Name, c.table[y] # NULL PROVE q.ht[y] = c.table[y]
      OBVIOUS
    <2>1. c.table[y] \in c.in_cache /\ c.key[c.table[y]] = y /\ c.table[y] \in Lease
      BY <1>4 DEF View
    <2>2. CASE c.table[y] = l
      BY <1>5, <1>8, <2>1, <2>2
    <2>3. CASE c.table[y] # l
      <3>1. c.table[y] \in p.lru.in_cache /\ p.lru.key[c.table[y]] = y
        BY <1>3, <1>5, <2>1, <2>3
      <3>2. p.ht[y] = c.table[y]
        BY <1>1, <3>1 DEF View, CacheInTable
      <3> QED BY <1>8, <2>1, <3>2, <1>1
    <2> QED BY <2>2, <2>3
  <1>10. ASSUME NEW y \in Name, q.ht[y] # NULL
         PROVE  /\ q.ht[y] \notin q.out /\ c.key[q.ht[y]] = y
                /\ q.lru.refs[q.ht[y]] > 0 \/ c.refs[q.ht[y]] > 0
    <2>1. CASE y = x
      BY <1>5, <1>7, <1>8, <2>1
    <2>2. CASE y # x
      <3>1. q.ht[y] = p.ht[y] /\ p.ht[y] \in Alive(p.lru) /\ p.lru.key[p.ht[y]] = y
            /\ p.ht[y] \notin p.out
        BY <1>1, <1>8, <1>10, <2>2 DEF TableAlive
      <3> QED BY <1>5, <1>8, <3>1 DEF Alive
    <2> QED BY <2>1, <2>2
  <1>11. ASSUME NEW k \in Alive(c), k \notin q.out PROVE q.ht[c.key[k]] = k
    <2>1. CASE k = l
      BY <1>5, <1>8, <2>1
    <2>2. CASE k # l
      <3>1. k \in Lease /\ k \in Alive(p.lru) /\ k \notin p.out /\ c.key[k] = p.lru.key[k]
            /\ p.lru.key[k] \in Name
        BY <1>1, <1>5, <1>6, <1>8, <1>11, <2>2 DEF View
      <3>2. p.ht[p.lru.key[k]] = k
        BY <1>1, <3>1 DEF AliveInTable
      <3> QED BY <1>1, <1>8, <3>1, <3>2
    <2> QED BY <2>1, <2>2
  <1>12. Agrees(q, c)
    BY <1>9, <1>10, <1>11 DEF Agrees
  <1> QED BY <1>3, <1>4, <1>5, <1>6, <1>7, <1>12 DEF g

\* The new lease l, for x and of mode m, is in r.
New(p, h, l, x, m, d, r) ==
    /\ Pending(r, h, l) /\ r.lru.key[l] = x /\ r.mode[l] = m /\ r.due[l] = d
    /\ \A k \in Lease : h[k] > 0 => r.lru.key[k] = p.lru.key[k] /\ r.mode[k] = p.mode[k]
    /\ \A y \in Name \ {x} : p.ht[y] = NULL => r.ht[y] = NULL

LEMMA SharedFinite == ASSUME NEW p PROVE IsFiniteSet(Shared(p)) /\ Shared(p) \in SUBSET Lease
  <1>1. IsFiniteSet(Lease)
    BY FS_Interval, LeasesAssumption DEF Lease
  <1>2. Shared(p) \in SUBSET Lease
    BY DEF Shared, Alive
  <1> QED BY <1>1, <1>2, FS_Subset

LEMMA FreshCached ==
    ASSUME NEW p, NEW h, Fine(p, h), NEW l \in Lease, l \notin Alive(p.lru),
           NEW x \in Name, p.ht[x] = NULL, NEW m \in Mode, NEW d \in Due[m],
           NEW q, Fresh(p, l, x, m, d, q),
           NEW c, Inserts(p.lru, More(h, l), x, l, c), NEW r, r = Cached(q, c)
    PROVE  New(p, h, l, x, m, d, r) /\ KeepsContexts(p, r)
  <1> DEFINE g == More(h, l)
             T == HtCached(q, c)
  <1>1. h \in Users /\ Base(p, h) /\ Counted(p, h) /\ Used(p, h)
    BY DEF Fine
  <1>2. g \in Users /\ g[l] = h[l] + 1 /\ g[l] > 0 /\ \A k \in Lease \ {l} : g[k] = h[k]
    BY <1>1, UsersMore
  <1>3. /\ Agrees(q, c) /\ CacheOk(c, g) /\ View(c, g)
        /\ c.key[l] = x /\ (\A k \in Lease \ {l} : c.key[k] = p.lru.key[k])
        /\ l \in Alive(c) /\ \A k \in Alive(c) : k # l => k \in Alive(p.lru)
    BY <1>1, FreshAgrees
  <1>4. q \in PartState /\ c \in L!IntState
    BY <1>3 DEF Fresh, View
  <1>5. Base(r, g)
    BY <1>2, <1>3, <1>4, CachedOk
  <1>6. With(q, c, T, q.out, r)
    BY <1>4, CachedWith
  <1>7. \A y \in Name : q.ht[y] = NULL => T[y] = NULL
    BY DEF HtCached
  <1> HIDE DEF g, T
  <1>8. /\ r.lru = c /\ r.ht = T /\ r.out = q.out
        /\ r.mode = q.mode /\ r.due = q.due /\ r.ctx = q.ctx /\ r.refs = q.refs /\ r.dirs = q.dirs
    BY <1>6 DEF With
  <1>9. /\ View(p.lru, h) /\ (\A k \in Lease : h[k] > 0 => k \in Alive(p.lru)) /\ h[l] = 0
        /\ p.dirs \in Nat /\ Alive(p.lru) \in SUBSET Lease /\ Alive(c) \in SUBSET Lease
        /\ p.ctx \in SUBSET Lease
    <2>1. p \in PartState /\ View(p.lru, h)
      BY <1>1, BaseFacts
    <2> QED BY <1>1, <2>1, PartFields DEF View, Users, Alive
  <1>10. ASSUME NEW k \in Shared(p) PROVE k # l /\ k \in Lease /\ k \in Alive(c)
    <2>1. k \in Lease /\ h[k] > 0 /\ k \in Alive(p.lru)
      BY <1>1 DEF Used, Shared, Alive
    <2> QED BY <1>2, <1>3, <2>1 DEF View
  <1>11. Shared(r) = IF m = "regular" THEN Shared(p) ELSE Shared(p) \cup {l}
    <2>1. Shared(r) = {k \in Alive(c) : q.mode[k] # "regular"}
      BY <1>8 DEF Shared
    <2>2. q.mode[l] = m /\ \A k \in Lease \ {l} : q.mode[k] = p.mode[k]
      BY DEF Fresh
    <2>3. ASSUME NEW k PROVE k \in Shared(r) <=> (k = l /\ m # "regular") \/ k \in Shared(p)
      <3>1. CASE k = l
        BY <1>3, <1>10, <2>1, <2>2, <3>1
      <3>2. CASE k # l
        BY <1>3, <1>9, <1>10, <2>1, <2>2, <3>2 DEF Shared
      <3> QED BY <3>1, <3>2
    <2> QED BY <2>3
  <1>12. Counted(r, h)
    <2>1. /\ r.refs[l] = 0 /\ (\A k \in Lease \ {l} : r.refs[k] = p.refs[k])
          /\ r.ctx = (IF m = "regular" THEN p.ctx \ {l} ELSE p.ctx \cup {l})
          /\ r.dirs = IF m = "regular" THEN p.dirs ELSE p.dirs + 1
      BY <1>8 DEF Fresh
    <2>2. ASSUME NEW k \in Alive(r.lru) \ Shared(r) PROVE r.refs[k] = 0 /\ k \notin r.ctx
      <3>1. CASE k = l
        BY <1>11, <2>1, <2>2, <3>1
      <3>2. CASE k # l
        <4>1. k \in Alive(p.lru) \ Shared(p) /\ k \in Lease
          BY <1>3, <1>8, <1>9, <1>11, <2>2, <3>2
        <4> QED BY <1>1, <2>1, <3>2, <4>1 DEF Counted
      <3> QED BY <3>1, <3>2
    <2>3. ASSUME NEW k \in Shared(r) PROVE r.refs[k] = h[k] /\ k \in r.ctx
      <3>1. CASE k = l
        BY <1>9, <1>10, <1>11, <2>1, <2>3, <3>1
      <3>2. CASE k # l
        <4>1. k \in Shared(p) /\ k \in Lease
          BY <1>10, <1>11, <2>3, <3>2
        <4> QED BY <1>1, <2>1, <3>2, <4>1 DEF Counted
      <3> QED BY <3>1, <3>2
    <2>4. r.dirs = Cardinality(Shared(r))
      <3>1. p.dirs = Cardinality(Shared(p)) /\ l \notin Shared(p)
        BY <1>1, <1>10 DEF Counted
      <3>2. IsFiniteSet(Shared(p))
        BY SharedFinite
      <3>3. Cardinality(Shared(p) \cup {l}) = Cardinality(Shared(p)) + 1
        BY <3>1, <3>2, FS_AddElement
      <3> QED BY <1>11, <2>1, <3>1, <3>3
    <2> QED BY <2>2, <2>3, <2>4 DEF Counted
  <1>13. Used(r, g)
    BY <1>1, <1>2, <1>10, <1>11 DEF Used
  <1>14. \A k \in Lease : h[k] > 0 => r.lru.key[k] = p.lru.key[k] /\ r.mode[k] = p.mode[k]
    BY <1>3, <1>8, <1>9 DEF Fresh
  <1>15. \A y \in Name \ {x} : p.ht[y] = NULL => r.ht[y] = NULL
    BY <1>7, <1>8 DEF Fresh
  <1>16. New(p, h, l, x, m, d, r)
    BY <1>3, <1>5, <1>8, <1>12, <1>13, <1>14, <1>15 DEF New, Pending, Fresh, g
  <1>17. ASSUME BulkNever, ContextOk(p) PROVE ContextOk(r)
    <2>1. ASSUME NEW k \in Lease, k \notin Alive(r.lru) PROVE k \notin r.ctx
      <3>1. k # l /\ k \notin Shared(p) /\ r.ctx = q.ctx
        BY <1>3, <1>8, <1>10, <2>1
      <3>2. k \notin p.ctx
        BY <1>1, <1>17, <3>1 DEF Counted, ContextOk
      <3> QED BY <3>1, <3>2 DEF Fresh
    <2>2. ASSUME NEW k \in Alive(r.lru), r.mode[k] = "bulk"
          PROVE  r.due[k] = "never" /\ k \notin r.out
      <3>1. CASE k = l
        BY <1>8, <1>17, <2>2, <3>1 DEF Fresh, BulkNever
      <3>2. CASE k # l
        <4>1. k \in Alive(p.lru) /\ k \in Lease
          BY <1>3, <1>8, <1>9, <3>2
        <4> QED BY <1>8, <1>17, <2>2, <3>2, <4>1 DEF Fresh, ContextOk
      <3> QED BY <3>1, <3>2
    <2> QED BY <2>1, <2>2 DEF ContextOk
  <1> QED BY <1>16, <1>17 DEF KeepsContexts

LEMMA NewOk ==
    ASSUME NEW p, NEW h, Fine(p, h), NEW l \in Lease, l \notin Alive(p.lru),
           NEW x \in Name, p.ht[x] = NULL, NEW m \in Mode, NEW d \in Due[m],
           NEW r, r = NewLease(p, l, x, m, d)
    PROVE  New(p, h, l, x, m, d, r) /\ KeepsContexts(p, r)
  <1> DEFINE q == Listed(p, l, x, m, d)
             c == lru!Inserted(p.lru, x, l, 1)
             s == Cached(q, c)
             g == More(h, l)
  <1>1. h \in Users /\ Base(p, h)
    BY DEF Fine
  <1>2. /\ p \in PartState /\ View(p.lru, h) /\ CacheOk(p.lru, h)
    BY <1>1, BaseFacts
  <1>3. d \in {"never", "later", "zero"}
    BY LeasesAssumption
  <1>4. Fresh(p, l, x, m, d, q)
    BY <1>2, <1>3, FreshLease
  <1>5. p.lru.refs[l] = 0
    BY <1>2 DEF View, Alive
  <1>6. Inserts(p.lru, g, x, l, c)
    BY <1>1, <1>2, <1>5, InsertStep
  <1>7. r = IF d = "zero" THEN Erase(RemoveLease(s, l), l) ELSE s
    <2>1. q.lru = p.lru
      BY <1>4 DEF Fresh
    <2>2. r = LET z == Cached(q, lru!Inserted(q.lru, x, l, 1))
              IN IF d = "zero" THEN Erase(RemoveLease(z, l), l) ELSE z
      BY DEF NewLease, Listed
    <2> HIDE DEF q
    <2> QED BY <2>1, <2>2
  <1> HIDE DEF q, c
  <1>8. New(p, h, l, x, m, d, s) /\ KeepsContexts(p, s)
    BY <1>4, <1>6, FreshCached
  <1> HIDE DEF s
  <1>9. CASE d # "zero"
    BY <1>7, <1>8, <1>9
  <1>10. CASE d = "zero"
    <2>1. Becomes(s, g, s.lru.in_cache \ {l}, s.out \cup {l}, r)
      <3>1. Base(s, g) /\ g \in Users
        BY <1>1, <1>8, UsersMore DEF New, Pending
      <3> QED BY <1>7, <1>10, <3>1, OutEraseOk
    <2>2. Base(s, g) /\ Counted(s, h) /\ Used(s, g) /\ g \in Users
      BY <1>1, <1>8, UsersMore DEF New, Pending
    <2> HIDE DEF g
    <2>3. \A k \in Lease : g[k] > 0 => k \in Alive(s.lru)
      BY <2>2, BaseFacts DEF View
    <2>4. Kept(s, h, g, r)
      BY <2>1, <2>2, <2>3, KeptContexts
    <2>5. \A k \in r.out \ s.out : s.due[k] # "never"
      <3>1. r.out = s.out \cup {l} /\ s.due[l] = "zero"
        BY <1>8, <1>10, <2>1 DEF Becomes, New
      <3> QED BY <3>1
    <2>6. KeepsContexts(p, r)
      BY <1>8, <2>4, <2>5 DEF KeepsContexts, Kept
    <2>7. Pending(r, h, l)
      BY <2>4 DEF Kept, Pending, g
    <2>8. SameLeases(s, r) /\ \A y \in Name : s.ht[y] = NULL => r.ht[y] = NULL
      BY <2>4 DEF Kept
    <2>9. New(p, h, l, x, m, d, r)
      BY <1>8, <2>7, <2>8 DEF New, SameLeases
    <2> QED BY <2>6, <2>9
  <1> QED BY <1>9, <1>10
-----------------------------------------------------------------------------
(***************************************************************************)
(* A user leaves.                                                          *)
(***************************************************************************)
\* The user of a lease without a context.
LEMMA LeaveOk ==
    ASSUME NEW p, NEW h, Fine(p, h), NEW l \in Lease, h[l] > 0, p.mode[l] = "regular",
           NEW r, r = Unref(p, l)
    PROVE  Fine(r, Less(h, l)) /\ Later(p, h, r) /\ KeepsContexts(p, r)
  <1> DEFINE g == Less(h, l)
  <1>1. h \in Users /\ Base(p, h) /\ Counted(p, h) /\ Used(p, h)
    BY DEF Fine
  <1>2. g \in Users /\ g[l] = h[l] - 1 /\ \A k \in Lease \ {l} : g[k] = h[k]
    BY <1>1, UsersLess
  <1>3. Becomes(p, g, p.lru.in_cache, p.out, r)
    BY <1>1, UnrefOk
  <1>4. \A k \in Shared(p) : k # l /\ k \in Lease
    BY DEF Shared, Alive
  <1> HIDE DEF g
  <1>5. \A k \in Lease : g[k] > 0 => k \in Alive(p.lru)
    BY <1>1, <1>2, BaseFacts DEF View
  <1>6. Used(p, g) /\ Counted(p, g)
    BY <1>1, <1>2, <1>4 DEF Used, Counted
  <1>7. Kept(p, g, g, r) /\ r.out = p.out
    BY <1>1, <1>2, <1>3, <1>5, <1>6, KeptContexts DEF Becomes
  <1>8. \A y \in Name : p.ht[y] = NULL => r.ht[y] = NULL
    BY <1>7 DEF Kept
  <1>9. Fine(r, g)
    BY <1>2, <1>7 DEF Fine, Kept
  <1> QED BY <1>7, <1>8, <1>9 DEF g, Kept, Later, KeepsContexts, SameLeases

\* r is p after the last user of l has left with the context.
Gone(p, g, l, r) ==
    /\ Base(r, g) /\ r.lru.key = p.lru.key /\ r.mode = p.mode /\ r.due = p.due
    /\ r.lru.in_cache \subseteq p.lru.in_cache \ {l} /\ r.out \subseteq p.out \cup {l}
    /\ \A k \in Lease \ {l} : r.refs[k] = p.refs[k]
    /\ r.dirs = p.dirs - 1
    /\ \/ r.ctx = p.ctx \ {l}
       \/ r.ctx = p.ctx /\ l \in p.out /\ p.mode[l] = "bulk"
    /\ \A x \in Name : r.ht[x] \in {p.ht[x], NULL}

LEMMA GoneOk ==
    ASSUME NEW p, NEW h, Fine(p, h), NEW l \in Lease, h[l] = 1, l \in Shared(p),
           NEW r, Gone(p, Less(h, l), l, r)
    PROVE  Fine(r, Less(h, l)) /\ Later(p, h, r) /\ KeepsContexts(p, r)
  <1> DEFINE g == Less(h, l)
  <1>1. h \in Users /\ Base(p, h) /\ Counted(p, h) /\ Used(p, h)
    BY DEF Fine
  <1>2. g \in Users /\ g[l] = 0 /\ \A k \in Lease \ {l} : g[k] = h[k]
    BY <1>1, UsersLess
  <1> HIDE DEF g
  <1>3. /\ Base(r, g) /\ r.lru.key = p.lru.key /\ r.mode = p.mode /\ r.due = p.due
        /\ r.lru.in_cache \subseteq p.lru.in_cache \ {l} /\ r.out \subseteq p.out \cup {l}
        /\ \A k \in Lease \ {l} : r.refs[k] = p.refs[k]
        /\ r.dirs = p.dirs - 1
        /\ \/ r.ctx = p.ctx \ {l}
           \/ r.ctx = p.ctx /\ l \in p.out /\ p.mode[l] = "bulk"
        /\ \A x \in Name : r.ht[x] \in {p.ht[x], NULL}
    BY DEF Gone, g
  <1>4. View(p.lru, h) /\ View(r.lru, g)
    BY <1>1, <1>2, <1>3, BaseFacts
  <1>5. l \notin Alive(r.lru)
    BY <1>2, <1>3, <1>4 DEF View
  <1>6. ASSUME NEW k \in Alive(r.lru) PROVE k \in Alive(p.lru) /\ k # l /\ k \in Lease
    <2>1. k \in Lease /\ (g[k] > 0 \/ k \in r.lru.in_cache) /\ k # l
      BY <1>4, <1>5 DEF View, Alive
    <2>2. h[k] > 0 \/ k \in p.lru.in_cache
      BY <1>2, <1>3, <2>1
    <2> QED BY <1>4, <2>1, <2>2 DEF View
  <1>7. ASSUME NEW k \in Shared(p), k # l PROVE k \in Alive(r.lru)
    <2>1. k \in Lease /\ g[k] > 0
      BY <1>1, <1>2, <1>7 DEF Used, Shared, Alive
    <2> QED BY <1>4, <2>1 DEF View
  <1>8. Shared(r) = Shared(p) \ {l}
    BY <1>3, <1>6, <1>7 DEF Shared
  <1>9. Counted(r, g)
    <2>1. ASSUME NEW k \in Alive(r.lru) \ Shared(r) PROVE r.refs[k] = 0 /\ k \notin r.ctx
      <3>1. k \in Alive(p.lru) \ Shared(p) /\ k # l /\ k \in Lease
        BY <1>6, <1>8, <2>1
      <3>2. p.refs[k] = 0 /\ k \notin p.ctx
        BY <1>1, <3>1 DEF Counted
      <3> QED BY <1>3, <3>1, <3>2
    <2>2. ASSUME NEW k \in Shared(r) PROVE r.refs[k] = g[k] /\ k \in r.ctx
      <3>1. k \in Shared(p) /\ k # l /\ k \in Lease
        BY <1>8, <2>2 DEF Shared, Alive
      <3>2. p.refs[k] = h[k] /\ k \in p.ctx
        BY <1>1, <3>1 DEF Counted
      <3> QED BY <1>2, <1>3, <3>1, <3>2
    <2>3. r.dirs = Cardinality(Shared(r))
      <3>1. IsFiniteSet(Shared(p)) /\ p.dirs = Cardinality(Shared(p))
        BY <1>1, SharedFinite DEF Counted
      <3>2. Cardinality(Shared(p) \ {l}) = Cardinality(Shared(p)) - 1
        BY <3>1, FS_RemoveElement
      <3> QED BY <1>3, <1>8, <3>1, <3>2
    <2> QED BY <2>1, <2>2, <2>3 DEF Counted
  <1>10. Used(r, g)
    BY <1>1, <1>2, <1>8, SharedFinite DEF Used
  <1>11. ASSUME ContextOk(p) PROVE ContextOk(r)
    <2>1. r.ctx = p.ctx \ {l}
      BY <1>3, <1>11 DEF ContextOk, Shared
    <2>2. ASSUME NEW k \in Lease, k \notin Alive(r.lru) PROVE k \notin r.ctx
      <3>1. CASE k = l
        BY <2>1, <3>1
      <3>2. CASE k # l
        BY <1>1, <1>7, <1>11, <2>1, <2>2, <3>2 DEF Counted, ContextOk
      <3> QED BY <3>1, <3>2
    <2>3. ASSUME NEW k \in Alive(r.lru), r.mode[k] = "bulk"
          PROVE  r.due[k] = "never" /\ k \notin r.out
      BY <1>3, <1>6, <1>11, <2>3 DEF ContextOk
    <2> QED BY <2>2, <2>3 DEF ContextOk
  <1>12. Later(p, h, r)
    BY <1>3 DEF Later
  <1> QED BY <1>2, <1>3, <1>9, <1>10, <1>11, <1>12 DEF Fine, KeepsContexts, g

LEMMA DiscardOk ==
    ASSUME NEW p, NEW h \in Users, Base(p, h), NEW l \in Lease
    PROVE  Becomes(p, h, p.lru.in_cache \ {l}, p.out \cup {l}, Discard(p, l))
  <1> DEFINE q == Erase(p, l)
             r == RemoveLease(q, l)
  <1>1. Becomes(p, h, p.lru.in_cache \ {l}, p.out, q)
    BY EraseOk
  <1> HIDE DEF q
  <1>2. Base(q, h) /\ q.lru.in_cache = p.lru.in_cache \ {l} /\ q.out = p.out
    BY <1>1 DEF Becomes
  <1>3. Becomes(q, h, q.lru.in_cache, q.out \cup {l}, r)
    BY <1>2, RemoveOk
  <1> HIDE DEF r
  <1>4. Becomes(p, h, q.lru.in_cache, q.out \cup {l}, r)
    BY <1>1, <1>3, BecomesTrans
  <1> QED BY <1>2, <1>4 DEF Discard, q, r

\* a is p with one user less in the context of l.
Uncounted(p, l, a) ==
    /\ a \in PartState /\ SameTable(p, a) /\ a.ctx = p.ctx /\ a.dirs = p.dirs
    /\ a.refs[l] = p.refs[l] - 1 /\ \A k \in Lease \ {l} : a.refs[k] = p.refs[k]

LEMMA UncountedIs ==
    ASSUME NEW p \in PartState, NEW l \in Lease, p.refs[l] > 0
    PROVE  Uncounted(p, l, [p EXCEPT !.refs[l] = @ - 1])
  <1> DEFINE n == p.refs[l] - 1
             q == [p EXCEPT !.refs[l] = n]
  <1>1. n \in Nat /\ p.refs \in [Lease -> Nat]
    BY PartFields
  <1>2. q = [p EXCEPT !.refs[l] = @ - 1]
    BY <1>1
  <1>3. Uncounted(p, l, q)
    <2> HIDE DEF n
    <2>1. q.refs[l] = n /\ \A k \in Lease \ {l} : q.refs[k] = p.refs[k]
      BY <1>1 DEF PartState
    <2> QED BY <1>1, <2>1 DEF PartState, Uncounted, SameTable, n
  <1> QED BY <1>2, <1>3

\* A user leaves that is not the last.
LEMMA DestroyNotLast ==
    ASSUME NEW p, NEW h, Fine(p, h), NEW l \in Lease, l \in Shared(p), h[l] > 1,
           NEW a, Uncounted(p, l, a), NEW r, r = Unref(a, l)
    PROVE  Fine(r, Less(h, l)) /\ Later(p, h, r) /\ KeepsContexts(p, r)
  <1> DEFINE g == Less(h, l)
  <1>1. h \in Users /\ Base(p, h) /\ Counted(p, h) /\ Used(p, h) /\ h[l] \in Nat
    BY DEF Fine, Users
  <1>2. g \in Users /\ g[l] = h[l] - 1 /\ \A k \in Lease \ {l} : g[k] = h[k]
    BY <1>1, UsersLess
  <1>3. Base(a, h) /\ Shared(a) = Shared(p) /\ SameTable(p, a)
    BY <1>1, SameTableBase DEF Uncounted
  <1>4. Becomes(a, g, a.lru.in_cache, a.out, r)
    BY <1>1, <1>3, UnrefOk
  <1> HIDE DEF g
  <1>5. \A k \in Lease : g[k] > 0 => k \in Alive(a.lru)
    BY <1>1, <1>2, <1>3, BaseFacts DEF View
  <1>6. Used(a, g)
    BY <1>1, <1>2, <1>3, SharedFinite DEF Used
  <1>7. Counted(a, g)
    <2>1. ASSUME NEW k \in Alive(a.lru) \ Shared(a) PROVE a.refs[k] = 0 /\ k \notin a.ctx
      <3>1. k \in Alive(p.lru) \ Shared(p) /\ k # l /\ k \in Lease
        BY <1>3 DEF SameTable, Alive
      <3> QED BY <1>1, <3>1 DEF Counted, Uncounted
    <2>2. ASSUME NEW k \in Shared(a) PROVE a.refs[k] = g[k] /\ k \in a.ctx
      <3>1. k \in Shared(p) /\ k \in Lease
        BY <1>3, SharedFinite
      <3>2. p.refs[k] = h[k] /\ k \in p.ctx
        BY <1>1, <3>1 DEF Counted
      <3> QED BY <1>2, <3>1, <3>2 DEF Uncounted
    <2>3. a.dirs = Cardinality(Shared(a))
      BY <1>1, <1>3 DEF Counted, Uncounted
    <2> QED BY <2>1, <2>2, <2>3 DEF Counted
  <1>8. Kept(a, g, g, r) /\ r.out = a.out
    BY <1>1, <1>2, <1>3, <1>4, <1>5, <1>6, <1>7, KeptContexts DEF Becomes
  <1>9. \A y \in Name : a.ht[y] = NULL => r.ht[y] = NULL
    BY <1>8 DEF Kept
  <1>10. Fine(r, g)
    BY <1>2, <1>8 DEF Fine, Kept
  <1>11. Later(p, h, r)
    BY <1>3, <1>8, <1>9 DEF Later, Kept, SameLeases, SameTable
  <1>12. KeepsContexts(p, r)
    <2>1. ContextOk(p) => ContextOk(a)
      BY <1>3 DEF ContextOk, SameTable, Uncounted
    <2> QED BY <1>8, <2>1 DEF Kept, KeepsContexts
  <1> QED BY <1>10, <1>11, <1>12 DEF g

\* b is a without the context of l, or with it for a lease that is out.
Dropped(a, b, l, n) ==
    /\ b \in PartState /\ SameTable(a, b) /\ b.refs = a.refs /\ b.dirs = n
    /\ b.ctx = a.ctx \ {l}

LEMMA DroppedIs ==
    ASSUME NEW a \in PartState, NEW l \in Lease, a.dirs > 0
    PROVE  Dropped(a, [a EXCEPT !.ctx = @ \ {l}, !.dirs = @ - 1], l, a.dirs - 1)
  <1> DEFINE n == a.dirs - 1
             C == a.ctx \ {l}
             b == [a EXCEPT !.ctx = C, !.dirs = n]
  <1>1. n \in Nat /\ C \in SUBSET Lease
    BY PartFields
  <1>2. b = [a EXCEPT !.ctx = @ \ {l}, !.dirs = @ - 1]
    OBVIOUS
  <1>3. Dropped(a, b, l, n)
    <2>1. b.ctx = C /\ b.dirs = n
      BY DEF PartState
    <2> HIDE DEF n, C
    <2>2. b \in PartState /\ SameTable(a, b) /\ b.refs = a.refs
      BY <1>1 DEF PartState, SameTable
    <2> QED BY <2>1, <2>2 DEF Dropped, C, n
  <1> QED BY <1>2, <1>3

\* The last user discards the lease and the context.
LEMMA DestroyDiscards ==
    ASSUME NEW p, NEW h, Fine(p, h), NEW l \in Lease, l \in Shared(p), h[l] = 1,
           NEW a, Uncounted(p, l, a),
           NEW b, b = [Discard(a, l) EXCEPT !.ctx = @ \ {l}, !.dirs = @ - 1],
           NEW r, r = Unref(b, l)
    PROVE  Fine(r, Less(h, l)) /\ Later(p, h, r) /\ KeepsContexts(p, r)
  <1> DEFINE g == Less(h, l)
             q == Discard(a, l)
             I == p.lru.in_cache \ {l}
             O == p.out \cup {l}
  <1>1. h \in Users /\ Base(p, h) /\ Counted(p, h)
    BY DEF Fine
  <1>2. Base(a, h) /\ SameTable(p, a)
    BY <1>1, SameTableBase DEF Uncounted
  <1>3. Becomes(a, h, a.lru.in_cache \ {l}, a.out \cup {l}, q)
    BY <1>1, <1>2, DiscardOk
  <1> HIDE DEF q, g
  <1>4. Base(q, h) /\ SameLeases(a, q) /\ q.lru.in_cache = I /\ q.out = O
        /\ \A x \in Name : q.ht[x] \in {a.ht[x], NULL}
    BY <1>2, <1>3 DEF Becomes, SameTable
  <1>5. p.dirs > 0 /\ p.dirs \in Nat /\ q.dirs = p.dirs /\ q \in PartState
    <2>1. IsFiniteSet(Shared(p)) /\ p.dirs = Cardinality(Shared(p)) /\ Shared(p) # {}
      BY <1>1, SharedFinite DEF Counted
    <2>2. Cardinality(Shared(p)) # 0 /\ Cardinality(Shared(p)) \in Nat
      BY <2>1, FS_EmptySet, FS_CardinalityType
    <2> QED BY <1>4, <2>1, <2>2 DEF SameLeases, Uncounted, Base
  <1>6. Dropped(q, b, l, p.dirs - 1)
    BY <1>5, DroppedIs DEF q
  <1>7. Base(b, h) /\ SameTable(q, b)
    BY <1>4, <1>6, SameTableBase DEF Dropped
  <1>8. Becomes(b, g, b.lru.in_cache, b.out, r)
    <2>1. h[l] > 0
      OBVIOUS
    <2>2. Becomes(b, Less(h, l), b.lru.in_cache, b.out, Unref(b, l))
      BY <1>1, <1>7, <2>1, UnrefOk
    <2> QED BY <2>2 DEF g
  <1>9. /\ Base(r, g) /\ r.lru.key = b.lru.key /\ r.mode = b.mode /\ r.due = b.due
        /\ r.ctx = b.ctx /\ r.refs = b.refs /\ r.dirs = b.dirs
        /\ r.lru.in_cache = b.lru.in_cache /\ r.out = b.out
        /\ \A x \in Name : r.ht[x] \in {b.ht[x], NULL}
    BY <1>8 DEF Becomes, SameLeases
  <1>10. /\ b.lru.key = p.lru.key /\ b.mode = p.mode /\ b.due = p.due /\ b.ctx = p.ctx \ {l}
         /\ b.refs = a.refs /\ b.dirs = p.dirs - 1 /\ b.lru.in_cache = I /\ b.out = O
         /\ b.ht = q.ht /\ a.ht = p.ht
    BY <1>2, <1>4, <1>6 DEF Dropped, SameTable, SameLeases, Uncounted
  <1>11. \A x \in Name : r.ht[x] \in {p.ht[x], NULL}
    BY <1>4, <1>9, <1>10
  <1>12. Gone(p, g, l, r)
    BY <1>9, <1>10, <1>11 DEF Gone, Uncounted
  <1> QED BY <1>12, GoneOk DEF g

\* The last user of a lease for a bulk insertion finds it out of the table.
LEMMA DestroyOut ==
    ASSUME NEW p, NEW h, Fine(p, h), NEW l \in Lease, l \in Shared(p), h[l] = 1,
           p.mode[l] = "bulk", l \in p.out,
           NEW a, Uncounted(p, l, a), NEW b, b = [a EXCEPT !.dirs = @ - 1],
           NEW r, r = Unref(b, l)
    PROVE  Fine(r, Less(h, l)) /\ Later(p, h, r) /\ KeepsContexts(p, r)
  <1> DEFINE g == Less(h, l)
             n == a.dirs - 1
  <1>1. h \in Users /\ Base(p, h) /\ Counted(p, h)
    BY DEF Fine
  <1>2. Base(a, h) /\ SameTable(p, a) /\ a \in PartState /\ a.dirs = p.dirs
    BY <1>1, SameTableBase DEF Uncounted
  <1>3. n \in Nat
    <2>1. IsFiniteSet(Shared(p)) /\ p.dirs = Cardinality(Shared(p)) /\ Shared(p) # {}
      BY <1>1, SharedFinite DEF Counted
    <2>2. Cardinality(Shared(p)) # 0 /\ Cardinality(Shared(p)) \in Nat
      BY <2>1, FS_EmptySet, FS_CardinalityType
    <2> QED BY <1>2, <2>1, <2>2
  <1>4. b \in PartState /\ SameTable(a, b) /\ b.refs = a.refs /\ b.ctx = a.ctx /\ b.dirs = n
    <2>1. b.dirs = n /\ b = [a EXCEPT !.dirs = n]
      BY <1>2 DEF PartState
    <2> HIDE DEF n
    <2> QED BY <1>2, <1>3, <2>1 DEF PartState, SameTable
  <1>5. Base(b, h)
    BY <1>2, <1>4, SameTableBase
  <1>6. Becomes(b, g, b.lru.in_cache, b.out, r)
    <2>1. h[l] > 0
      OBVIOUS
    <2>2. Becomes(b, Less(h, l), b.lru.in_cache, b.out, Unref(b, l))
      BY <1>1, <1>5, <2>1, UnrefOk
    <2> QED BY <2>2 DEF g
  <1> HIDE DEF g
  <1>7. p.lru.in_cache \subseteq p.lru.in_cache \ {l}
    BY <1>1, NotOut
  <1>8. Gone(p, g, l, r)
    BY <1>2, <1>4, <1>6, <1>7 DEF Gone, Becomes, SameLeases, SameTable, Uncounted
  <1> QED BY <1>8, GoneOk DEF g

LEMMA DestroyOk ==
    ASSUME NEW p, NEW h, Fine(p, h), NEW l \in Lease, h[l] > 0, NEW m \in Mode, m # "regular",
           p.mode[l] = m, NEW r,
           r = Unref(IF m = "batch" THEN DestroyBatch(p, l) ELSE DestroyBulk(p, l), l)
    PROVE  Fine(r, Less(h, l)) /\ Later(p, h, r) /\ KeepsContexts(p, r)
  <1> DEFINE a == [p EXCEPT !.refs[l] = @ - 1]
             b == [Discard(a, l) EXCEPT !.ctx = @ \ {l}, !.dirs = @ - 1]
             c == [a EXCEPT !.dirs = @ - 1]
  <1>1. h \in Users /\ Base(p, h) /\ Counted(p, h) /\ h[l] \in Nat
    BY DEF Fine, Users
  <1>2. l \in Shared(p)
    BY <1>1, BaseFacts DEF View, Shared
  <1>3. p.refs[l] = h[l]
    BY <1>1, <1>2 DEF Counted
  <1>4. Uncounted(p, l, a)
    BY <1>1, <1>3, UncountedIs DEF Base
  <1>5. /\ DestroyBatch(p, l) = IF a.refs[l] = 0 THEN b ELSE a
        /\ DestroyBulk(p, l) = IF a.refs[l] = 0 THEN IF l \in p.out THEN c ELSE b ELSE a
    BY DEF DestroyBatch, DestroyBulk
  <1> HIDE DEF a, b, c
  <1>6. a.refs[l] = h[l] - 1
    BY <1>3, <1>4 DEF Uncounted
  <1>7. CASE h[l] > 1
    <2>1. r = Unref(a, l)
      BY <1>1, <1>5, <1>6, <1>7
    <2> QED BY <1>2, <1>4, <1>7, <2>1, DestroyNotLast
  <1>8. CASE h[l] = 1 /\ (m = "batch" \/ l \notin p.out)
    <2>1. r = Unref(b, l)
      BY <1>5, <1>6, <1>8
    <2> QED BY <1>2, <1>4, <1>8, <2>1, DestroyDiscards DEF b
  <1>9. CASE h[l] = 1 /\ m # "batch" /\ l \in p.out
    <2>1. r = Unref(c, l) /\ m = "bulk"
      BY <1>5, <1>6, <1>9, LeasesAssumption
    <2> QED BY <1>2, <1>4, <1>9, <2>1, DestroyOut DEF c
  <1> QED BY <1>1, <1>7, <1>8, <1>9

LEMMA ExpireOk ==
    ASSUME NEW p, NEW h, Fine(p, h), NEW l \in Lease, p.due[l] = "later",
           NEW r, r = [p EXCEPT !.due[l] = "past"]
    PROVE  Fine(r, h) /\ Later(p, h, r) /\ KeepsContexts(p, r)
  <1>1. h \in Users /\ Base(p, h) /\ Counted(p, h) /\ Used(p, h) /\ p \in PartState
    BY DEF Fine, Base
  <1>2. /\ r \in PartState /\ r.lru = p.lru /\ r.ht = p.ht /\ r.out = p.out /\ r.mode = p.mode
        /\ r.ctx = p.ctx /\ r.refs = p.refs /\ r.dirs = p.dirs
        /\ \A k \in Lease \ {l} : r.due[k] = p.due[k]
    <2>1. p.due \in [Lease -> {"never", "later", "zero", "past"}]
      BY <1>1, PartFields
    <2> QED BY <1>1, <2>1 DEF PartState
  <1>3. Base(r, h)
    BY <1>1, <1>2 DEF Base, CacheInTable, TableAlive, AliveInTable
  <1>4. Shared(r) = Shared(p)
    BY <1>2 DEF Shared
  <1>5. Counted(r, h) /\ Used(r, h)
    BY <1>1, <1>2, <1>4 DEF Counted, Used
  <1>6. ContextOk(p) => ContextOk(r)
    BY <1>2 DEF ContextOk, Alive
  <1> QED BY <1>1, <1>2, <1>3, <1>5, <1>6 DEF Fine, Later, KeepsContexts
-----------------------------------------------------------------------------
(***************************************************************************)
(* The threads.                                                            *)
(***************************************************************************)
Having(f, l) == {t \in Thread : f[t] = l}
Count(f) == [l \in Lease |-> Cardinality(Having(f, l))]

LEMMA HavingFinite ==
    ASSUME NEW f, NEW l
    PROVE  IsFiniteSet(Having(f, l)) /\ Cardinality(Having(f, l)) \in Nat
  <1>1. Having(f, l) \subseteq Thread
    BY DEF Having
  <1> QED BY <1>1, LeasesAssumption, FS_Subset, FS_CardinalityType

LEMMA HeldCount == Held = Count(lease) /\ Held \in Users /\ Held' = Count(lease')
  <1>1. Held = Count(lease) /\ Held' = Count(lease')
    BY DEF Held, Holders, Count, Having
  <1>2. Count(lease) \in Users
    BY HavingFinite DEF Count, Users
  <1> QED BY <1>1, <1>2

LEMMA CountMore ==
    ASSUME NEW f \in [Thread -> Lease \cup {NULL}], NEW t \in Thread, f[t] = NULL,
           NEW l \in Lease
    PROVE  Count([f EXCEPT ![t] = l]) = More(Count(f), l)
  <1> DEFINE g == [f EXCEPT ![t] = l]
  <1>1. NULL \notin Lease
    BY LeasesAssumption
  <1>2. Having(g, l) = Having(f, l) \cup {t} /\ t \notin Having(f, l)
    BY <1>1 DEF Having
  <1>3. \A k \in Lease \ {l} : Having(g, k) = Having(f, k)
    BY <1>1 DEF Having
  <1>4. Cardinality(Having(g, l)) = Cardinality(Having(f, l)) + 1
    BY <1>2, HavingFinite, FS_AddElement
  <1> QED BY <1>3, <1>4 DEF Count, More

LEMMA CountLess ==
    ASSUME NEW f \in [Thread -> Lease \cup {NULL}], NEW t \in Thread,
           NEW l \in Lease, f[t] = l, NEW g, g = [f EXCEPT ![t] = NULL]
    PROVE  Count(g) = Less(Count(f), l)
  <1>1. NULL \notin Lease
    BY LeasesAssumption
  <1>2. Having(g, l) = Having(f, l) \ {t} /\ t \in Having(f, l)
    BY <1>1 DEF Having
  <1>3. \A k \in Lease \ {l} : Having(g, k) = Having(f, k)
    BY <1>1 DEF Having
  <1>4. Cardinality(Having(g, l)) = Cardinality(Having(f, l)) - 1
    BY <1>2, HavingFinite, FS_RemoveElement
  <1> QED BY <1>3, <1>4 DEF Count, Less

LEMMA CountUsed ==
    ASSUME NEW f, NEW l \in Lease
    PROVE  Count(f)[l] > 0 <=> \E t \in Thread : f[t] = l
  <1>1. IsFiniteSet(Having(f, l)) /\ Cardinality(Having(f, l)) \in Nat
    BY HavingFinite
  <1>2. Cardinality(Having(f, l)) = 0 <=> Having(f, l) = {}
    BY <1>1, FS_EmptySet
  <1>3. Having(f, l) = {} <=> ~ \E t \in Thread : f[t] = l
    BY DEF Having
  <1>4. Count(f)[l] = Cardinality(Having(f, l))
    BY DEF Count
  <1> QED BY <1>1, <1>2, <1>3, <1>4

\* What a step leaves alone of the other threads.
Others(t) ==
    \A v \in Thread \ {t} :
        pc'[v] = pc[v] /\ lease'[v] = lease[v] /\ name'[v] = name[v] /\ mode'[v] = mode[v]

LEMMA HoldersStay ==
    ASSUME ThreadsTyped, HoldersOk, NEW t \in Thread, Others(t),
           \A k \in Lease : Held[k] > 0 =>
               part'.lru.key[k] = part.lru.key[k] /\ part'.mode[k] = part.mode[k],
           pc'[t] = "held" <=> lease'[t] # NULL,
           lease'[t] # NULL => /\ part'.lru.key[lease'[t]] = name'[t]
                               /\ part'.mode[lease'[t]] = mode'[t]
    PROVE  HoldersOk'
  <1> SUFFICES ASSUME NEW v \in Thread
               PROVE  /\ pc'[v] = "held" <=> lease'[v] # NULL
                      /\ lease'[v] # NULL => /\ part'.lru.key[lease'[v]] = name'[v]
                                             /\ part'.mode[lease'[v]] = mode'[v]
    BY DEF HoldersOk
  <1>1. CASE v = t
    BY <1>1
  <1>2. CASE v # t
    <2>1. /\ pc'[v] = pc[v] /\ lease'[v] = lease[v] /\ name'[v] = name[v] /\ mode'[v] = mode[v]
      BY <1>2 DEF Others
    <2>2. /\ pc[v] = "held" <=> lease[v] # NULL
          /\ lease[v] # NULL => part.lru.key[lease[v]] = name[v] /\ part.mode[lease[v]] = mode[v]
      BY DEF HoldersOk
    <2>3. ASSUME lease[v] # NULL PROVE lease[v] \in Lease /\ Held[lease[v]] > 0
      <3>1. lease[v] \in Lease
        BY <2>3 DEF ThreadsTyped
      <3> QED BY <3>1, CountUsed, HeldCount
    <2> QED BY <2>1, <2>2, <2>3
  <1> QED BY <1>1, <1>2

\* Nobody goes to the server or comes back.
LEMMA ServerStays ==
    ASSUME ThreadsTyped, ServerOk, NEW t \in Thread, Others(t), busy' = busy,
           pc[t] # "server", pc'[t] # "server",
           \A x \in Name : part.ht[x] = NULL => part'.ht[x] = NULL
    PROVE  ServerOk'
  <1>1. \A v \in Thread : /\ pc'[v] = "server" <=> pc[v] = "server"
                          /\ pc[v] = "server" => name'[v] = name[v]
    BY DEF Others
  <1>2. /\ \A v \in Thread : pc[v] = "server" => Way[name[v]] \in busy /\ part.ht[name[v]] = NULL
        /\ \A w, v \in Thread :
              pc[w] = "server" /\ pc[v] = "server" /\ Way[name[w]] = Way[name[v]] => w = v
        /\ \A w \in busy : \E v \in Thread : pc[v] = "server" /\ Way[name[v]] = w
        /\ \A v \in Thread : name[v] \in Name
    BY DEF ServerOk, ThreadsTyped
  <1>3. \A v \in Thread : pc'[v] = "server" => Way[name'[v]] \in busy' /\ part'.ht[name'[v]] = NULL
    BY <1>1, <1>2
  <1>4. \A w, v \in Thread :
           pc'[w] = "server" /\ pc'[v] = "server" /\ Way[name'[w]] = Way[name'[v]] => w = v
    BY <1>1, <1>2
  <1>5. \A w \in busy' : \E v \in Thread : pc'[v] = "server" /\ Way[name'[v]] = w
    BY <1>1, <1>2
  <1> QED BY <1>3, <1>4, <1>5 DEF ServerOk

LEMMA ServerEnter ==
    ASSUME ThreadsTyped, ServerOk, NEW t \in Thread, Others(t), NEW x \in Name,
           Way[x] \notin busy, busy' = busy \cup {Way[x]},
           pc[t] # "server", pc'[t] = "server", name'[t] = x, part'.ht[x] = NULL,
           \A y \in Name : part.ht[y] = NULL => part'.ht[y] = NULL
    PROVE  ServerOk'
  <1>1. \A v \in Thread \ {t} : pc'[v] = pc[v] /\ name'[v] = name[v]
    BY DEF Others
  <1>2. /\ \A v \in Thread : pc[v] = "server" => Way[name[v]] \in busy /\ part.ht[name[v]] = NULL
        /\ \A w, v \in Thread :
              pc[w] = "server" /\ pc[v] = "server" /\ Way[name[w]] = Way[name[v]] => w = v
        /\ \A w \in busy : \E v \in Thread : pc[v] = "server" /\ Way[name[v]] = w
        /\ \A v \in Thread : name[v] \in Name
    BY DEF ServerOk, ThreadsTyped
  <1>3. \A v \in Thread : pc'[v] = "server" => Way[name'[v]] \in busy' /\ part'.ht[name'[v]] = NULL
    BY <1>1, <1>2
  <1>4. \A w, v \in Thread :
           pc'[w] = "server" /\ pc'[v] = "server" /\ Way[name'[w]] = Way[name'[v]] => w = v
    BY <1>1, <1>2
  <1>5. \A w \in busy' : \E v \in Thread : pc'[v] = "server" /\ Way[name'[v]] = w
    BY <1>1, <1>2
  <1> QED BY <1>3, <1>4, <1>5 DEF ServerOk

LEMMA ServerLeave ==
    ASSUME ThreadsTyped, ServerOk, NEW t \in Thread, Others(t),
           busy' = busy \ {Way[name[t]]}, pc[t] = "server", pc'[t] # "server",
           \A y \in Name \ {name[t]} : part.ht[y] = NULL => part'.ht[y] = NULL
    PROVE  ServerOk'
  <1>1. \A v \in Thread \ {t} : pc'[v] = pc[v] /\ name'[v] = name[v]
    BY DEF Others
  <1>2. /\ \A v \in Thread : pc[v] = "server" => Way[name[v]] \in busy /\ part.ht[name[v]] = NULL
        /\ \A w, v \in Thread :
              pc[w] = "server" /\ pc[v] = "server" /\ Way[name[w]] = Way[name[v]] => w = v
        /\ \A w \in busy : \E v \in Thread : pc[v] = "server" /\ Way[name[v]] = w
        /\ \A v \in Thread : name[v] \in Name
    BY DEF ServerOk, ThreadsTyped
  <1>3. \A v \in Thread : pc'[v] = "server" => Way[name'[v]] \in busy' /\ part'.ht[name'[v]] = NULL
    <2> SUFFICES ASSUME NEW v \in Thread, pc'[v] = "server"
                 PROVE  Way[name'[v]] \in busy' /\ part'.ht[name'[v]] = NULL
      OBVIOUS
    <2>1. v # t /\ pc[v] = "server" /\ name'[v] = name[v] /\ Way[name[v]] # Way[name[t]]
      BY <1>1, <1>2
    <2> QED BY <1>2, <2>1
  <1>4. \A w, v \in Thread :
           pc'[w] = "server" /\ pc'[v] = "server" /\ Way[name'[w]] = Way[name'[v]] => w = v
    BY <1>1, <1>2
  <1>5. \A w \in busy' : \E v \in Thread : pc'[v] = "server" /\ Way[name'[v]] = w
    BY <1>1, <1>2
  <1> QED BY <1>3, <1>4, <1>5 DEF ServerOk
-----------------------------------------------------------------------------
(***************************************************************************)
(* The actions.                                                            *)
(***************************************************************************)
LEMMA InvFacts ==
    ASSUME LeaseInv
    PROVE  /\ ThreadsTyped /\ Fine(part, Held) /\ Held \in Users /\ HoldersOk /\ ServerOk
           /\ BulkNever => ContextOk(part)
           /\ pc \in [Thread -> {"idle", "wait", "server", "held"}]
           /\ name \in [Thread -> Name] /\ mode \in [Thread -> Mode]
           /\ lease \in [Thread -> Lease \cup {NULL}] /\ lookups \in 0 .. MaxLookups
           /\ busy \subseteq {Way[x] : x \in Name}
  BY HeldCount DEF LeaseInv, ThreadsTyped

LEMMA HeldMore ==
    ASSUME NEW t \in Thread, NEW l \in Lease, lease \in [Thread -> Lease \cup {NULL}],
           lease[t] = NULL, lease' = [lease EXCEPT ![t] = l]
    PROVE  Held' = More(Held, l)
  <1>1. Count([lease EXCEPT ![t] = l]) = More(Count(lease), l)
    BY CountMore
  <1> QED BY <1>1, HeldCount

\* What an answer leaves.
Answered(t, p) ==
    /\ Fine(part', Held') /\ HoldersOk' /\ Others(t) /\ (BulkNever => ContextOk(part'))
    /\ pc' \in [Thread -> {"idle", "wait", "server", "held"}]
    /\ lease' \in [Thread -> Lease \cup {NULL}]
    /\ pc'[t] # "server"
    /\ \A y \in Name : p.ht[y] = NULL => part'.ht[y] = NULL

LEMMA AnswerOk ==
    ASSUME LeaseInv, NEW t \in Thread, lease[t] = NULL, NEW p, NEW l \in Lease, NEW m \in Mode,
           \A v \in Thread \ {t} : name'[v] = name[v] /\ mode'[v] = mode[v],
           p.lru.key[l] = name'[t], m = mode'[t],
           Pending(p, Held, l), Used(p, Held) \/ p.mode[l] = m,
           \A k \in Lease : Held[k] > 0 =>
               p.lru.key[k] = part.lru.key[k] /\ p.mode[k] = part.mode[k],
           KeepsContexts(part, p),
           Answer(t, p, l, m)
    PROVE  Answered(t, p)
  <1>1. /\ ThreadsTyped /\ Held \in Users /\ HoldersOk /\ (BulkNever => ContextOk(part))
        /\ pc \in [Thread -> {"idle", "wait", "server", "held"}]
        /\ lease \in [Thread -> Lease \cup {NULL}]
    BY InvFacts
  <1>2. NULL \notin Lease
    BY LeasesAssumption
  <1>3. BulkNever => ContextOk(p)
    BY <1>1 DEF KeepsContexts
  <1>4. CASE p.mode[l] # m
    <2>1. part' = Unref(p, l) /\ pc' = [pc EXCEPT ![t] = "idle"] /\ lease' = lease
      BY <1>4 DEF Answer
    <2>2. Fine(part', Held) /\ Later(p, Held, part') /\ KeepsContexts(p, part')
      BY <1>1, <1>4, <2>1, ReturnOk
    <2>3. Held' = Held
      BY <2>1, HeldCount
    <2>4. Others(t) /\ pc'[t] = "idle" /\ lease'[t] = NULL
      BY <1>1, <2>1 DEF Others
    <2>5. \A k \in Lease : Held[k] > 0 =>
             part'.lru.key[k] = part.lru.key[k] /\ part'.mode[k] = part.mode[k]
      BY <2>2 DEF Later
    <2>6. HoldersOk'
      BY <1>1, <2>4, <2>5, HoldersStay
    <2>7. \A y \in Name : p.ht[y] = NULL => part'.ht[y] = NULL
      BY <2>2 DEF Later
    <2>8. BulkNever => ContextOk(part')
      BY <1>3, <2>2 DEF KeepsContexts
    <2>9. pc' \in [Thread -> {"idle", "wait", "server", "held"}]
      BY <1>1, <2>1
    <2> QED BY <1>1, <2>1, <2>2, <2>3, <2>4, <2>6, <2>7, <2>8, <2>9 DEF Answered
  <1>5. CASE p.mode[l] = m
    <2>1. /\ part' = Grant(p, l, m) /\ pc' = [pc EXCEPT ![t] = "held"]
          /\ lease' = [lease EXCEPT ![t] = l]
      BY <1>5 DEF Answer
    <2>2. Fine(part', More(Held, l)) /\ Later(p, Held, part') /\ KeepsContexts(p, part')
      BY <1>1, <1>5, <2>1, GrantOk
    <2>3. Held' = More(Held, l)
      BY <1>1, <2>1, HeldMore
    <2>4. Others(t) /\ pc'[t] = "held" /\ lease'[t] = l
      BY <1>1, <2>1 DEF Others
    <2>5. \A k \in Lease : Held[k] > 0 =>
             part'.lru.key[k] = part.lru.key[k] /\ part'.mode[k] = part.mode[k]
      BY <2>2 DEF Later
    <2>6. part'.lru.key[l] = name'[t] /\ part'.mode[l] = mode'[t]
      <3>1. p \in PartState
        BY DEF Pending, Base
      <3>2. part'.lru = p.lru /\ part'.mode = p.mode
        BY <2>1, <3>1 DEF Grant, PartState
      <3> QED BY <1>5, <3>2
    <2>7. HoldersOk'
      BY <1>1, <1>2, <2>4, <2>5, <2>6, HoldersStay
    <2>8. \A y \in Name : p.ht[y] = NULL => part'.ht[y] = NULL
      BY <2>2 DEF Later
    <2>9. BulkNever => ContextOk(part')
      BY <1>3, <2>2 DEF KeepsContexts
    <2>10. /\ pc' \in [Thread -> {"idle", "wait", "server", "held"}]
           /\ lease' \in [Thread -> Lease \cup {NULL}]
      BY <1>1, <2>1
    <2> QED BY <2>2, <2>3, <2>4, <2>7, <2>8, <2>9, <2>10 DEF Answered
  <1> QED BY <1>4, <1>5

\* A search that finds a lease for x, and the answer.
LEMMA FoundStep ==
    ASSUME LeaseInv, NEW t \in Thread, lease[t] = NULL, pc[t] # "server",
           NEW x \in Name, NEW m \in Mode, name'[t] = x, mode'[t] = m,
           \A v \in Thread \ {t} : name'[v] = name[v] /\ mode'[v] = mode[v],
           NEW s, s = Search(part, x), s.lease # NULL, Answer(t, s.part, s.lease, m),
           busy' = busy
    PROVE  /\ Fine(part', Held') /\ HoldersOk' /\ ServerOk' /\ (BulkNever => ContextOk(part'))
           /\ pc' \in [Thread -> {"idle", "wait", "server", "held"}]
           /\ lease' \in [Thread -> Lease \cup {NULL}]
  <1>1. ThreadsTyped /\ Fine(part, Held) /\ ServerOk
    BY InvFacts
  <1>2. /\ s.lease \in Lease /\ s.part.lru.key[s.lease] = x
        /\ Pending(s.part, Held, s.lease) /\ Used(s.part, Held)
        /\ Later(part, Held, s.part) /\ KeepsContexts(part, s.part)
    BY <1>1, SearchOk
  <1>3. /\ \A k \in Lease : Held[k] > 0 =>
              s.part.lru.key[k] = part.lru.key[k] /\ s.part.mode[k] = part.mode[k]
        /\ \A y \in Name : part.ht[y] = NULL => s.part.ht[y] = NULL
    BY <1>2 DEF Later
  <1>4. Answered(t, s.part)
    BY <1>2, <1>3, AnswerOk
  <1>5. Others(t) /\ pc'[t] # "server" /\ \A y \in Name : part.ht[y] = NULL => part'.ht[y] = NULL
    BY <1>3, <1>4 DEF Answered
  <1>6. ServerOk'
    BY <1>1, <1>5, ServerStays
  <1> QED BY <1>4, <1>6 DEF Answered

\* A search that finds none, and what the thread does then.
LEMMA NoneStep ==
    ASSUME LeaseInv, NEW t \in Thread, lease[t] = NULL, pc[t] # "server",
           NEW x \in Name, name'[t] = x,
           \A v \in Thread \ {t} : name'[v] = name[v] /\ mode'[v] = mode[v],
           NEW s, s = Search(part, x), s.lease = NULL, part' = s.part, lease' = lease,
           \/ pc' = [pc EXCEPT ![t] = "wait"] /\ busy' = busy
           \/ /\ pc' = [pc EXCEPT ![t] = "server"] /\ busy' = busy \cup {Way[x]}
              /\ Way[x] \notin busy
    PROVE  /\ Fine(part', Held') /\ HoldersOk' /\ ServerOk' /\ (BulkNever => ContextOk(part'))
           /\ pc' \in [Thread -> {"idle", "wait", "server", "held"}]
  <1>1. /\ ThreadsTyped /\ Fine(part, Held) /\ HoldersOk /\ ServerOk
        /\ (BulkNever => ContextOk(part))
        /\ pc \in [Thread -> {"idle", "wait", "server", "held"}]
        /\ lease \in [Thread -> Lease \cup {NULL}]
    BY InvFacts
  <1>2. /\ part'.ht[x] = NULL /\ Fine(part', Held)
        /\ Later(part, Held, part') /\ KeepsContexts(part, part')
    BY <1>1, SearchOk
  <1>3. Held' = Held
    BY HeldCount
  <1>4. /\ pc' \in [Thread -> {"idle", "wait", "server", "held"}] /\ Others(t)
        /\ pc'[t] # "held" /\ lease'[t] = NULL
    BY <1>1 DEF Others
  <1>5. /\ \A k \in Lease : Held[k] > 0 =>
              part'.lru.key[k] = part.lru.key[k] /\ part'.mode[k] = part.mode[k]
        /\ \A y \in Name : part.ht[y] = NULL => part'.ht[y] = NULL
    BY <1>2 DEF Later
  <1>6. HoldersOk'
    BY <1>1, <1>4, <1>5, HoldersStay
  <1>7. CASE pc' = [pc EXCEPT ![t] = "wait"] /\ busy' = busy
    <2>1. pc'[t] = "wait"
      BY <1>1, <1>7
    <2>2. ServerOk'
      BY <1>1, <1>4, <1>5, <1>7, <2>1, ServerStays
    <2> QED BY <1>1, <1>2, <1>3, <1>4, <1>6, <2>2 DEF KeepsContexts
  <1>8. CASE /\ pc' = [pc EXCEPT ![t] = "server"] /\ busy' = busy \cup {Way[x]}
             /\ Way[x] \notin busy
    <2>1. pc'[t] = "server"
      BY <1>1, <1>8
    <2>2. ServerOk'
      BY <1>1, <1>2, <1>4, <1>5, <1>8, <2>1, ServerEnter
    <2> QED BY <1>1, <1>2, <1>3, <1>4, <1>6, <2>2 DEF KeepsContexts
  <1> QED BY <1>7, <1>8

LEMMA LokupStep ==
    ASSUME LeaseInv, NEW t \in Thread, NEW x \in Name, NEW m \in Mode, Lokup(t, x, m)
    PROVE  LeaseInv'
  <1> DEFINE s == Search(part, x)
  <1>1. /\ name \in [Thread -> Name] /\ mode \in [Thread -> Mode] /\ lookups \in 0 .. MaxLookups
        /\ busy \subseteq {Way[y] : y \in Name} /\ lease \in [Thread -> Lease \cup {NULL}]
        /\ HoldersOk
    BY InvFacts
  <1>2. /\ pc[t] = "idle" /\ lookups < MaxLookups /\ lookups' = lookups + 1
        /\ name' = [name EXCEPT ![t] = x] /\ mode' = [mode EXCEPT ![t] = m]
    BY DEF Lokup
  <1>3. lease[t] = NULL
    BY <1>1, <1>2 DEF HoldersOk
  <1>4. /\ name' \in [Thread -> Name] /\ mode' \in [Thread -> Mode]
        /\ lookups' \in 0 .. MaxLookups
        /\ name'[t] = x /\ mode'[t] = m
        /\ \A v \in Thread \ {t} : name'[v] = name[v] /\ mode'[v] = mode[v]
    BY <1>1, <1>2, LeasesAssumption
  <1>5. \/ s.lease # NULL /\ Answer(t, s.part, s.lease, m) /\ busy' = busy
        \/ /\ s.lease = NULL /\ part' = s.part /\ lease' = lease
           /\ IF Way[x] \in busy
              THEN pc' = [pc EXCEPT ![t] = "wait"] /\ busy' = busy
              ELSE pc' = [pc EXCEPT ![t] = "server"] /\ busy' = busy \cup {Way[x]}
    BY DEF Lokup
  <1> HIDE DEF s
  <1>6. busy' \subseteq {Way[y] : y \in Name}
    BY <1>1, <1>5
  <1>7. /\ Fine(part', Held') /\ HoldersOk' /\ ServerOk' /\ (BulkNever => ContextOk(part'))
        /\ pc' \in [Thread -> {"idle", "wait", "server", "held"}]
        /\ lease' \in [Thread -> Lease \cup {NULL}]
    <2>1. CASE s.lease # NULL /\ Answer(t, s.part, s.lease, m) /\ busy' = busy
      BY <1>2, <1>3, <1>4, <2>1, FoundStep DEF s
    <2>2. CASE /\ s.lease = NULL /\ part' = s.part /\ lease' = lease
               /\ IF Way[x] \in busy
                  THEN pc' = [pc EXCEPT ![t] = "wait"] /\ busy' = busy
                  ELSE pc' = [pc EXCEPT ![t] = "server"] /\ busy' = busy \cup {Way[x]}
      BY <1>1, <1>2, <1>3, <1>4, <2>2, NoneStep DEF s
    <2> QED BY <1>5, <2>1, <2>2
  <1> QED BY <1>4, <1>6, <1>7 DEF LeaseInv, ThreadsTyped

LEMMA WakeupStep ==
    ASSUME LeaseInv, NEW t \in Thread, Wakeup(t)
    PROVE  LeaseInv'
  <1> DEFINE s == Search(part, name[t])
  <1>1. /\ name \in [Thread -> Name] /\ mode \in [Thread -> Mode] /\ lookups \in 0 .. MaxLookups
        /\ busy \subseteq {Way[y] : y \in Name} /\ lease \in [Thread -> Lease \cup {NULL}]
        /\ HoldersOk
    BY InvFacts
  <1>2. /\ pc[t] = "wait" /\ Way[name[t]] \notin busy
        /\ name' = name /\ mode' = mode /\ lookups' = lookups
    BY DEF Wakeup
  <1>3. lease[t] = NULL
    BY <1>1, <1>2 DEF HoldersOk
  <1>4. /\ name'[t] = name[t] /\ mode'[t] = mode[t] /\ name[t] \in Name /\ mode[t] \in Mode
        /\ \A v \in Thread \ {t} : name'[v] = name[v] /\ mode'[v] = mode[v]
    BY <1>1, <1>2
  <1>5. \/ s.lease # NULL /\ Answer(t, s.part, s.lease, mode[t]) /\ busy' = busy
        \/ /\ s.lease = NULL /\ part' = s.part /\ lease' = lease
           /\ pc' = [pc EXCEPT ![t] = "server"] /\ busy' = busy \cup {Way[name[t]]}
    BY DEF Wakeup
  <1> HIDE DEF s
  <1>6. busy' \subseteq {Way[y] : y \in Name}
    BY <1>1, <1>4, <1>5
  <1>7. /\ Fine(part', Held') /\ HoldersOk' /\ ServerOk' /\ (BulkNever => ContextOk(part'))
        /\ pc' \in [Thread -> {"idle", "wait", "server", "held"}]
        /\ lease' \in [Thread -> Lease \cup {NULL}]
    <2>1. CASE s.lease # NULL /\ Answer(t, s.part, s.lease, mode[t]) /\ busy' = busy
      BY <1>2, <1>3, <1>4, <2>1, FoundStep DEF s
    <2>2. CASE /\ s.lease = NULL /\ part' = s.part /\ lease' = lease
               /\ pc' = [pc EXCEPT ![t] = "server"] /\ busy' = busy \cup {Way[name[t]]}
      BY <1>1, <1>2, <1>3, <1>4, <2>2, NoneStep DEF s
    <2> QED BY <1>5, <2>1, <2>2
  <1> QED BY <1>1, <1>2, <1>6, <1>7 DEF LeaseInv, ThreadsTyped

LEMMA LookedUpStep ==
    ASSUME LeaseInv, NEW t \in Thread, LookedUp(t)
    PROVE  LeaseInv'
  <1>1. /\ name \in [Thread -> Name] /\ mode \in [Thread -> Mode] /\ lookups \in 0 .. MaxLookups
        /\ busy \subseteq {Way[y] : y \in Name} /\ lease \in [Thread -> Lease \cup {NULL}]
        /\ HoldersOk /\ ServerOk /\ ThreadsTyped /\ Fine(part, Held)
    BY InvFacts
  <1>2. PICK d \in Due[mode[t]], l \in Lease \ Live :
            Answer(t, NewLease(part, l, name[t], mode[t], d), l, mode[t])
    BY DEF LookedUp
  <1>3. /\ pc[t] = "server" /\ busy' = busy \ {Way[name[t]]}
        /\ name' = name /\ mode' = mode /\ lookups' = lookups
    BY DEF LookedUp
  <1> DEFINE p == NewLease(part, l, name[t], mode[t], d)
  <1>4. lease[t] = NULL /\ part.ht[name[t]] = NULL /\ l \in Lease /\ l \notin Alive(part.lru)
        /\ name[t] \in Name /\ mode[t] \in Mode
    BY <1>1, <1>2, <1>3 DEF HoldersOk, ServerOk, Alive, Live
  <1>5. New(part, Held, l, name[t], mode[t], d, p) /\ KeepsContexts(part, p)
    BY <1>1, <1>4, NewOk
  <1>6. Answer(t, p, l, mode[t])
    BY <1>2
  <1> HIDE DEF p
  <1>7. /\ Pending(p, Held, l) /\ p.lru.key[l] = name[t] /\ p.mode[l] = mode[t]
        /\ \A k \in Lease : Held[k] > 0 =>
              p.lru.key[k] = part.lru.key[k] /\ p.mode[k] = part.mode[k]
        /\ \A y \in Name \ {name[t]} : part.ht[y] = NULL => p.ht[y] = NULL
    BY <1>5 DEF New
  <1>8. Answered(t, p)
    BY <1>3, <1>4, <1>5, <1>6, <1>7, AnswerOk
  <1>9. ServerOk'
    BY <1>1, <1>3, <1>7, <1>8, ServerLeave DEF Answered
  <1>10. busy' \subseteq {Way[y] : y \in Name}
    BY <1>1, <1>3
  <1> QED BY <1>1, <1>3, <1>8, <1>9, <1>10 DEF LeaseInv, ThreadsTyped, Answered

LEMMA LookupFailedStep ==
    ASSUME LeaseInv, NEW t \in Thread, LookupFailed(t)
    PROVE  LeaseInv'
  <1>1. LeaseInv /\ ThreadsTyped /\ Fine(part, Held) /\ HoldersOk /\ ServerOk
        /\ (BulkNever => ContextOk(part))
        /\ pc \in [Thread -> {"idle", "wait", "server", "held"}]
    BY InvFacts
  <1>2. /\ pc[t] = "server" /\ busy' = busy \ {Way[name[t]]} /\ pc' = [pc EXCEPT ![t] = "idle"]
        /\ part' = part /\ name' = name /\ mode' = mode /\ lease' = lease /\ lookups' = lookups
    BY DEF LookupFailed
  <1>3. Held' = Held
    BY <1>2, HeldCount
  <1>4. Others(t) /\ pc'[t] = "idle" /\ lease[t] = NULL
    BY <1>1, <1>2 DEF Others, HoldersOk
  <1>5. HoldersOk'
    BY <1>1, <1>2, <1>4, HoldersStay
  <1>6. ServerOk'
    BY <1>1, <1>2, <1>4, ServerLeave
  <1>7. ThreadsTyped'
    BY <1>1, <1>2 DEF ThreadsTyped
  <1> QED BY <1>1, <1>2, <1>3, <1>5, <1>6, <1>7 DEF LeaseInv

\* A thread gives its lease back.
LEMMA LeaveStep ==
    ASSUME LeaseInv, NEW t \in Thread, pc[t] = "held",
           pc' = [pc EXCEPT ![t] = "idle"], lease' = [lease EXCEPT ![t] = NULL],
           UNCHANGED <<busy, name, mode, lookups>>,
           Fine(part', Less(Held, lease[t])), Later(part, Held, part'),
           KeepsContexts(part, part')
    PROVE  LeaseInv'
  <1>1. /\ ThreadsTyped /\ HoldersOk /\ ServerOk /\ (BulkNever => ContextOk(part))
        /\ pc \in [Thread -> {"idle", "wait", "server", "held"}]
        /\ lease \in [Thread -> Lease \cup {NULL}]
    BY InvFacts
  <1>2. lease[t] \in Lease
    BY <1>1 DEF HoldersOk
  <1>3. Held' = Less(Held, lease[t])
    <2>1. Count(lease') = Less(Count(lease), lease[t])
      BY <1>1, <1>2, CountLess
    <2> QED BY <2>1, HeldCount
  <1>4. Others(t) /\ pc'[t] = "idle" /\ lease'[t] = NULL
    BY <1>1 DEF Others
  <1>5. /\ \A k \in Lease : Held[k] > 0 =>
              part'.lru.key[k] = part.lru.key[k] /\ part'.mode[k] = part.mode[k]
        /\ \A y \in Name : part.ht[y] = NULL => part'.ht[y] = NULL
    BY DEF Later
  <1>6. HoldersOk'
    BY <1>1, <1>4, <1>5, HoldersStay
  <1>7. ServerOk'
    BY <1>1, <1>4, <1>5, ServerStays
  <1>8. ThreadsTyped'
    BY <1>1 DEF ThreadsTyped
  <1> QED BY <1>1, <1>3, <1>6, <1>7, <1>8 DEF LeaseInv, KeepsContexts

LEMMA LeaveSteps ==
    ASSUME LeaseInv, NEW t \in Thread, ReleaseLease(t) \/ DestroyContext(t)
    PROVE  LeaseInv'
  <1> DEFINE l == lease[t]
  <1>1. /\ Fine(part, Held) /\ HoldersOk /\ mode \in [Thread -> Mode]
        /\ lease \in [Thread -> Lease \cup {NULL}] /\ pc[t] = "held"
    BY InvFacts DEF ReleaseLease, DestroyContext
  <1>2. l \in Lease /\ part.mode[l] = mode[t] /\ mode[t] \in Mode
    BY <1>1 DEF HoldersOk
  <1>3. Held[l] > 0
    BY <1>2, CountUsed, HeldCount
  <1>4. Fine(part', Less(Held, l)) /\ Later(part, Held, part') /\ KeepsContexts(part, part')
    <2>1. CASE ReleaseLease(t)
      <3>1. mode[t] = "regular" /\ part' = Unref(part, l)
        BY <2>1 DEF ReleaseLease
      <3> HIDE DEF l
      <3> QED BY <1>1, <1>2, <1>3, <3>1, LeaveOk
    <2>2. CASE DestroyContext(t)
      <3>1. /\ mode[t] # "regular"
            /\ part' = Unref(IF mode[t] = "batch" THEN DestroyBatch(part, l)
                             ELSE DestroyBulk(part, l), l)
        BY <2>2 DEF DestroyContext
      <3> HIDE DEF l
      <3> QED BY <1>1, <1>2, <1>3, <3>1, DestroyOk
    <2> QED BY <2>1, <2>2
  <1>5. /\ pc' = [pc EXCEPT ![t] = "idle"] /\ lease' = [lease EXCEPT ![t] = NULL]
        /\ UNCHANGED <<busy, name, mode, lookups>>
    BY DEF ReleaseLease, DestroyContext
  <1> QED BY <1>1, <1>4, <1>5, LeaveStep

LEMMA ExpireStep ==
    ASSUME LeaseInv, NEW l \in Lease, Expire(l)
    PROVE  LeaseInv'
  <1>1. /\ ThreadsTyped /\ Fine(part, Held) /\ HoldersOk /\ ServerOk
        /\ (BulkNever => ContextOk(part))
    BY InvFacts
  <1>2. /\ part.due[l] = "later" /\ part' = [part EXCEPT !.due[l] = "past"]
        /\ busy' = busy /\ pc' = pc /\ name' = name /\ mode' = mode /\ lease' = lease
        /\ lookups' = lookups
    BY DEF Expire
  <1>3. Fine(part', Held) /\ Later(part, Held, part') /\ KeepsContexts(part, part')
    BY <1>1, <1>2, ExpireOk
  <1>4. Held' = Held
    BY <1>2, HeldCount
  <1>5. part \in PartState
    BY <1>1 DEF Fine, Base
  <1>6. part'.lru = part.lru /\ part'.mode = part.mode /\ part'.ht = part.ht
    BY <1>2, <1>5 DEF PartState
  <1>7. HoldersOk' /\ ServerOk' /\ ThreadsTyped'
    BY <1>1, <1>2, <1>6 DEF HoldersOk, ServerOk, ThreadsTyped
  <1> QED BY <1>1, <1>3, <1>4, <1>7 DEF LeaseInv, KeepsContexts

LEMMA LeaseStep == LeaseInv /\ [Next]_vars => LeaseInv'
  <1> SUFFICES ASSUME LeaseInv, [Next]_vars PROVE LeaseInv'
    OBVIOUS
  <1>1. ASSUME NEW t \in Thread, NEW x \in Name, NEW m \in Mode, Lokup(t, x, m) PROVE LeaseInv'
    BY <1>1, LokupStep
  <1>2. ASSUME NEW t \in Thread, Wakeup(t) PROVE LeaseInv'
    BY <1>2, WakeupStep
  <1>3. ASSUME NEW t \in Thread, LookedUp(t) PROVE LeaseInv'
    BY <1>3, LookedUpStep
  <1>4. ASSUME NEW t \in Thread, LookupFailed(t) PROVE LeaseInv'
    BY <1>4, LookupFailedStep
  <1>5. ASSUME NEW t \in Thread, ReleaseLease(t) \/ DestroyContext(t) PROVE LeaseInv'
    BY <1>5, LeaveSteps
  <1>6. ASSUME NEW l \in Lease, Expire(l) PROVE LeaseInv'
    BY <1>6, ExpireStep
  <1>7. CASE UNCHANGED vars
    <2>1. /\ part' = part /\ busy' = busy /\ pc' = pc /\ name' = name /\ mode' = mode
          /\ lease' = lease /\ lookups' = lookups
      BY <1>7 DEF vars
    <2>2. Held' = Held
      BY <2>1, HeldCount
    <2> QED BY <2>1, <2>2 DEF LeaseInv, ThreadsTyped, HoldersOk, ServerOk
  <1> QED BY <1>1, <1>2, <1>3, <1>4, <1>5, <1>6, <1>7 DEF Next

LEMMA FirstCache ==
    ASSUME Init PROVE CacheOk(part.lru, [l \in Lease |-> 0])
  <1>1. L!Init
    BY DEF Init, L!Init
  <1>2. L!InvOf(part.lru, [l \in Lease |-> 0], TRUE)
    BY <1>1, L!InitOk, CacheAssumption DEF L!CacheInv
  <1>3. L!Good(part.lru, [l \in Lease |-> 0]) /\ part.lru.usage <= lease_lru_size
    BY <1>2, L!OpenGood, CacheAssumption
  <1> QED BY <1>3 DEF CacheOk

LEMMA LeaseInit == Init => LeaseInv
  <1> SUFFICES ASSUME Init PROVE LeaseInv
    OBVIOUS
  <1> DEFINE z == [l \in Lease |-> 0]
             a == CHOOSE x \in Name : TRUE
             b == CHOOSE m \in Mode : TRUE
  <1>1. a \in Name /\ b \in Mode /\ NULL \notin Lease
    BY LeasesAssumption
  <1>2. /\ part.ht = [x \in Name |-> NULL] /\ part.mode = [l \in Lease |-> b]
        /\ part.due = [l \in Lease |-> "past"] /\ part.out = {} /\ part.ctx = {}
        /\ part.refs = z /\ part.dirs = 0 /\ part.lru.refs = z
        /\ part.lru.table = [x \in Name |-> NULL]
        /\ busy = {} /\ pc = [t \in Thread |-> "idle"] /\ name = [t \in Thread |-> a]
        /\ mode = [t \in Thread |-> b] /\ lease = [t \in Thread |-> NULL] /\ lookups = 0
    BY DEF Init
  <1> HIDE DEF a, b
  <1>3. CacheOk(part.lru, z) /\ z \in Users
    BY FirstCache DEF Users
  <1>4. View(part.lru, z)
    BY <1>3, CacheView
  <1>5. part = [lru |-> part.lru, ht |-> part.ht, mode |-> part.mode, due |-> part.due,
                out |-> part.out, ctx |-> part.ctx, refs |-> part.refs, dirs |-> part.dirs]
    BY DEF Init
  <1>6. part \in PartState
    <2>1. part.lru \in L!IntState
      BY <1>4 DEF View
    <2> QED BY <1>1, <1>2, <1>5, <2>1 DEF PartState
  <1>7. Alive(part.lru) = {}
    BY <1>2 DEF Alive
  <1>8. Base(part, z)
    BY <1>2, <1>3, <1>6, <1>7 DEF Base, CacheInTable, TableAlive, AliveInTable
  <1>9. Shared(part) = {}
    BY <1>7 DEF Shared
  <1>10. Counted(part, z) /\ Used(part, z)
    BY <1>2, <1>7, <1>9, FS_EmptySet DEF Counted, Used
  <1>11. Held = z
    <2>1. \A l \in Lease : Having(lease, l) = {}
      BY <1>1, <1>2 DEF Having
    <2>2. \A l \in Lease : Cardinality(Having(lease, l)) = 0
      BY <2>1, FS_EmptySet
    <2> QED BY <2>2, HeldCount DEF Count
  <1>12. Fine(part, Held)
    BY <1>3, <1>8, <1>10, <1>11 DEF Fine
  <1>13. ThreadsTyped /\ HoldersOk /\ ServerOk
    BY <1>1, <1>2, LeasesAssumption DEF ThreadsTyped, HoldersOk, ServerOk
  <1>14. ContextOk(part)
    BY <1>2, <1>7 DEF ContextOk
  <1> QED BY <1>12, <1>13, <1>14 DEF LeaseInv
-----------------------------------------------------------------------------
\* The invariant, from which the properties follow.
THEOREM LeaseInvariant == Spec => []LeaseInv
  BY LeaseInit, LeaseStep, PTL DEF Spec

LEMMA InvTable ==
    ASSUME LeaseInv
    PROVE  /\ part \in PartState /\ View(part.lru, Held) /\ Live = Alive(part.lru)
           /\ CacheInTable(part) /\ TableAlive(part) /\ AliveInTable(part)
           /\ Counted(part, Held) /\ Used(part, Held) /\ HoldersOk /\ ThreadsTyped
           /\ NULL \notin Lease
  <1>1. /\ Held \in Users /\ Base(part, Held) /\ Counted(part, Held) /\ Used(part, Held)
        /\ HoldersOk /\ ThreadsTyped
    BY DEF LeaseInv, Fine
  <1>2. Live = Alive(part.lru)
    BY DEF Live, Alive
  <1> QED BY <1>1, <1>2, BaseFacts

LEMMA InvHolders ==
    ASSUME LeaseInv, NEW l \in Lease
    PROVE  /\ Holders(l) \subseteq Thread /\ IsFiniteSet(Holders(l))
           /\ Held[l] = Cardinality(Holders(l)) /\ Held[l] \in Nat
           /\ Held[l] > 0 <=> Holders(l) # {}
           /\ \A t \in Holders(l) : mode[t] = part.mode[l]
  <1>1. Holders(l) \subseteq Thread
    BY DEF Holders
  <1>2. IsFiniteSet(Holders(l))
    BY <1>1, LeasesAssumption, FS_Subset
  <1>3. Held[l] = Cardinality(Holders(l)) /\ Held[l] \in Nat
    BY <1>2, FS_CardinalityType DEF Held
  <1>4. Held[l] > 0 <=> Holders(l) # {}
    BY <1>2, <1>3, FS_EmptySet
  <1>5. \A t \in Holders(l) : mode[t] = part.mode[l]
    BY InvTable DEF HoldersOk, Holders
  <1> QED BY <1>1, <1>2, <1>3, <1>4, <1>5

LEMMA InvTypes == LeaseInv => TypeOK
  <1> SUFFICES ASSUME LeaseInv PROVE TypeOK
    OBVIOUS
  <1> DEFINE c == part.lru
  <1>1. part \in PartState /\ ThreadsTyped /\ L!Good(c, Held)
    BY InvTable DEF LeaseInv, Fine, Base, CacheOk
  <1>2. c \in L!IntState /\ L!Total(c) /\ L!Usage(c)
    BY <1>1, Zenon DEF L!Good
  <1>3. c.charge \in [Lease -> Nat] /\ c.in_cache \in SUBSET Lease /\ L!Alive(c) \in SUBSET Lease
    BY <1>2 DEF L!IntState, L!Alive
  <1>4. L!ChargeOf(c.charge, c.in_cache) \in Nat /\ L!ChargeOf(c.charge, L!Alive(c)) \in Nat
    BY <1>3, L!UnitsFinite, CacheAssumption
  <1>5. c.usage \in Nat /\ c.total \in Nat
    BY <1>2, <1>4 DEF L!Total, L!Usage
  <1> HIDE DEF c
  <1>6. c \in lru!State
    BY <1>2, <1>5 DEF L!IntState, lru!State
  <1>7. part \in [lru  : lru!State,
                  ht   : [Name -> Lease \cup {NULL}],
                  mode : [Lease -> Mode],
                  due  : [Lease -> {"never", "later", "zero", "past"}],
                  out  : SUBSET Lease,
                  ctx  : SUBSET Lease,
                  refs : [Lease -> Nat],
                  dirs : Nat]
    BY <1>1, <1>6 DEF PartState, c
  <1> QED BY <1>1, <1>7 DEF TypeOK, ThreadsTyped

LEMMA InvRefs == LeaseInv => RefsExact
  <1> SUFFICES ASSUME LeaseInv PROVE RefsExact
    OBVIOUS
  <1>1. /\ View(part.lru, Held) /\ Live = Alive(part.lru)
        /\ Counted(part, Held) /\ Used(part, Held)
    BY InvTable
  <1>2. ASSUME NEW l \in Lease
        PROVE  part.lru.refs[l] = Cardinality(Holders(l))
                                  + (IF l \in part.lru.in_cache THEN 1 ELSE 0)
    BY <1>1, InvHolders DEF View
  <1>3. ASSUME NEW l \in Lease, l \in Live
        PROVE  part.refs[l] = Cardinality({t \in Holders(l) : mode[t] # "regular"})
    <2>1. /\ Held[l] = Cardinality(Holders(l)) /\ \A t \in Holders(l) : mode[t] = part.mode[l]
      BY InvHolders
    <2>2. CASE l \in Shared(part)
      <3>1. {t \in Holders(l) : mode[t] # "regular"} = Holders(l)
        BY <2>1, <2>2 DEF Shared
      <3> QED BY <1>1, <2>1, <2>2, <3>1 DEF Counted
    <2>3. CASE l \notin Shared(part)
      <3>1. {t \in Holders(l) : mode[t] # "regular"} = {}
        BY <1>1, <1>3, <2>1, <2>3 DEF Shared
      <3> QED BY <1>1, <1>3, <2>3, <3>1, FS_EmptySet DEF Counted
    <2> QED BY <2>2, <2>3
  <1>4. part.dirs = Cardinality({l \in Live : part.refs[l] > 0})
    <2>1. {l \in Live : part.refs[l] > 0} = Shared(part)
      <3>1. ASSUME NEW l \in Live PROVE part.refs[l] > 0 <=> l \in Shared(part)
        <4>1. CASE l \in Shared(part)
          BY <1>1, <4>1 DEF Counted, Used
        <4>2. CASE l \notin Shared(part)
          BY <1>1, <4>2 DEF Counted
        <4> QED BY <4>1, <4>2
      <3>2. Shared(part) \subseteq Live
        BY <1>1 DEF Shared
      <3> QED BY <3>1, <3>2
    <2> QED BY <1>1, <2>1 DEF Counted
  <1> QED BY <1>2, <1>3, <1>4 DEF RefsExact

LEMMA InvExclusive == LeaseInv => ModeExclusive
  <1> SUFFICES ASSUME LeaseInv, NEW t \in Thread, NEW u \in Thread,
                      pc[t] = "held", pc[u] = "held", name[t] = name[u],
                      part.out \cap {lease[t], lease[u]} = {}
               PROVE  lease[t] = lease[u] /\ mode[t] = mode[u]
    BY DEF ModeExclusive
  <1>1. ASSUME NEW v \in Thread, pc[v] = "held", lease[v] \notin part.out
        PROVE  part.ht[name[v]] = lease[v] /\ part.mode[lease[v]] = mode[v]
    <2>1. /\ lease[v] \in Lease /\ part.lru.key[lease[v]] = name[v]
          /\ part.mode[lease[v]] = mode[v]
      BY <1>1, InvTable DEF HoldersOk, ThreadsTyped
    <2>2. v \in Holders(lease[v])
      BY DEF Holders
    <2>3. lease[v] \in Alive(part.lru)
      BY <2>1, <2>2, InvTable, InvHolders DEF View
    <2> QED BY <1>1, <2>1, <2>3, InvTable DEF AliveInTable
  <1> QED BY <1>1

LEMMA InvTableSound == LeaseInv => TableSound
  <1> SUFFICES ASSUME LeaseInv, NEW x \in Name
               PROVE  /\ \A l \in {part.ht[x], part.lru.table[x]} \ {NULL} :
                            /\ l \in Live
                            /\ part.mode[l] # "regular" => l \in part.ctx /\ part.refs[l] > 0
                      /\ part.ht[x] # NULL =>
                            part.ht[x] \in part.lru.in_cache \/ Holders(part.ht[x]) # {}
                      /\ part.lru.table[x] # NULL => part.lru.table[x] = part.ht[x]
    BY DEF TableSound
  <1>1. /\ View(part.lru, Held) /\ Live = Alive(part.lru)
        /\ CacheInTable(part) /\ TableAlive(part)
        /\ Counted(part, Held) /\ Used(part, Held)
    BY InvTable
  <1>2. part.lru.table[x] # NULL => part.lru.table[x] = part.ht[x]
    BY <1>1 DEF CacheInTable
  <1>3. ASSUME part.ht[x] # NULL PROVE part.ht[x] \in Live /\ part.ht[x] \in Lease
    BY <1>1, <1>3 DEF TableAlive, Alive
  <1>4. ASSUME NEW l \in Live, part.mode[l] # "regular" PROVE l \in part.ctx /\ part.refs[l] > 0
    <2>1. l \in Shared(part)
      BY <1>1, <1>4 DEF Shared
    <2> QED BY <1>1, <2>1 DEF Counted, Used
  <1>5. ASSUME part.ht[x] # NULL
        PROVE  part.ht[x] \in part.lru.in_cache \/ Holders(part.ht[x]) # {}
    BY <1>1, <1>3, <1>5, InvHolders DEF View
  <1> QED BY <1>2, <1>3, <1>4, <1>5

LEMMA InvBusy == LeaseInv => BusyOwned
  <1> SUFFICES ASSUME LeaseInv PROVE BusyOwned
    OBVIOUS
  <1> DEFINE AtServer(w) == {t \in Thread : pc[t] = "server" /\ Way[name[t]] = w}
  <1>1. ServerOk
    BY DEF LeaseInv
  <1>2. ASSUME NEW w \in {Way[x] : x \in Name}
        PROVE  Cardinality(AtServer(w)) = IF w \in busy THEN 1 ELSE 0
    <2>1. CASE w \in busy
      <3>1. PICK t \in Thread : pc[t] = "server" /\ Way[name[t]] = w
        BY <1>1, <2>1 DEF ServerOk
      <3>2. AtServer(w) = {t}
        BY <1>1, <3>1 DEF ServerOk
      <3> QED BY <2>1, <3>2, FS_Singleton
    <2>2. CASE w \notin busy
      <3>1. AtServer(w) = {}
        BY <1>1, <2>2 DEF ServerOk
      <3> QED BY <2>2, <3>1, FS_EmptySet
    <2> QED BY <2>1, <2>2
  <1>3. \A t \in Thread : pc[t] = "server" => part.ht[name[t]] = NULL
    BY <1>1 DEF ServerOk
  <1> QED BY <1>2, <1>3 DEF BusyOwned

LEMMA InvContext == LeaseInv /\ BulkNever => ContextGone
  BY InvTable DEF LeaseInv, ContextOk, ContextGone
-----------------------------------------------------------------------------
\* What the lease table, the lease cache and the threads of a partition can be: counters
\* never go below zero and nothing refers to a lease that cannot exist (fscli.h:284-307, 352-371).
THEOREM LeaseTypes == Spec => []TypeOK
  BY LeaseInvariant, InvTypes, PTL

\* References to leases, contexts and directories are exactly those of callers and cache,
\* whatever lookups, expirations and evictions happen in between (fscli.cc:283-296,
\* 395-420, 1255-1263).
THEOREM RefsExactTheorem == Spec => []RefsExact
  BY LeaseInvariant, InvRefs, PTL

\* Users of a directory share one lease, of one mode, until it expires (fscli.cc:803-819).
THEOREM ModeExclusiveTheorem == Spec => []ModeExclusive
  BY LeaseInvariant, InvExclusive, PTL

\* Everything a lookup can find in the table or the cache is alive, has its context and
\* goes when the cache of an unused partition is deleted (fscli.cc:810-819, 1439).
THEOREM TableSoundTheorem == Spec => []TableSound
  BY LeaseInvariant, InvTableSound, PTL

\* A way is busy exactly while one lookup of it is at the server, and that lookup finds no
\* lease in the way of its own when it is back (fscli.cc:989-1093).
THEOREM BusyOwnedTheorem == Spec => []BusyOwned
  BY LeaseInvariant, InvBusy, PTL

\* With servers whose leases for bulk insertions never expire, as those of fs.cc, no lease
\* is deleted before its context is dissociated from it (fscli.cc:1242).
THEOREM ContextGoneTheorem ==
    ASSUME BulkNever
    PROVE  Spec => []ContextGone
  <1>1. LeaseInv => ContextGone
    BY InvContext
  <1> QED BY <1>1, LeaseInvariant, PTL
=============================================================================
