--------------------------- MODULE LRUCacheProofs ---------------------------
(***************************************************************************)
(* Proofs that the lists, the table, the reference counts and the usage of *)
(* the cache agree, for any number of entries, keys, charges and clients.  *)
(***************************************************************************)
EXTENDS LRUCache, FiniteSetTheorems, SequenceTheorems, WellFoundedInduction, TLAPS

LEMMA Facts == NULL \notin Entry /\ IsFiniteSet(Entry) /\ Charge \subseteq Nat
               /\ capacity \in Nat /\ MaxHeld \in Nat
  BY LRUCacheAssumption

(***************************************************************************)
(* Induction and loops.                                                    *)
(***************************************************************************)
LEMMA NatSetInduction ==
    ASSUME NEW S, 0 \in S, \A n \in Nat : n \in S => n + 1 \in S
    PROVE  Nat \subseteq S
  <1> DEFINE T == Nat \ S
             R == OpToRel(<, Nat)
  <1> SUFFICES ASSUME T # {} PROVE FALSE
    OBVIOUS
  <1>1. IsWellFoundedOn(R, Nat)
    BY NatLessThanWellFounded
  <1>2. T \subseteq Nat
    OBVIOUS
  <1>3. \A x, y \in Nat : x < y => <<x, y>> \in R
    BY DEF OpToRel
  <1> HIDE DEF R
  <1>4. PICK x \in T : \A y \in T : ~ (<<y, x>> \in R)
    BY <1>1, <1>2, WFMin
  <1>5. x # 0 /\ x - 1 \in Nat /\ x - 1 < x /\ (x - 1) + 1 = x
    OBVIOUS
  <1>6. x - 1 \notin S
    BY <1>5
  <1> QED BY <1>3, <1>4, <1>5, <1>6

\* The states of a loop of N rounds, of which the n-th takes state d to F[<<n, d>>].
Rounds(F, c, N, g) == g = [n \in 0 .. N |-> IF n = 0 THEN c ELSE F[<<n, g[n - 1]>>]]

LEMMA LoopExists ==
    ASSUME NEW F, NEW c, NEW N \in Nat
    PROVE  \E g : Rounds(F, c, N, g)
  <1> DEFINE S == {n \in Nat : \E g : Rounds(F, c, n, g)}
  <1>1. 0 \in S
    <2> DEFINE g == [n \in 0 .. 0 |-> c]
    <2>1. Rounds(F, c, 0, g)
      BY DEF Rounds
    <2> QED BY <2>1
  <1>2. ASSUME NEW n \in Nat, n \in S
        PROVE  n + 1 \in S
    <2>1. PICK g : Rounds(F, c, n, g)
      BY <1>2
    <2> DEFINE h == [k \in 0 .. n + 1 |-> IF k <= n THEN g[k] ELSE F[<<n + 1, g[n]>>]]
    <2>2. \A k \in 0 .. n : g[k] = IF k = 0 THEN c ELSE F[<<k, g[k - 1]>>]
      BY <2>1 DEF Rounds
    <2>3. \A k \in 0 .. n + 1 : h[k] = IF k = 0 THEN c ELSE F[<<k, h[k - 1]>>]
      <3> TAKE k \in 0 .. n + 1
      <3>1. CASE k = 0
        <4>1. 0 \in 0 .. n /\ 0 <= n /\ 0 \in 0 .. n + 1
          OBVIOUS
        <4> QED BY <3>1, <2>2, <4>1
      <3>2. CASE k \in 1 .. n
        <4>1. k - 1 \in 0 .. n /\ k \in 0 .. n /\ k - 1 <= n /\ k # 0
          BY <3>2
        <4> QED BY <2>2, <3>2, <4>1
      <3>3. CASE k = n + 1
        <4>1. k # 0 /\ k - 1 = n /\ n \in 0 .. n + 1 /\ ~(k <= n) /\ k \in 0 .. n + 1
          BY <3>3
        <4> QED BY <3>3, <4>1
      <3> QED BY <3>1, <3>2, <3>3
    <2>4. Rounds(F, c, n + 1, h)
      <3>1. h = [k \in 0 .. n + 1 |-> h[k]]
        OBVIOUS
      <3> HIDE DEF h
      <3> QED BY <2>3, <3>1 DEF Rounds
    <2> QED BY <2>4
  <1> HIDE DEF S
  <1>3. N \in S
    BY <1>1, <1>2, NatSetInduction
  <1> QED BY <1>3 DEF S
-----------------------------------------------------------------------------
(***************************************************************************)
(* Sums of charges.                                                        *)
(***************************************************************************)
LEMMA Block ==
    ASSUME NEW e, NEW k \in Nat
    PROVE  IsFiniteSet({e} \X (1 .. k)) /\ Cardinality({e} \X (1 .. k)) = k
  <1> DEFINE I == 1 .. k
  <1>1. IsFiniteSet(I) /\ Cardinality(I) = k
    BY FS_Interval
  <1>2. IsFiniteSet({e}) /\ Cardinality({e}) = 1
    BY FS_Singleton
  <1> HIDE DEF I
  <1>3. IsFiniteSet({e} \X I) /\ Cardinality({e} \X I) = Cardinality({e}) * Cardinality(I)
    BY <1>1, <1>2, FS_Product
  <1>4. Cardinality({e} \X I) = k
    BY <1>1, <1>2, <1>3
  <1> QED BY <1>3, <1>4 DEF I

Units(charge, S) == UNION {{e} \X (1 .. charge[e]) : e \in S}

LEMMA UnitsFinite ==
    ASSUME NEW f \in [Entry -> Nat], NEW S \in SUBSET Entry
    PROVE  /\ IsFiniteSet(Units(f, S)) /\ Cardinality(Units(f, S)) \in Nat
           /\ ChargeOf(f, S) = Cardinality(Units(f, S))
  <1> DEFINE B == {{e} \X (1 .. f[e]) : e \in S}
             g == [e \in S |-> {e} \X (1 .. f[e])]
  <1>1. IsFiniteSet(S)
    BY Facts, FS_Subset
  <1>2. g \in Surjection(S, B)
    <2>1. g \in [S -> B]
      OBVIOUS
    <2>2. \A T \in B : \E e \in S : g[e] = T
      OBVIOUS
    <2> HIDE DEF B, g
    <2> QED BY <2>1, <2>2 DEF Surjection
  <1>3. \A T \in B : IsFiniteSet(T)
    <2> SUFFICES ASSUME NEW e \in S PROVE IsFiniteSet({e} \X (1 .. f[e]))
      OBVIOUS
    <2>1. f[e] \in Nat
      OBVIOUS
    <2> QED BY <2>1, Block
  <1>4. Units(f, S) = UNION B /\ ChargeOf(f, S) = Cardinality(UNION B)
    BY DEF Units, ChargeOf
  <1> HIDE DEF B, g
  <1>5. IsFiniteSet(B)
    BY <1>1, <1>2, FS_Surjection
  <1>6. IsFiniteSet(UNION B)
    BY <1>3, <1>5, FS_UNION
  <1> QED BY <1>4, <1>6, FS_CardinalityType

LEMMA Sums ==
    ASSUME NEW f \in [Entry -> Nat], NEW S \in SUBSET Entry, NEW e \in Entry
    PROVE  /\ ChargeOf(f, S) \in Nat
           /\ e \in S => ChargeOf(f, S \ {e}) = ChargeOf(f, S) - f[e]
           /\ e \notin S => ChargeOf(f, S \cup {e}) = ChargeOf(f, S) + f[e]
  <1>1. ASSUME NEW T \in SUBSET Entry, e \notin T
        PROVE  ChargeOf(f, T \cup {e}) = ChargeOf(f, T) + f[e]
    <2> DEFINE U == Units(f, T)
               B == {e} \X (1 .. f[e])
               V == Units(f, T \cup {e})
    <2>1. V = U \cup B
      BY DEF Units
    <2>2. U \cap B = {}
      BY <1>1 DEF Units
    <2>3. /\ IsFiniteSet(U) /\ Cardinality(U) \in Nat /\ ChargeOf(f, T) = Cardinality(U)
          /\ ChargeOf(f, T \cup {e}) = Cardinality(V)
      BY UnitsFinite
    <2>4. IsFiniteSet(B) /\ Cardinality(B) = f[e] /\ f[e] \in Nat
      BY Block
    <2> HIDE DEF U, B, V
    <2>5. Cardinality(U \cup B) = Cardinality(U) + Cardinality(B) - Cardinality(U \cap B)
      BY <2>3, <2>4, FS_Union
    <2>6. Cardinality(U \cap B) = 0
      BY <2>2, FS_EmptySet
    <2> QED BY <2>1, <2>3, <2>4, <2>5, <2>6
  <1>2. ChargeOf(f, S) \in Nat /\ ChargeOf(f, S \ {e}) \in Nat
    BY UnitsFinite
  <1>3. ASSUME e \in S
        PROVE  ChargeOf(f, S \ {e}) = ChargeOf(f, S) - f[e]
    <2>1. S = (S \ {e}) \cup {e} /\ e \notin S \ {e} /\ S \ {e} \in SUBSET Entry
      BY <1>3
    <2>2. ChargeOf(f, S) = ChargeOf(f, S \ {e}) + f[e]
      BY <1>1, <2>1
    <2> QED BY <1>2, <2>2
  <1> QED BY <1>1, <1>2, <1>3

LEMMA SameSum ==
    ASSUME NEW f, NEW g, NEW S, \A e \in S : f[e] = g[e]
    PROVE  ChargeOf(f, S) = ChargeOf(g, S)
  <1>1. UNION {{e} \X (1 .. f[e]) : e \in S} = UNION {{e} \X (1 .. g[e]) : e \in S}
    OBVIOUS
  <1> QED BY <1>1 DEF ChargeOf

LEMMA NoSum == \A f : ChargeOf(f, {}) = 0
  <1>1. \A f : UNION {{e} \X (1 .. f[e]) : e \in {}} = {}
    OBVIOUS
  <1> QED BY <1>1, FS_EmptySet DEF ChargeOf
-----------------------------------------------------------------------------
(***************************************************************************)
(* Lists: sequences in which nothing is twice.                             *)
(***************************************************************************)
List(s) == s \in Seq(Entry) /\ \A i, j \in 1 .. Len(s) : s[i] = s[j] => i = j

LEMMA ListFacts ==
    ASSUME NEW s, List(s)
    PROVE  /\ Len(s) \in Nat /\ DOMAIN s = 1 .. Len(s)
           /\ \A e : e \in Range(s) <=> \E i \in 1 .. Len(s) : s[i] = e
           /\ Range(s) \subseteq Entry
           /\ s # <<>> => Len(s) > 0 /\ Head(s) = s[1] /\ Head(s) \in Range(s) /\ Head(s) \in Entry
           /\ Len(s) = 0 <=> Range(s) = {}
           /\ \A i \in 1 .. Len(s) : s[i] \in Entry
  <1>1. s \in Seq(Entry) /\ Len(s) \in Nat /\ DOMAIN s = 1 .. Len(s)
    BY DEF List
  <1>2. \A i \in 1 .. Len(s) : s[i] \in Entry
    BY <1>1
  <1>3. \A e : e \in Range(s) <=> \E i \in 1 .. Len(s) : s[i] = e
    BY <1>1 DEF Range
  <1>4. Range(s) \subseteq Entry
    BY <1>2, <1>3
  <1>5. Len(s) = 0 <=> Range(s) = {}
    <2>1. Len(s) # 0 => 1 \in 1 .. Len(s)
      BY <1>1
    <2> QED BY <1>1, <1>3, <2>1
  <1>6. s # <<>> => Len(s) > 0 /\ Head(s) = s[1]
    BY <1>1
  <1>7. s # <<>> => Head(s) \in Range(s)
    <2>1. s # <<>> => 1 \in 1 .. Len(s)
      BY <1>1, <1>6
    <2> QED BY <1>3, <1>6, <2>1
  <1> QED BY <1>1, <1>2, <1>3, <1>4, <1>5, <1>6, <1>7

LEMMA ListLength ==
    ASSUME NEW s, List(s)
    PROVE  Len(s) = Cardinality(Range(s))
  <1> DEFINE R == Range(s)
             I == 1 .. Len(s)
  <1>1. s \in [I -> R] /\ Len(s) \in Nat
    BY DEF List, Range
  <1>2. s \in Bijection(I, R)
    BY <1>1 DEF List, Bijection, Injection, IsInjective, Surjection, Range
  <1>3. IsFiniteSet(I) /\ Cardinality(I) = Len(s)
    <2> DEFINE L == Len(s)
    <2>1. L \in Nat /\ I = 1 .. L
      BY <1>1
    <2> HIDE DEF L
    <2>2. IsFiniteSet(1 .. L) /\ Cardinality(1 .. L) = L
      BY <2>1, FS_Interval
    <2> QED BY <2>1, <2>2 DEF L
  <1> HIDE DEF I, R
  <1>4. Cardinality(R) = Cardinality(I)
    BY <1>2, <1>3, FS_Bijection DEF ExistsBijection
  <1> QED BY <1>3, <1>4 DEF R

\* Taking e out leaves the others in their order.
LEMMA Unlinked ==
    ASSUME NEW s, List(s), NEW e \in Entry
    PROVE  LET r == LRU_Remove(s, e)
           IN  /\ List(r) /\ Range(r) = Range(s) \ {e}
               /\ Len(r) = IF e \in Range(s) THEN Len(s) - 1 ELSE Len(s)
               /\ \A i, j \in 1 .. Len(s) :
                     i < j /\ s[i] # e /\ s[j] # e =>
                        \E a, b \in 1 .. Len(r) : a < b /\ r[a] = s[i] /\ r[b] = s[j]
               /\ s # <<>> /\ Head(s) = e =>
                     Len(r) = Len(s) - 1 /\ \A i \in 1 .. Len(r) : r[i] = s[i + 1]
  <1> DEFINE r == LRU_Remove(s, e)
  <1>1. Len(s) \in Nat /\ DOMAIN s = 1 .. Len(s) /\ s \in Seq(Entry)
    BY ListFacts DEF List
  <1>2. CASE e \notin Range(s)
    <2>1. r = s
      BY <1>2 DEF LRU_Remove
    <2>2. s # <<>> => Head(s) # e
      BY <1>2, ListFacts
    <2>3. Range(s) = Range(s) \ {e}
      BY <1>2
    <2> HIDE DEF r
    <2> QED BY <1>1, <1>2, <2>1, <2>2, <2>3 DEF r
  <1>3. CASE e \in Range(s)
    <2> DEFINE at == CHOOSE i \in DOMAIN s : s[i] = e
               L == Len(s)
    <2>1. at \in 1 .. L /\ s[at] = e
      BY <1>1, <1>3 DEF Range
    <2>2. r = [i \in 1 .. L - 1 |-> IF i < at THEN s[i] ELSE s[i + 1]]
      BY <1>3 DEF LRU_Remove
    <2>3. L \in Nat /\ at \in Nat /\ L >= 1 /\ L - 1 \in Nat /\ L = Len(s)
      BY <1>1, <2>1
    <2>4. \A i \in 1 .. L : s[i] = e => i = at
      BY <2>1 DEF List
    <2>5. \A i \in 1 .. L : s[i] \in Entry
      BY ListFacts
    <2> HIDE DEF at, r, L
    <2>6. /\ \A i \in 1 .. L - 1 : i < at => r[i] = s[i] /\ i \in 1 .. L
          /\ \A i \in 1 .. L - 1 : i >= at => r[i] = s[i + 1] /\ i + 1 \in 1 .. L
      BY <2>1, <2>2, <2>3
    <2>7. r \in Seq(Entry) /\ Len(r) = L - 1
      <3>1. \A i \in 1 .. L - 1 : r[i] \in Entry
        BY <2>3, <2>5, <2>6
      <3>2. r \in [1 .. L - 1 -> Entry]
        BY <2>2, <3>1
      <3> QED BY <2>3, <3>2
    <2>8. ASSUME NEW i \in 1 .. L, i # at
          PROVE  \E a \in 1 .. L - 1 : r[a] = s[i] /\ a = IF i < at THEN i ELSE i - 1
      <3>1. CASE i < at
        BY <2>1, <2>3, <2>6, <3>1
      <3>2. CASE i > at
        <4>1. i - 1 \in 1 .. L - 1 /\ i - 1 >= at /\ (i - 1) + 1 = i
          BY <2>1, <2>3, <3>2
        <4>2. r[i - 1] = s[i]
          BY <2>6, <4>1
        <4> QED BY <2>1, <2>3, <3>2, <4>1, <4>2
      <3> QED BY <2>1, <2>3, <2>8, <3>1, <3>2
    <2>9. \A i \in 1 .. L - 1 : \E k \in 1 .. L : r[i] = s[k] /\ k # at /\ k = IF i < at THEN i ELSE i + 1
      BY <2>1, <2>3, <2>6
    <2>10. Range(r) = Range(s) \ {e}
      <3>1. DOMAIN r = 1 .. L - 1
        BY <2>2
      <3>2. \A x : x \in Range(r) <=> \E i \in 1 .. L - 1 : r[i] = x
        BY <3>1 DEF Range
      <3>3. \A x : x \in Range(s) <=> \E i \in 1 .. L : s[i] = x
        BY <1>1, <2>3 DEF Range
      <3>4. \A x \in Range(r) : x \in Range(s) /\ x # e
        BY <2>4, <2>9, <3>2, <3>3
      <3>5. \A x \in Range(s) : x # e => x \in Range(r)
        BY <2>1, <2>8, <3>2, <3>3
      <3> QED BY <3>4, <3>5
    <2>11. List(r)
      <3> SUFFICES ASSUME NEW i \in 1 .. L - 1, NEW j \in 1 .. L - 1, r[i] = r[j]
                   PROVE  i = j
        BY <2>7 DEF List
      <3>1. PICK a \in 1 .. L : r[i] = s[a] /\ a # at /\ a = IF i < at THEN i ELSE i + 1
        BY <2>9
      <3>2. PICK b \in 1 .. L : r[j] = s[b] /\ b # at /\ b = IF j < at THEN j ELSE j + 1
        BY <2>9
      <3>3. a = b
        BY <2>3, <3>1, <3>2 DEF List
      <3> QED BY <2>1, <2>3, <3>1, <3>2, <3>3
    <2>12. ASSUME NEW i \in 1 .. L, NEW j \in 1 .. L, i < j, s[i] # e, s[j] # e
           PROVE  \E a, b \in 1 .. L - 1 : a < b /\ r[a] = s[i] /\ r[b] = s[j]
      <3>1. i # at /\ j # at
        BY <2>1, <2>12
      <3>2. PICK a \in 1 .. L - 1 : r[a] = s[i] /\ a = IF i < at THEN i ELSE i - 1
        BY <2>8, <3>1
      <3>3. PICK b \in 1 .. L - 1 : r[b] = s[j] /\ b = IF j < at THEN j ELSE j - 1
        BY <2>8, <3>1
      <3>4. a < b
        BY <2>1, <2>3, <2>12, <3>1, <3>2, <3>3
      <3> QED BY <3>2, <3>3, <3>4
    <2>13. ASSUME s # <<>>, Head(s) = e
           PROVE  \A i \in 1 .. L - 1 : r[i] = s[i + 1]
      <3>1. at = 1
        BY <2>3, <2>4, <2>13, ListFacts
      <3> QED BY <2>3, <2>6, <3>1
    <2> QED BY <1>3, <2>3, <2>7, <2>10, <2>11, <2>12, <2>13 DEF r
  <1> QED BY <1>2, <1>3

LEMMA Appended ==
    ASSUME NEW s, List(s), NEW e \in Entry, e \notin Range(s)
    PROVE  /\ List(Append(s, e)) /\ Range(Append(s, e)) = Range(s) \cup {e}
           /\ Len(Append(s, e)) = Len(s) + 1
  <1> DEFINE r == Append(s, e)
  <1>1. Len(s) \in Nat /\ s \in Seq(Entry) /\ \A x : x \in Range(s) <=> \E i \in 1 .. Len(s) : s[i] = x
    BY ListFacts DEF List
  <1>2. /\ r \in Seq(Entry) /\ Len(r) = Len(s) + 1 /\ r[Len(s) + 1] = e
        /\ \A i \in 1 .. Len(s) : r[i] = s[i]
    BY <1>1
  <1> HIDE DEF r
  <1>3. \A i \in 1 .. Len(r) : i \in 1 .. Len(s) \/ i = Len(s) + 1
    BY <1>1, <1>2
  <1>4. List(r)
    BY <1>1, <1>2, <1>3 DEF List
  <1>5. Range(r) = Range(s) \cup {e}
    <2>1. \A x : x \in Range(r) <=> \E i \in 1 .. Len(r) : r[i] = x
      BY <1>4, ListFacts
    <2>2. \A i \in 1 .. Len(s) : i \in 1 .. Len(r)
      BY <1>1, <1>2
    <2>3. Len(s) + 1 \in 1 .. Len(r)
      BY <1>1, <1>2
    <2> QED BY <1>1, <1>2, <1>3, <2>1, <2>2, <2>3
  <1> QED BY <1>2, <1>4, <1>5 DEF r
-----------------------------------------------------------------------------
(***************************************************************************)
(* The invariant, of a cache c whose clients hold h[e] references on e.    *)
(* IntState is State but for the counters, which only the sums of charges  *)
(* keep from becoming negative.                                            *)
(***************************************************************************)
IntState == [key      : [Entry -> Key],
             charge   : [Entry -> Nat],
             refs     : [Entry -> Nat],
             in_cache : SUBSET Entry,
             table    : [Key -> Entry \cup {NULL}],
             in_use   : SUBSET Entry,
             lru      : Seq(Entry),
             usage    : Int,
             total    : Int]

Holding == [Entry -> Nat]

\* The references are those of the clients and the cache's, entries with clients are
\* in use, and the others that are cached are in the LRU list.
Lists(c, h) ==
    /\ \A e \in Entry : c.refs[e] = h[e] + (IF e \in c.in_cache THEN 1 ELSE 0)
    /\ c.in_use = {e \in Entry : h[e] > 0}
    /\ List(c.lru) /\ Range(c.lru) = {e \in c.in_cache : h[e] = 0}

\* The table leads to the entries of S.
TableHas(c, S) ==
    /\ \A k \in Key : c.table[k] # NULL => c.table[k] \in S /\ c.key[c.table[k]] = k
    /\ \A e \in S : c.table[c.key[e]] = e

\* usage_ and total_usage_.
Alive(c) == {e \in Entry : c.refs[e] > 0}
Total(c) == c.total = ChargeOf(c.charge, Alive(c))
Usage(c) == c.usage = ChargeOf(c.charge, c.in_cache)

\* A cache of which some fields have changed.
With(c, R, I, z, T) == [c EXCEPT !.refs = R, !.in_use = I, !.lru = z, !.total = T]

ChangedTo(c, R, I, z, T, d) ==
    /\ d \in IntState /\ d.refs = R /\ d.in_use = I /\ d.lru = z /\ d.total = T
    /\ d.key = c.key /\ d.charge = c.charge /\ d.in_cache = c.in_cache
    /\ d.table = c.table /\ d.usage = c.usage

LEMMA Changed ==
    ASSUME NEW c \in IntState, NEW R \in [Entry -> Nat], NEW I \in SUBSET Entry,
           NEW z \in Seq(Entry), NEW T \in Int
    PROVE  ChangedTo(c, R, I, z, T, With(c, R, I, z, T))
  BY DEF IntState, With, ChangedTo

\* Lists(c, h), but for a reference on e that is to be given back: a client's, or that
\* of the cache when e has left it.
Owed(c, h, e) ==
    /\ c.refs[e] > 0 /\ c.refs[e] - 1 = h[e] + (IF e \in c.in_cache THEN 1 ELSE 0)
    /\ \A x \in Entry \ {e} : c.refs[x] = h[x] + (IF x \in c.in_cache THEN 1 ELSE 0)
    /\ c.in_use \ {e} = {x \in Entry : h[x] > 0} \ {e}
    /\ e \in c.in_use \/ h[e] = 0
    /\ List(c.lru) /\ Range(c.lru) \ {e} = {x \in c.in_cache : h[x] = 0} \ {e}
    /\ e \in Range(c.lru) => h[e] = 0 /\ e \notin c.in_cache

LEMMA UnrefOk ==
    ASSUME NEW c \in IntState, NEW h \in Holding, NEW e \in Entry, Owed(c, h, e), Total(c)
    PROVE  LET d == Unref(c, e)
           IN  /\ d \in IntState /\ Lists(d, h) /\ Total(d)
               /\ d.key = c.key /\ d.charge = c.charge /\ d.in_cache = c.in_cache
               /\ d.table = c.table /\ d.usage = c.usage
               /\ d.refs = [c.refs EXCEPT ![e] = @ - 1]
               /\ e \in Range(c.lru) => d.lru = LRU_Remove(c.lru, e)
               /\ e \notin Range(c.lru) /\ e \notin c.in_cache => d.lru = c.lru
  <1> DEFINE d == Unref(c, e)
             R == [c.refs EXCEPT ![e] = @ - 1]
             z == LRU_Remove(c.lru, e)
             f == c.charge
             I == c.in_use \ {e}
             T == c.total - f[e]
             y == Append(z, e)
  <1>0. /\ c.refs \in [Entry -> Nat] /\ c.in_cache \subseteq Entry /\ c.in_use \subseteq Entry
        /\ c.charge \in [Entry -> Nat] /\ c.total \in Int /\ h \in [Entry -> Nat] /\ h[e] \in Nat
        /\ c.refs[e] \in Nat /\ f[e] \in Nat
    BY DEF IntState, Holding
  <1>10. /\ c.refs[e] > 0 /\ c.refs[e] - 1 = h[e] + (IF e \in c.in_cache THEN 1 ELSE 0)
         /\ \A x \in Entry \ {e} : c.refs[x] = h[x] + (IF x \in c.in_cache THEN 1 ELSE 0)
    BY DEF Owed
  <1>11. /\ c.in_use \ {e} = {x \in Entry : h[x] > 0} \ {e}
         /\ e \in c.in_use \/ h[e] = 0
         /\ List(c.lru) /\ Range(c.lru) \ {e} = {x \in c.in_cache : h[x] = 0} \ {e}
         /\ e \in Range(c.lru) => h[e] = 0 /\ e \notin c.in_cache
    BY DEF Owed
  <1>1. /\ R \in [Entry -> Nat] /\ R[e] = c.refs[e] - 1 /\ R[e] \in Nat
        /\ \A x \in Entry \ {e} : R[x] = c.refs[x]
    BY <1>0, <1>10
  <1>2. /\ List(z) /\ Range(z) = Range(c.lru) \ {e} /\ z \in Seq(Entry)
        /\ e \notin Range(c.lru) => z = c.lru
    <2>1. List(z) /\ Range(z) = Range(c.lru) \ {e}
      BY <1>11, Unlinked
    <2>2. e \notin Range(c.lru) => z = c.lru
      BY DEF LRU_Remove
    <2> QED BY <2>1, <2>2 DEF List
  <1>3. \A x \in Entry : R[x] = h[x] + (IF x \in c.in_cache THEN 1 ELSE 0)
    BY <1>1, <1>10
  <1>4. d = IF R[e] = 0
            THEN With(c, R, I, z, T)
            ELSE IF e \in c.in_cache /\ R[e] = 1
            THEN With(c, R, I, y, c.total)
            ELSE With(c, R, c.in_use, c.lru, c.total)
    BY <1>0 DEF Unref, IntState, With
  <1>8. I \in SUBSET Entry /\ T \in Int /\ y \in Seq(Entry) /\ c.lru \in Seq(Entry)
    <2>1. I \in SUBSET Entry /\ T \in Int
      BY <1>0
    <2>2. y \in Seq(Entry)
      BY <1>2
    <2> QED BY <2>1, <2>2 DEF IntState
  <1>9. I = c.in_use \ {e} /\ T = c.total - f[e] /\ y = Append(z, e)
    OBVIOUS
  <1> HIDE DEF R, z, d, f, I, T, y
  <1>12. R[e] \in Nat /\ h[e] \in Nat
    BY <1>0, <1>1
  <1>13. R[e] = h[e] + (IF e \in c.in_cache THEN 1 ELSE 0)
    BY <1>3
  <1>14. R \in [Entry -> Nat] /\ c.total \in Int /\ c.in_use \in SUBSET Entry /\ z \in Seq(Entry)
    BY <1>0, <1>1, <1>2
  <1>5. CASE R[e] = 0
    <2>1. h[e] = 0 /\ e \notin c.in_cache
      BY <1>5, <1>12, <1>13
    <2>2. d = With(c, R, I, z, T)
      BY <1>4, <1>5
    <2>3. /\ d \in IntState /\ d.refs = R /\ d.in_use = I /\ d.lru = z
          /\ d.total = T /\ d.key = c.key /\ d.charge = c.charge
          /\ d.in_cache = c.in_cache /\ d.table = c.table /\ d.usage = c.usage
      <3>1. ChangedTo(c, R, I, z, T, d)
        BY <1>8, <1>14, <2>2, Changed
      <3> QED BY <3>1 DEF ChangedTo
    <2>4. Lists(d, h)
      BY <1>2, <1>3, <1>9, <1>11, <2>1, <2>3 DEF Lists
    <2>5. Total(d)
      <3>1. Alive(d) = Alive(c) \ {e} /\ e \in Alive(c) /\ Alive(c) \in SUBSET Entry
        BY <1>1, <1>5, <1>10, <2>3 DEF Alive
      <3>2. ChargeOf(f, Alive(c) \ {e}) = ChargeOf(f, Alive(c)) - f[e]
        BY <1>0, <3>1, Sums DEF f
      <3> QED BY <1>9, <2>3, <3>1, <3>2 DEF Total, f
    <2> QED BY <1>2, <2>3, <2>4, <2>5 DEF d, R, z
  <1>6. CASE R[e] # 0 /\ e \in c.in_cache /\ R[e] = 1
    <2>1. h[e] = 0 /\ e \notin Range(c.lru)
      BY <1>6, <1>11, <1>12, <1>13
    <2>2. d = With(c, R, I, y, c.total)
      BY <1>4, <1>6
    <2>3. List(Append(z, e)) /\ Range(Append(z, e)) = Range(z) \cup {e}
      BY <1>2, <2>1, Appended
    <2>4. /\ d \in IntState /\ d.refs = R /\ d.in_use = I /\ d.lru = y
          /\ d.total = c.total /\ d.key = c.key /\ d.charge = c.charge
          /\ d.in_cache = c.in_cache /\ d.table = c.table /\ d.usage = c.usage
      <3>1. ChangedTo(c, R, I, y, c.total, d)
        BY <1>8, <1>14, <2>2, Changed
      <3> QED BY <3>1 DEF ChangedTo
    <2>5. Lists(d, h)
      BY <1>2, <1>3, <1>6, <1>9, <1>11, <2>1, <2>3, <2>4 DEF Lists
    <2>6. Total(d)
      <3>1. Alive(d) = Alive(c)
        BY <1>1, <1>6, <1>10, <2>4 DEF Alive
      <3> QED BY <2>4, <3>1 DEF Total
    <2> QED BY <1>6, <2>1, <2>4, <2>5, <2>6 DEF d, R
  <1>7. CASE R[e] # 0 /\ ~(e \in c.in_cache /\ R[e] = 1)
    <2>1. h[e] > 0
      BY <1>7, <1>12, <1>13
    <2>2. d = With(c, R, c.in_use, c.lru, c.total)
      BY <1>4, <1>7
    <2>4. /\ d \in IntState /\ d.refs = R /\ d.in_use = c.in_use /\ d.lru = c.lru
          /\ d.total = c.total /\ d.key = c.key /\ d.charge = c.charge
          /\ d.in_cache = c.in_cache /\ d.table = c.table /\ d.usage = c.usage
      <3>1. ChangedTo(c, R, c.in_use, c.lru, c.total, d)
        BY <1>8, <1>14, <2>2, Changed
      <3> QED BY <3>1 DEF ChangedTo
    <2>7. e \notin Range(c.lru) /\ e \in c.in_use
      BY <1>0, <1>11, <2>1
    <2>5. Lists(d, h)
      BY <1>0, <1>3, <1>11, <2>1, <2>4, <2>7 DEF Lists
    <2>6. Total(d)
      <3>1. Alive(d) = Alive(c)
        <4>1. \A x \in Entry : d.refs[x] > 0 <=> c.refs[x] > 0
          <5>1. d.refs[e] > 0 /\ c.refs[e] > 0
            <6>1. R[e] > 0
              BY <1>7, <1>12
            <6> QED BY <1>10, <2>4, <6>1
          <5> QED BY <1>1, <2>4, <5>1
        <4> QED BY <4>1 DEF Alive
      <3> QED BY <2>4, <3>1 DEF Total
    <2> QED BY <2>4, <2>5, <2>6, <2>7 DEF d, R
  <1> QED BY <1>5, <1>6, <1>7
LEMMA Fields ==
    ASSUME NEW c \in IntState
    PROVE  /\ c.key \in [Entry -> Key] /\ c.charge \in [Entry -> Nat] /\ c.refs \in [Entry -> Nat]
           /\ c.in_cache \in SUBSET Entry /\ c.table \in [Key -> Entry \cup {NULL}]
           /\ c.in_use \in SUBSET Entry /\ c.lru \in Seq(Entry) /\ c.usage \in Int /\ c.total \in Int
  BY DEF IntState

\* e, which has left the cache, loses the reference of the cache.
Leaving(c, e, u) == [c EXCEPT !.in_cache = @ \ {e}, !.usage = u]

LEMMA LeaveOk ==
    ASSUME NEW c \in IntState, NEW h \in Holding, Lists(c, h), Total(c),
           NEW e \in c.in_cache, NEW u \in Int
    PROVE  LET d == Unref(Leaving(c, e, u), e)
           IN  /\ d \in IntState /\ Lists(d, h) /\ Total(d)
               /\ d.key = c.key /\ d.charge = c.charge /\ d.in_cache = c.in_cache \ {e}
               /\ d.table = c.table /\ d.usage = u
               /\ d.refs = [c.refs EXCEPT ![e] = @ - 1]
               /\ d.lru = LRU_Remove(c.lru, e)
  <1> DEFINE b == Leaving(c, e, u)
             d == Unref(b, e)
  <1>1. e \in Entry /\ h \in [Entry -> Nat] /\ c.refs \in [Entry -> Nat] /\ c.in_cache \in SUBSET Entry
    BY Fields DEF Holding
  <1>2. /\ b \in IntState /\ b.in_cache = c.in_cache \ {e} /\ b.usage = u
        /\ b.key = c.key /\ b.charge = c.charge /\ b.refs = c.refs
        /\ b.table = c.table /\ b.in_use = c.in_use /\ b.lru = c.lru /\ b.total = c.total
    BY DEF IntState, Leaving
  <1>3. /\ \A x \in Entry : c.refs[x] = h[x] + (IF x \in c.in_cache THEN 1 ELSE 0)
        /\ c.in_use = {x \in Entry : h[x] > 0}
        /\ List(c.lru) /\ Range(c.lru) = {x \in c.in_cache : h[x] = 0}
    BY DEF Lists
  <1> HIDE DEF b
  <1>4. Owed(b, h, e)
    <2>1. c.refs[e] = h[e] + 1 /\ h[e] \in Nat
      BY <1>1, <1>3
    <2>2. /\ b.refs[e] > 0 /\ b.refs[e] - 1 = h[e] + (IF e \in b.in_cache THEN 1 ELSE 0)
          /\ \A x \in Entry \ {e} : b.refs[x] = h[x] + (IF x \in b.in_cache THEN 1 ELSE 0)
      BY <1>2, <1>3, <2>1
    <2>3. b.in_use \ {e} = {x \in Entry : h[x] > 0} \ {e} /\ (e \in b.in_use \/ h[e] = 0)
      BY <1>1, <1>2, <1>3, <2>1
    <2>4. /\ List(b.lru) /\ Range(b.lru) \ {e} = {x \in b.in_cache : h[x] = 0} \ {e}
          /\ e \in Range(b.lru) => h[e] = 0 /\ e \notin b.in_cache
      BY <1>2, <1>3
    <2> QED BY <2>2, <2>3, <2>4 DEF Owed
  <1>5. Total(b)
    BY <1>2 DEF Total, Alive
  <1>6. /\ d \in IntState /\ Lists(d, h) /\ Total(d)
        /\ d.key = b.key /\ d.charge = b.charge /\ d.in_cache = b.in_cache
        /\ d.table = b.table /\ d.usage = b.usage
        /\ d.refs = [b.refs EXCEPT ![e] = @ - 1]
        /\ e \in Range(b.lru) => d.lru = LRU_Remove(b.lru, e)
        /\ e \notin Range(b.lru) /\ e \notin b.in_cache => d.lru = b.lru
    BY <1>1, <1>2, <1>4, <1>5, UnrefOk
  <1>7. d.lru = LRU_Remove(c.lru, e)
    <2>1. e \notin Range(c.lru) => LRU_Remove(c.lru, e) = c.lru
      BY DEF LRU_Remove
    <2> QED BY <1>2, <1>6, <2>1
  <1> HIDE DEF d
  <1>8. d \in IntState /\ Lists(d, h) /\ Total(d) /\ d.key = c.key /\ d.charge = c.charge
        /\ d.in_cache = c.in_cache \ {e} /\ d.table = c.table /\ d.usage = u
        /\ d.refs = [c.refs EXCEPT ![e] = @ - 1] /\ d.lru = LRU_Remove(c.lru, e)
    BY <1>2, <1>6, <1>7
  <1> QED BY <1>8 DEF d, b

\* What holds of the cache between operations, and as an operation goes on.
Good(c, h) == /\ c \in IntState /\ Lists(c, h) /\ Total(c) /\ Usage(c)
              /\ TableHas(c, c.in_cache)

LEMMA RemoveEntryOk ==
    ASSUME NEW c \in IntState, NEW h \in Holding, Lists(c, h), Total(c), Usage(c),
           NEW e \in c.in_cache, TableHas(c, c.in_cache \ {e})
    PROVE  LET d == RemoveEntry(c, e)
           IN  /\ Good(d, h)
               /\ d.key = c.key /\ d.charge = c.charge /\ d.in_cache = c.in_cache \ {e}
               /\ d.table = c.table /\ d.usage = c.usage - c.charge[e]
               /\ d.refs = [c.refs EXCEPT ![e] = @ - 1] /\ d.lru = LRU_Remove(c.lru, e)
  <1> DEFINE u == c.usage - c.charge[e]
             d == Unref(Leaving(c, e, u), e)
  <1>1. /\ e \in Entry /\ c.charge \in [Entry -> Nat] /\ c.in_cache \in SUBSET Entry
        /\ u \in Int /\ u = c.usage - c.charge[e]
    BY Fields
  <1>2. d = RemoveEntry(c, e)
    BY DEF RemoveEntry, Leaving
  <1> HIDE DEF u
  <1>3. /\ d \in IntState /\ Lists(d, h) /\ Total(d)
        /\ d.key = c.key /\ d.charge = c.charge /\ d.in_cache = c.in_cache \ {e}
        /\ d.table = c.table /\ d.usage = u
        /\ d.refs = [c.refs EXCEPT ![e] = @ - 1] /\ d.lru = LRU_Remove(c.lru, e)
    BY <1>1, LeaveOk
  <1> HIDE DEF d
  <1>4. Usage(d)
    <2>1. ChargeOf(c.charge, c.in_cache \ {e}) = ChargeOf(c.charge, c.in_cache) - c.charge[e]
      BY <1>1, Sums
    <2> QED BY <1>1, <1>3, <2>1 DEF Usage
  <1>5. TableHas(d, d.in_cache)
    BY <1>3 DEF TableHas
  <1>6. Good(d, h)
    BY <1>3, <1>4, <1>5 DEF Good
  <1> QED BY <1>1, <1>2, <1>3, <1>6

\* d is c without the entry under the key k.
KeyRemoved(c, h, k, d) ==
    LET e == c.table[k]
    IN  /\ Good(d, h) /\ e \in c.in_cache
        /\ d.key = c.key /\ d.charge = c.charge /\ d.in_cache = c.in_cache \ {e}
        /\ d.table = [c.table EXCEPT ![k] = NULL] /\ d.usage = c.usage - c.charge[e]
        /\ d.refs = [c.refs EXCEPT ![e] = @ - 1] /\ d.lru = LRU_Remove(c.lru, e)

LEMMA RemoveKeyOk ==
    ASSUME NEW c, NEW h \in Holding, Good(c, h), NEW k \in Key, c.table[k] # NULL
    PROVE  KeyRemoved(c, h, k, RemoveKey(c, k))
  <1> DEFINE b == [c EXCEPT !.table[k] = NULL]
             e == c.table[k]
             d == RemoveEntry(b, e)
  <1>1. c \in IntState /\ Lists(c, h) /\ Total(c) /\ Usage(c) /\ TableHas(c, c.in_cache)
    BY DEF Good
  <1>2. /\ b \in IntState /\ b.in_cache = c.in_cache /\ b.usage = c.usage
        /\ b.key = c.key /\ b.charge = c.charge /\ b.refs = c.refs
        /\ b.in_use = c.in_use /\ b.lru = c.lru /\ b.total = c.total
        /\ b.table = [c.table EXCEPT ![k] = NULL]
    BY <1>1 DEF IntState
  <1>3. e \in c.in_cache /\ c.key[e] = k
    BY <1>1 DEF TableHas
  <1>4. d = RemoveKey(c, k)
    BY DEF RemoveKey
  <1>5. c.table \in [Key -> Entry \cup {NULL}] /\ c.in_cache \in SUBSET Entry
        /\ c.key \in [Entry -> Key] /\ NULL \notin Entry
    BY <1>1, Fields, Facts
  <1>8. e = c.table[k]
    OBVIOUS
  <1> HIDE DEF b, e
  <1>6. Lists(b, h) /\ Total(b) /\ Usage(b)
    BY <1>1, <1>2 DEF Lists, Total, Usage, Alive
  <1>7. TableHas(b, b.in_cache \ {e})
    <2>1. ASSUME NEW x \in Key, b.table[x] # NULL
          PROVE  b.table[x] \in c.in_cache \ {e} /\ c.key[b.table[x]] = x
      <3>1. x # k /\ b.table[x] = c.table[x]
        BY <1>2, <1>5, <2>1
      <3> QED BY <1>1, <1>3, <2>1, <3>1 DEF TableHas
    <2>2. ASSUME NEW x \in c.in_cache \ {e}
          PROVE  b.table[c.key[x]] = x
      <3>1. c.table[c.key[x]] = x /\ c.key[x] \in Key /\ c.key[x] # k
        BY <1>1, <1>5, <1>8 DEF TableHas
      <3> QED BY <1>2, <1>5, <3>1
    <2> QED BY <1>2, <2>1, <2>2 DEF TableHas
  <1>9. /\ Good(d, h)
        /\ d.key = b.key /\ d.charge = b.charge /\ d.in_cache = b.in_cache \ {e}
        /\ d.table = b.table /\ d.usage = b.usage - b.charge[e]
        /\ d.refs = [b.refs EXCEPT ![e] = @ - 1] /\ d.lru = LRU_Remove(b.lru, e)
    BY <1>2, <1>3, <1>6, <1>7, RemoveEntryOk
  <1> HIDE DEF d
  <1>10. KeyRemoved(c, h, k, d)
    BY <1>2, <1>3, <1>8, <1>9 DEF KeyRemoved
  <1> QED BY <1>4, <1>10

\* Counting a client of e in and out.
More(h, e) == [h EXCEPT ![e] = @ + 1]
Less(h, e) == [h EXCEPT ![e] = @ - 1]

Released(c, h, e, d) ==
    /\ Good(d, Less(h, e)) /\ d.usage = c.usage
    /\ d.key = c.key /\ d.charge = c.charge /\ d.in_cache = c.in_cache
    /\ d.refs = [c.refs EXCEPT ![e] = @ - 1]

LEMMA ReleaseOk ==
    ASSUME NEW c, NEW h \in Holding, Good(c, h), NEW e \in Entry, h[e] > 0
    PROVE  Less(h, e) \in Holding /\ Released(c, h, e, Unref(c, e))
  <1> DEFINE d == Unref(c, e)
             g == Less(h, e)
  <1>1. c \in IntState /\ Lists(c, h) /\ Total(c) /\ Usage(c) /\ TableHas(c, c.in_cache)
    BY DEF Good
  <1>2. /\ \A x \in Entry : c.refs[x] = h[x] + (IF x \in c.in_cache THEN 1 ELSE 0)
        /\ c.in_use = {x \in Entry : h[x] > 0}
        /\ List(c.lru) /\ Range(c.lru) = {x \in c.in_cache : h[x] = 0}
    BY <1>1 DEF Lists
  <1>3. c.in_cache \in SUBSET Entry /\ h \in [Entry -> Nat] /\ h[e] \in Nat
    BY <1>1, Fields DEF Holding
  <1>4. /\ g \in [Entry -> Nat] /\ g \in Holding /\ g[e] = h[e] - 1 /\ g[e] \in Nat
        /\ \A x \in Entry \ {e} : g[x] = h[x]
    BY <1>3 DEF Holding, Less
  <1> HIDE DEF g
  <1>5. Owed(c, g, e)
    <2>1. c.refs[e] = h[e] + (IF e \in c.in_cache THEN 1 ELSE 0)
      BY <1>2
    <2>2. c.refs[e] > 0 /\ c.refs[e] - 1 = g[e] + (IF e \in c.in_cache THEN 1 ELSE 0)
      BY <1>3, <1>4, <2>1
    <2>3. \A x \in Entry \ {e} : c.refs[x] = g[x] + (IF x \in c.in_cache THEN 1 ELSE 0)
      BY <1>2, <1>4
    <2>4. c.in_use \ {e} = {x \in Entry : g[x] > 0} \ {e} /\ e \in c.in_use
      BY <1>2, <1>4
    <2>5. Range(c.lru) \ {e} = {x \in c.in_cache : g[x] = 0} \ {e}
      BY <1>2, <1>3, <1>4
    <2>6. e \notin Range(c.lru)
      BY <1>2, <1>3
    <2> QED BY <1>2, <2>2, <2>3, <2>4, <2>5, <2>6 DEF Owed
  <1>6. /\ d \in IntState /\ Lists(d, g) /\ Total(d)
        /\ d.key = c.key /\ d.charge = c.charge /\ d.in_cache = c.in_cache
        /\ d.table = c.table /\ d.usage = c.usage
        /\ d.refs = [c.refs EXCEPT ![e] = @ - 1]
    BY <1>1, <1>4, <1>5, UnrefOk
  <1> HIDE DEF d
  <1>7. Usage(d) /\ TableHas(d, d.in_cache)
    BY <1>1, <1>6 DEF Usage, TableHas
  <1>8. Good(d, g)
    BY <1>6, <1>7 DEF Good
  <1>9. Released(c, h, e, d)
    BY <1>6, <1>8 DEF Released, g
  <1> QED BY <1>4, <1>9 DEF d, g

LEMMA MoreOk ==
    ASSUME NEW h \in Holding, NEW e \in Entry
    PROVE  /\ More(h, e) \in Holding /\ h \in [Entry -> Nat] /\ h[e] \in Nat
           /\ More(h, e)[e] = h[e] + 1 /\ More(h, e)[e] > 0
           /\ \A x \in Entry \ {e} : More(h, e)[x] = h[x]
  <1>1. h \in [Entry -> Nat] /\ h[e] \in Nat
    BY DEF Holding
  <1>2. /\ More(h, e) \in [Entry -> Nat] /\ More(h, e)[e] = h[e] + 1
        /\ \A x \in Entry \ {e} : More(h, e)[x] = h[x]
    BY <1>1 DEF More
  <1> QED BY <1>1, <1>2 DEF Holding

LEMMA AddRefOk ==
    ASSUME NEW c, NEW h \in Holding, Good(c, h), NEW e \in Entry, c.refs[e] > 0
    PROVE  LET d == AddRef(c, e)
           IN  /\ Good(d, More(h, e)) /\ d.usage = c.usage
               /\ d.key = c.key /\ d.charge = c.charge /\ d.in_cache = c.in_cache
               /\ d.refs = [c.refs EXCEPT ![e] = @ + 1]
  <1> DEFINE d == AddRef(c, e)
             g == More(h, e)
             R == [c.refs EXCEPT ![e] = @ + 1]
             J == c.in_use \cup {e}
             z == LRU_Remove(c.lru, e)
             t == c.total
  <1>1. c \in IntState /\ Lists(c, h) /\ Total(c) /\ Usage(c) /\ TableHas(c, c.in_cache)
    BY DEF Good
  <1>2. /\ \A x \in Entry : c.refs[x] = h[x] + (IF x \in c.in_cache THEN 1 ELSE 0)
        /\ c.in_use = {x \in Entry : h[x] > 0}
        /\ List(c.lru) /\ Range(c.lru) = {x \in c.in_cache : h[x] = 0}
    BY <1>1 DEF Lists
  <1>3. /\ c.in_cache \in SUBSET Entry /\ c.refs \in [Entry -> Nat] /\ c.refs[e] \in Nat
        /\ c.in_use \in SUBSET Entry /\ c.lru \in Seq(Entry) /\ c.total \in Int
    BY <1>1, Fields
  <1>4. /\ g \in Holding /\ h \in [Entry -> Nat] /\ h[e] \in Nat
        /\ g[e] = h[e] + 1 /\ g[e] > 0 /\ \A x \in Entry \ {e} : g[x] = h[x]
    BY MoreOk
  <1>5. /\ R \in [Entry -> Nat] /\ R[e] = c.refs[e] + 1 /\ \A x \in Entry \ {e} : R[x] = c.refs[x]
    BY <1>3
  <1>6. List(z) /\ Range(z) = Range(c.lru) \ {e} /\ z \in Seq(Entry)
    <2>1. List(z) /\ Range(z) = Range(c.lru) \ {e}
      BY <1>2, Unlinked
    <2> QED BY <2>1 DEF List
  <1>7. J \in SUBSET Entry /\ t \in Int /\ J = c.in_use \cup {e} /\ t = c.total
    BY <1>3
  <1>8. c.refs[e] = h[e] + (IF e \in c.in_cache THEN 1 ELSE 0)
    BY <1>2
  <1>9. d = IF c.refs[e] = 1 /\ e \in c.in_cache THEN With(c, R, J, z, t)
            ELSE With(c, R, c.in_use, c.lru, t)
    <2>1. c.refs[e] = 1 => R = [c.refs EXCEPT ![e] = 2]
      BY <1>3
    <2>2. ASSUME c.refs[e] = 1, e \in c.in_cache
          PROVE  d = With(c, R, J, z, t)
      <3>1. d = [c EXCEPT !.refs[e] = 2, !.in_use = @ \cup {e}, !.lru = LRU_Remove(@, e)]
        BY <2>2 DEF AddRef
      <3> HIDE DEF d, R, z
      <3> QED BY <1>1, <2>1, <2>2, <3>1 DEF With, IntState, z
    <2>3. ASSUME ~(c.refs[e] = 1 /\ e \in c.in_cache)
          PROVE  d = With(c, R, c.in_use, c.lru, t)
      <3>1. d = [c EXCEPT !.refs[e] = @ + 1]
        BY <2>3 DEF AddRef
      <3> HIDE DEF d
      <3> QED BY <1>1, <3>1 DEF With, IntState
    <2> QED BY <2>2, <2>3
  <1>10. e \notin Range(c.lru) => z = c.lru
    BY DEF LRU_Remove
  <1> HIDE DEF d, g, R, J, z, t
  <1>11. d = With(c, R, J, z, t)
    <2>1. CASE c.refs[e] = 1 /\ e \in c.in_cache
      BY <1>9, <2>1
    <2>2. CASE ~(c.refs[e] = 1 /\ e \in c.in_cache)
      <3>1. h[e] > 0
        BY <1>3, <1>4, <1>8, <2>2
      <3>2. e \in c.in_use /\ e \notin Range(c.lru)
        BY <1>2, <1>4, <3>1
      <3>3. J = c.in_use /\ z = c.lru
        BY <1>7, <1>10, <3>2
      <3> QED BY <1>9, <2>2, <3>3
    <2> QED BY <2>1, <2>2
  <1>12. /\ d \in IntState /\ d.refs = R /\ d.in_use = J /\ d.lru = z /\ d.total = t
         /\ d.key = c.key /\ d.charge = c.charge /\ d.in_cache = c.in_cache
         /\ d.table = c.table /\ d.usage = c.usage
    <2>1. ChangedTo(c, R, J, z, t, d)
      BY <1>1, <1>5, <1>6, <1>7, <1>11, Changed
    <2> QED BY <2>1 DEF ChangedTo
  <1>13. Lists(d, g)
    <2>1. R[e] = g[e] + (IF e \in c.in_cache THEN 1 ELSE 0)
      BY <1>3, <1>4, <1>5, <1>8
    <2>2. \A x \in Entry : R[x] = g[x] + (IF x \in c.in_cache THEN 1 ELSE 0)
      BY <1>2, <1>4, <1>5, <2>1
    <2>3. J = {x \in Entry : g[x] > 0}
      BY <1>2, <1>4, <1>7
    <2>4. Range(z) = {x \in c.in_cache : g[x] = 0}
      BY <1>2, <1>3, <1>4, <1>6
    <2> QED BY <1>6, <1>12, <2>2, <2>3, <2>4 DEF Lists
  <1>14. Total(d)
    <2>1. \A x \in Entry : R[x] > 0 <=> c.refs[x] > 0
      <3>1. R[e] > 0
        BY <1>3, <1>5
      <3> QED BY <1>5, <3>1
    <2>2. Alive(d) = Alive(c)
      BY <1>12, <2>1 DEF Alive
    <2> QED BY <1>1, <1>7, <1>12, <2>2 DEF Total
  <1>15. Usage(d) /\ TableHas(d, d.in_cache)
    BY <1>1, <1>12 DEF Usage, TableHas
  <1>16. Good(d, g)
    BY <1>12, <1>13, <1>14, <1>15 DEF Good
  <1> QED BY <1>12, <1>16 DEF d, g, R

WithNew(c, K, f, R, I, T) ==
    [c EXCEPT !.key = K, !.charge = f, !.refs = R, !.in_use = I, !.total = T]

LEMMA ChangedNew ==
    ASSUME NEW c \in IntState, NEW K \in [Entry -> Key], NEW f \in [Entry -> Nat],
           NEW R \in [Entry -> Nat], NEW I \in SUBSET Entry, NEW T \in Int
    PROVE  LET d == WithNew(c, K, f, R, I, T) IN
           /\ d \in IntState /\ d.key = K /\ d.charge = f /\ d.refs = R
           /\ d.in_cache = c.in_cache /\ d.table = c.table /\ d.in_use = I
           /\ d.lru = c.lru /\ d.usage = c.usage /\ d.total = T
  BY DEF IntState, WithNew

WithAdd(c, R, C, u, t) ==
    [c EXCEPT !.refs = R, !.in_cache = C, !.usage = u, !.table = t]

LEMMA ChangedAdd ==
    ASSUME NEW c \in IntState, NEW R \in [Entry -> Nat], NEW C \in SUBSET Entry,
           NEW u \in Int, NEW t \in [Key -> Entry \cup {NULL}]
    PROVE  LET d == WithAdd(c, R, C, u, t) IN
           /\ d \in IntState /\ d.key = c.key /\ d.charge = c.charge /\ d.refs = R
           /\ d.in_cache = C /\ d.table = t /\ d.in_use = c.in_use
           /\ d.lru = c.lru /\ d.usage = u /\ d.total = c.total
  BY DEF IntState, WithAdd

\* d is c with a new entry e for the key k, which is not in the cache.
MadeNew(c, h, k, e, ch, d) ==
    /\ Good(d, More(h, e)) /\ h[e] = 0 /\ e \notin c.in_cache
    /\ d.key = [c.key EXCEPT ![e] = k] /\ d.charge = [c.charge EXCEPT ![e] = ch]
    /\ d.refs = [c.refs EXCEPT ![e] = 1]
    /\ d.in_cache = c.in_cache /\ d.table = c.table /\ d.usage = c.usage
    /\ d.lru = c.lru

LEMMA NewEntryOk ==
    ASSUME NEW c, NEW h \in Holding, Good(c, h), NEW k \in Key, NEW e \in Entry,
           c.refs[e] = 0, NEW ch \in Nat
    PROVE  MadeNew(c, h, k, e, ch, NewEntry(c, k, e, ch))
  <1> DEFINE d == NewEntry(c, k, e, ch)
             g == More(h, e)
             K == [c.key EXCEPT ![e] = k]
             f == [c.charge EXCEPT ![e] = ch]
             R == [c.refs EXCEPT ![e] = 1]
  <1>1. c \in IntState /\ Lists(c, h) /\ Total(c) /\ Usage(c) /\ TableHas(c, c.in_cache)
    BY DEF Good
  <1>2. /\ \A x \in Entry : c.refs[x] = h[x] + (IF x \in c.in_cache THEN 1 ELSE 0)
        /\ c.in_use = {x \in Entry : h[x] > 0}
        /\ List(c.lru) /\ Range(c.lru) = {x \in c.in_cache : h[x] = 0}
    BY <1>1 DEF Lists
  <1>3. /\ c.in_cache \in SUBSET Entry /\ c.refs \in [Entry -> Nat] /\ c.refs[e] \in Nat
        /\ c.key \in [Entry -> Key] /\ c.charge \in [Entry -> Nat] /\ c.total \in Int
    BY <1>1, Fields
  <1>4. /\ g \in Holding /\ h \in [Entry -> Nat] /\ h[e] \in Nat
        /\ g[e] = h[e] + 1 /\ g[e] > 0 /\ \A x \in Entry \ {e} : g[x] = h[x]
    BY MoreOk
  <1>5. c.refs[e] = h[e] + (IF e \in c.in_cache THEN 1 ELSE 0)
    BY <1>2
  <1>6. h[e] = 0 /\ e \notin c.in_cache
    BY <1>4, <1>5
  <1>7. /\ d \in IntState /\ d.key = K /\ d.charge = f /\ d.refs = R
        /\ d.in_cache = c.in_cache /\ d.table = c.table /\ d.in_use = c.in_use \cup {e}
        /\ d.lru = c.lru /\ d.usage = c.usage /\ d.total = c.total + ch
    <2> DEFINE I == c.in_use \cup {e}
               T == c.total + ch
    <2>1. d = WithNew(c, K, f, R, I, T)
      BY <1>1 DEF NewEntry, IntState, WithNew
    <2>2. /\ K \in [Entry -> Key] /\ f \in [Entry -> Nat] /\ R \in [Entry -> Nat]
          /\ I \in SUBSET Entry /\ T \in Int
      BY <1>1, <1>3, Fields
    <2> HIDE DEF d, K, f, R, I, T
    <2>3. /\ d \in IntState /\ d.key = K /\ d.charge = f /\ d.refs = R
          /\ d.in_cache = c.in_cache /\ d.table = c.table /\ d.in_use = I
          /\ d.lru = c.lru /\ d.usage = c.usage /\ d.total = T
      BY <1>1, <2>1, <2>2, ChangedNew
    <2> QED BY <2>3 DEF I, T
  <1>8. /\ R \in [Entry -> Nat] /\ f \in [Entry -> Nat] /\ R[e] = 1 /\ f[e] = ch /\ K[e] = k
        /\ \A x \in Entry \ {e} : R[x] = c.refs[x] /\ f[x] = c.charge[x] /\ K[x] = c.key[x]
    BY <1>3
  <1> HIDE DEF d, g, K, f, R
  <1>9. Lists(d, g)
    <2>1. R[e] = g[e] + (IF e \in c.in_cache THEN 1 ELSE 0)
      BY <1>4, <1>6, <1>8
    <2>2. \A x \in Entry : R[x] = g[x] + (IF x \in c.in_cache THEN 1 ELSE 0)
      BY <1>2, <1>4, <1>8, <2>1
    <2>3. d.in_use = {x \in Entry : g[x] > 0}
      BY <1>2, <1>4, <1>7
    <2>4. Range(c.lru) = {x \in c.in_cache : g[x] = 0}
      BY <1>2, <1>3, <1>4, <1>6
    <2> QED BY <1>2, <1>7, <2>2, <2>3, <2>4 DEF Lists
  <1>10. Total(d)
    <2> DEFINE A == Alive(c)
    <2>1. A \in SUBSET Entry /\ e \notin A /\ Alive(d) = A \cup {e}
      BY <1>7, <1>8 DEF Alive
    <2>2. c.total = ChargeOf(c.charge, A)
      BY <1>1 DEF Total
    <2> HIDE DEF A
    <2>3. ChargeOf(f, A \cup {e}) = ChargeOf(f, A) + f[e]
      BY <1>8, <2>1, Sums
    <2>4. \A x \in A : f[x] = c.charge[x]
      BY <1>8, <2>1
    <2>5. ChargeOf(f, A) = ChargeOf(c.charge, A)
      BY <2>4, SameSum
    <2> QED BY <1>7, <1>8, <2>1, <2>2, <2>3, <2>5 DEF Total
  <1>11. Usage(d)
    <2>1. \A x \in c.in_cache : f[x] = c.charge[x]
      BY <1>3, <1>6, <1>8
    <2>2. ChargeOf(f, c.in_cache) = ChargeOf(c.charge, c.in_cache)
      BY <2>1, SameSum
    <2> QED BY <1>1, <1>7, <2>2 DEF Usage
  <1>12. TableHas(d, d.in_cache)
    <2>1. \A x \in c.in_cache : K[x] = c.key[x]
      BY <1>3, <1>6, <1>8
    <2> QED BY <1>1, <1>7, <2>1 DEF TableHas
  <1>13. Good(d, g)
    BY <1>7, <1>9, <1>10, <1>11, <1>12 DEF Good
  <1> QED BY <1>6, <1>7, <1>13 DEF d, g, K, f, R, MadeNew

\* d is c with e under the key k, in the place of o.
Added(c, h, k, e, d) ==
    LET o == c.table[k]
    IN  /\ Good(d, h) /\ d.key = c.key /\ d.charge = c.charge /\ e \in d.in_cache
        /\ o = NULL => /\ d.in_cache = c.in_cache \cup {e} /\ d.lru = c.lru
                       /\ d.usage = c.usage + c.charge[e]
        /\ o # NULL => /\ o \in c.in_cache /\ o # e /\ c.key[o] = k
                       /\ d.in_cache = (c.in_cache \cup {e}) \ {o}
                       /\ d.lru = LRU_Remove(c.lru, o)
                       /\ d.usage = c.usage + c.charge[e] - c.charge[o]

LEMMA AddEntryOk ==
    ASSUME NEW c, NEW h \in Holding, Good(c, h), NEW k \in Key, NEW e \in Entry,
           e \notin c.in_cache, h[e] > 0, c.key[e] = k
    PROVE  Added(c, h, k, e, AddEntry(c, k, e))
  <1> DEFINE b == [c EXCEPT !.refs[e] = @ + 1, !.in_cache = @ \cup {e},
                            !.usage = @ + c.charge[e], !.table[k] = e]
             d == AddEntry(c, k, e)
             o == c.table[k]
             R == [c.refs EXCEPT ![e] = @ + 1]
             t == [c.table EXCEPT ![k] = e]
  <1>1. c \in IntState /\ Lists(c, h) /\ Total(c) /\ Usage(c) /\ TableHas(c, c.in_cache)
    BY DEF Good
  <1>2. /\ \A x \in Entry : c.refs[x] = h[x] + (IF x \in c.in_cache THEN 1 ELSE 0)
        /\ c.in_use = {x \in Entry : h[x] > 0}
        /\ List(c.lru) /\ Range(c.lru) = {x \in c.in_cache : h[x] = 0}
    BY <1>1 DEF Lists
  <1>3. /\ c.in_cache \in SUBSET Entry /\ c.refs \in [Entry -> Nat] /\ c.refs[e] \in Nat
        /\ c.key \in [Entry -> Key] /\ c.charge \in [Entry -> Nat] /\ c.charge[e] \in Nat
        /\ c.table \in [Key -> Entry \cup {NULL}] /\ c.usage \in Int
        /\ h \in [Entry -> Nat] /\ h[e] \in Nat /\ NULL \notin Entry
    BY <1>1, Fields, Facts DEF Holding
  <1>4. /\ b \in IntState /\ b.key = c.key /\ b.charge = c.charge /\ b.refs = R
        /\ b.in_cache = c.in_cache \cup {e} /\ b.table = t
        /\ b.in_use = c.in_use /\ b.lru = c.lru /\ b.usage = c.usage + c.charge[e]
        /\ b.total = c.total
    <2> DEFINE C == c.in_cache \cup {e}
               u == c.usage + c.charge[e]
    <2>1. b = WithAdd(c, R, C, u, t)
      BY <1>1 DEF IntState, WithAdd
    <2>2. /\ R \in [Entry -> Nat] /\ t \in [Key -> Entry \cup {NULL}]
          /\ C \in SUBSET Entry /\ u \in Int
      BY <1>3
    <2> HIDE DEF b, R, t, C, u
    <2>3. /\ b \in IntState /\ b.key = c.key /\ b.charge = c.charge /\ b.refs = R
          /\ b.in_cache = C /\ b.table = t /\ b.in_use = c.in_use
          /\ b.lru = c.lru /\ b.usage = u /\ b.total = c.total
      BY <1>1, <2>1, <2>2, ChangedAdd
    <2> QED BY <2>3 DEF C, u
  <1>5. /\ R \in [Entry -> Nat] /\ R[e] = c.refs[e] + 1 /\ t[k] = e
        /\ \A x \in Entry \ {e} : R[x] = c.refs[x]
        /\ \A x \in Key \ {k} : t[x] = c.table[x]
    BY <1>3
  <1>6. d = IF o = NULL THEN b ELSE RemoveEntry(b, o)
    BY DEF AddEntry
  <1>7. o # NULL => o \in c.in_cache /\ o # e /\ c.key[o] = k
    BY <1>1 DEF TableHas
  <1>20. o = c.table[k]
    OBVIOUS
  <1> HIDE DEF b, d, R, t, o
  <1>8. Lists(b, h)
    <2>1. c.refs[e] = h[e]
      BY <1>2, <1>3
    <2>2. \A x \in Entry : R[x] = h[x] + (IF x \in c.in_cache \cup {e} THEN 1 ELSE 0)
      BY <1>2, <1>5, <2>1
    <2>3. Range(c.lru) = {x \in c.in_cache \cup {e} : h[x] = 0}
      BY <1>2, <1>3
    <2> QED BY <1>2, <1>4, <2>2, <2>3 DEF Lists
  <1>9. Total(b)
    <2>1. R[e] > 0 /\ c.refs[e] > 0
      BY <1>2, <1>3, <1>5
    <2>2. Alive(b) = Alive(c)
      BY <1>4, <1>5, <2>1 DEF Alive
    <2> QED BY <1>1, <1>4, <2>2 DEF Total
  <1>10. Usage(b)
    <2>1. ChargeOf(c.charge, c.in_cache \cup {e}) = ChargeOf(c.charge, c.in_cache) + c.charge[e]
      BY <1>3, Sums
    <2> QED BY <1>1, <1>4, <2>1 DEF Usage
  <1>11. TableHas(b, b.in_cache \ {o})
    <2>1. ASSUME NEW x \in Key, b.table[x] # NULL
          PROVE  b.table[x] \in b.in_cache \ {o} /\ b.key[b.table[x]] = x
      <3>1. CASE x = k
        <4>1. e # o
          BY <1>3, <1>7
        <4> QED BY <1>4, <1>5, <3>1, <4>1
      <3>2. CASE x # k
        <4>1. b.table[x] = c.table[x]
          BY <1>4, <1>5, <3>2
        <4>2. c.table[x] \in c.in_cache /\ c.key[c.table[x]] = x
          BY <1>1, <2>1, <4>1 DEF TableHas
        <4>3. c.table[x] # o
          BY <1>3, <1>7, <3>2, <4>2
        <4> QED BY <1>4, <4>1, <4>2, <4>3
      <3> QED BY <3>1, <3>2
    <2>2. ASSUME NEW x \in b.in_cache \ {o}
          PROVE  b.table[b.key[x]] = x
      <3>1. CASE x = e
        BY <1>4, <1>5, <3>1
      <3>2. CASE x # e
        <4>1. x \in c.in_cache
          BY <1>4, <2>2, <3>2
        <4>2. c.table[c.key[x]] = x /\ c.key[x] \in Key
          BY <1>1, <1>3, <4>1 DEF TableHas
        <4>3. c.key[x] # k
          BY <1>20, <2>2, <4>2
        <4> QED BY <1>4, <1>5, <4>2, <4>3
      <3> QED BY <3>1, <3>2
    <2> QED BY <2>1, <2>2 DEF TableHas
  <1>12. CASE o = NULL
    <2>1. d = b
      BY <1>6, <1>12
    <2>2. b.in_cache \ {o} = b.in_cache
      BY <1>3, <1>4, <1>12
    <2>3. Good(d, h)
      BY <1>4, <1>8, <1>9, <1>10, <1>11, <2>1, <2>2 DEF Good
    <2> QED BY <1>4, <1>12, <1>20, <2>1, <2>3 DEF d, Added
  <1>13. CASE o # NULL
    <2>1. d = RemoveEntry(b, o) /\ o \in b.in_cache /\ o \in Entry
      BY <1>3, <1>4, <1>6, <1>7, <1>13
    <2>2. /\ Good(d, h)
          /\ d.key = b.key /\ d.charge = b.charge /\ d.in_cache = b.in_cache \ {o}
          /\ d.table = b.table /\ d.usage = b.usage - b.charge[o]
          /\ d.refs = [b.refs EXCEPT ![o] = @ - 1] /\ d.lru = LRU_Remove(b.lru, o)
      BY <1>4, <1>8, <1>9, <1>10, <1>11, <2>1, RemoveEntryOk
    <2>4. e \in d.in_cache
      BY <1>4, <1>7, <1>13, <2>2
    <2>5. /\ d.key = c.key /\ d.charge = c.charge /\ d.in_cache = (c.in_cache \cup {e}) \ {o}
          /\ d.lru = LRU_Remove(c.lru, o) /\ d.usage = c.usage + c.charge[e] - c.charge[o]
      <3>1. /\ b.charge[o] = c.charge[o] /\ b.in_cache \ {o} = (c.in_cache \cup {e}) \ {o}
            /\ c.charge[o] \in Int /\ b.usage = c.usage + c.charge[e]
        BY <1>3, <1>4, <2>1
      <3>2. d.usage = c.usage + c.charge[e] - c.charge[o]
        <4>1. d.usage = b.usage - b.charge[o]
          BY <2>2
        <4>2. b.charge[o] = c.charge[o] /\ b.usage = c.usage + c.charge[e]
          BY <3>1
        <4>3. c.usage \in Int /\ c.charge[e] \in Int /\ c.charge[o] \in Int
          BY <1>3, <3>1
        <4> QED BY <4>1, <4>2, <4>3
      <3>3. d.in_cache = (c.in_cache \cup {e}) \ {o}
        BY <2>2, <3>1
      <3> QED BY <1>4, <2>2, <3>2, <3>3
    <2>6. o \in c.in_cache /\ o # e /\ c.key[o] = k
      BY <1>7, <1>13
    <2> QED BY <1>13, <2>2, <2>4, <2>5, <2>6 DEF d, o, Added
  <1> QED BY <1>12, <1>13
-----------------------------------------------------------------------------
(***************************************************************************)
(* The loops.                                                              *)
(***************************************************************************)
LEMMA Along ==
    ASSUME NEW N \in Nat, NEW Inv, NEW g, g[0] \in Inv[0],
           \A n \in 1 .. N : g[n - 1] \in Inv[n - 1] => g[n] \in Inv[n]
    PROVE  \A n \in 0 .. N : g[n] \in Inv[n]
  <1> DEFINE S == {n \in Nat : n <= N => g[n] \in Inv[n]}
  <1>1. 0 \in S
    OBVIOUS
  <1>2. ASSUME NEW n \in Nat, n \in S
        PROVE  n + 1 \in S
    <2> SUFFICES ASSUME n + 1 <= N PROVE g[n + 1] \in Inv[n + 1]
      OBVIOUS
    <2>1. n + 1 \in 1 .. N /\ (n + 1) - 1 = n /\ n <= N
      OBVIOUS
    <2> QED BY <1>2, <2>1
  <1>3. \A n \in 0 .. N : n \in Nat /\ n <= N
    OBVIOUS
  <1> HIDE DEF S
  <1>4. Nat \subseteq S
    BY <1>1, <1>2, NatSetInduction
  <1> QED BY <1>3, <1>4 DEF S

LEMMA RemoveOldestOk ==
    ASSUME NEW c, NEW h \in Holding, Good(c, h), Len(c.lru) > 0
    PROVE  LET d == RemoveOldest(c)
               e == Head(c.lru)
           IN  /\ Good(d, h) /\ e \in c.in_cache /\ h[e] = 0 /\ e = c.lru[1]
               /\ d.key = c.key /\ d.charge = c.charge /\ d.in_cache = c.in_cache \ {e}
               /\ d.usage \in Int /\ c.usage \in Int /\ d.usage <= c.usage
               /\ c.charge[e] \in Nat /\ d.usage = c.usage - c.charge[e]
               /\ Len(d.lru) = Len(c.lru) - 1 /\ \A i \in 1 .. Len(d.lru) : d.lru[i] = c.lru[i + 1]
  <1> DEFINE d == RemoveOldest(c)
             e == Head(c.lru)
             k == c.key[e]
  <1>1. c \in IntState /\ Lists(c, h) /\ TableHas(c, c.in_cache)
    BY DEF Good
  <1>2. List(c.lru) /\ Range(c.lru) = {x \in c.in_cache : h[x] = 0}
    BY <1>1 DEF Lists
  <1>3. c.lru # <<>> /\ e \in Range(c.lru) /\ e \in Entry /\ e = c.lru[1] /\ Len(c.lru) \in Nat
    <2>1. c.lru # <<>>
      BY <1>2 DEF List
    <2> QED BY <1>2, <2>1, ListFacts
  <1>4. e \in c.in_cache /\ h[e] = 0
    BY <1>2, <1>3
  <1>5. c.table[k] = e /\ k \in Key /\ c.table[k] # NULL
    <2>1. c.table[k] = e
      BY <1>1, <1>4 DEF TableHas
    <2>2. k \in Key
      BY <1>1, <1>3, Fields
    <2> QED BY <1>3, <2>1, <2>2, Facts
  <1>6. d = RemoveKey(c, k)
    BY DEF RemoveOldest
  <1>7. /\ c.charge[e] \in Nat /\ c.usage \in Int
    BY <1>1, <1>3, Fields
  <1>8. Head(c.lru) = e
    OBVIOUS
  <1> HIDE DEF d, k, e
  <1>9. /\ Good(d, h)
        /\ d.key = c.key /\ d.charge = c.charge /\ d.in_cache = c.in_cache \ {e}
        /\ d.usage = c.usage - c.charge[e] /\ d.lru = LRU_Remove(c.lru, e)
    <2> DEFINE o == c.table[k]
               b == RemoveKey(c, k)
    <2>1. /\ Good(b, h)
          /\ b.key = c.key /\ b.charge = c.charge /\ b.in_cache = c.in_cache \ {o}
          /\ b.usage = c.usage - c.charge[o] /\ b.lru = LRU_Remove(c.lru, o)
      <3>1. KeyRemoved(c, h, k, b)
        BY <1>5, RemoveKeyOk
      <3> HIDE DEF b
      <3> QED BY <3>1 DEF KeyRemoved
    <2>2. b = d /\ o = e
      BY <1>5, <1>6
    <2> HIDE DEF o, b
    <2> QED BY <2>1, <2>2
  <1>10. d.usage \in Int /\ d.usage <= c.usage
    <2>1. d.usage = c.usage - c.charge[e]
      BY <1>9
    <2> QED BY <1>7, <2>1
  <1>11. Len(d.lru) = Len(c.lru) - 1 /\ \A i \in 1 .. Len(d.lru) : d.lru[i] = c.lru[i + 1]
    <2>1. LET r == LRU_Remove(c.lru, e)
          IN  Len(r) = Len(c.lru) - 1 /\ \A i \in 1 .. Len(r) : r[i] = c.lru[i + 1]
      BY <1>2, <1>3, <1>8, Unlinked
    <2> QED BY <1>9, <2>1
  <1> QED BY <1>3, <1>4, <1>7, <1>9, <1>10, <1>11 DEF d, e

\* d is c without some of its oldest idle entries.
Suffix(c, d) ==
    /\ Len(d.lru) <= Len(c.lru)
    /\ \A i \in 1 .. Len(d.lru) : d.lru[i] = c.lru[i + (Len(c.lru) - Len(d.lru))]

Ejected(c, h, d) ==
    /\ Good(d, h) /\ d.key = c.key /\ d.charge = c.charge
    /\ d.in_cache \subseteq c.in_cache /\ Suffix(c, d)
    /\ \A e \in c.in_cache : h[e] > 0 => e \in d.in_cache
    /\ d.usage <= c.usage

LEMMA EjectedFirst ==
    ASSUME NEW c, NEW h \in Holding, Good(c, h)
    PROVE  Ejected(c, h, c) /\ Len(c.lru) \in Nat
  <1>1. c.usage \in Int /\ Len(c.lru) \in Nat
    BY Fields DEF Good
  <1>2. Suffix(c, c)
    <2> DEFINE L == Len(c.lru)
    <2>1. L <= L /\ \A i \in 1 .. L : i + (L - L) = i
      BY <1>1
    <2> QED BY <2>1 DEF Suffix
  <1> QED BY <1>1, <1>2 DEF Ejected

\* No more was ejected than had to go.
Tight(c, h, d) ==
    d = c \/ \E x \in c.in_cache \ d.in_cache : h[x] = 0 /\ d.usage + c.charge[x] > capacity

LEMMA EjectedNext ==
    ASSUME NEW c, NEW h \in Holding, Good(c, h), NEW d, Ejected(c, h, d), Len(d.lru) > 0
    PROVE  /\ Ejected(c, h, RemoveOldest(d)) /\ Len(RemoveOldest(d).lru) = Len(d.lru) - 1
           /\ d.usage > capacity => Tight(c, h, RemoveOldest(d))
  <1> DEFINE b == RemoveOldest(d)
             e == Head(d.lru)
  <1>1. /\ Good(d, h) /\ d.key = c.key /\ d.charge = c.charge
        /\ d.in_cache \subseteq c.in_cache /\ Suffix(c, d)
        /\ \A x \in c.in_cache : h[x] > 0 => x \in d.in_cache
        /\ d.usage <= c.usage
    BY DEF Ejected
  <1>2. /\ Good(b, h) /\ e \in d.in_cache /\ h[e] = 0 /\ e = d.lru[1]
        /\ b.key = d.key /\ b.charge = d.charge /\ b.in_cache = d.in_cache \ {e}
        /\ b.usage \in Int /\ d.usage \in Int /\ b.usage <= d.usage
        /\ d.charge[e] \in Nat /\ b.usage = d.usage - d.charge[e]
        /\ Len(b.lru) = Len(d.lru) - 1 /\ \A i \in 1 .. Len(b.lru) : b.lru[i] = d.lru[i + 1]
    BY <1>1, RemoveOldestOk
  <1>3. c.usage \in Int /\ Len(c.lru) \in Nat /\ Len(d.lru) \in Nat
    BY <1>1, Fields DEF Good
  <1> HIDE DEF b, e
  <1>4. Suffix(c, b)
    <2> DEFINE L == Len(c.lru)
               M == Len(d.lru)
    <2>1. M <= L /\ \A i \in 1 .. M : d.lru[i] = c.lru[i + (L - M)]
      BY <1>1 DEF Suffix
    <2>2. L \in Nat /\ M \in Nat /\ M > 0
      BY <1>3
    <2>3. Len(b.lru) = M - 1 /\ \A i \in 1 .. M - 1 : b.lru[i] = d.lru[i + 1]
      BY <1>2
    <2> HIDE DEF L, M
    <2>4. \A i \in 1 .. M - 1 : i + 1 \in 1 .. M /\ (i + 1) + (L - M) = i + (L - (M - 1))
      BY <2>2
    <2>5. M - 1 <= L /\ \A i \in 1 .. M - 1 : b.lru[i] = c.lru[i + (L - (M - 1))]
      BY <2>1, <2>2, <2>3, <2>4
    <2> QED BY <2>3, <2>5 DEF Suffix, L
  <1>5. b.usage <= c.usage
    <2>1. b.usage <= d.usage /\ d.usage <= c.usage /\ b.usage \in Int /\ d.usage \in Int
      BY <1>1, <1>2
    <2> QED BY <1>3, <2>1
  <1>6. \A x \in c.in_cache : h[x] > 0 => x \in b.in_cache
    BY <1>1, <1>2
  <1>7. Ejected(c, h, b)
    BY <1>1, <1>2, <1>4, <1>5, <1>6 DEF Ejected
  <1>8. ASSUME d.usage > capacity
        PROVE  Tight(c, h, b)
    <2>1. e \in c.in_cache \ b.in_cache /\ h[e] = 0
      BY <1>1, <1>2
    <2>2. b.usage + c.charge[e] > capacity
      <3>1. b.usage = d.usage - c.charge[e] /\ c.charge[e] \in Nat /\ d.usage \in Int
        BY <1>1, <1>2
      <3>2. b.usage + c.charge[e] = d.usage
        BY <3>1
      <3> QED BY <1>8, <3>2
    <2> QED BY <2>1, <2>2 DEF Tight
  <1> QED BY <1>2, <1>7, <1>8 DEF b

LEMMA MakeRoomOk ==
    ASSUME NEW c, NEW h \in Holding, Good(c, h)
    PROVE  LET d == MakeRoom(c)
           IN  Ejected(c, h, d) /\ Tight(c, h, d) /\ (d.usage <= capacity \/ Len(d.lru) = 0)
  <1> DEFINE L == Len(c.lru)
             Room(n, d) == Ejected(c, h, d) /\ Tight(c, h, d) /\ (d.usage <= capacity \/ Len(d.lru) = L - n)
             Inv == [n \in 0 .. L |-> {d \in IntState : Room(n, d)}]
             F == [p \in (0 .. L) \X IntState |->
                      IF p[2].usage > capacity THEN RemoveOldest(p[2]) ELSE p[2]]
             Loop(g) == g = [n \in 0 .. L |->
                                IF n = 0 THEN c
                                ELSE IF g[n - 1].usage > capacity
                                     THEN RemoveOldest(g[n - 1])
                                     ELSE g[n - 1]]
  <1>1. Ejected(c, h, c) /\ L \in Nat /\ c \in IntState
    BY EjectedFirst DEF Good
  <1>2. c \in Inv[0]
    <2>1. Len(c.lru) = L - 0 /\ 0 \in 0 .. L /\ Tight(c, h, c)
      BY <1>1 DEF Tight
    <2> QED BY <1>1, <2>1
  <1>3. ASSUME NEW n \in 1 .. L, NEW d \in Inv[n - 1]
        PROVE  /\ (IF d.usage > capacity THEN RemoveOldest(d) ELSE d) \in Inv[n]
               /\ d \in IntState /\ <<n, d>> \in (0 .. L) \X IntState
    <2>1. n - 1 \in 0 .. L /\ n \in 0 .. L
      BY <1>1
    <2>2. d \in IntState /\ Ejected(c, h, d) /\ Tight(c, h, d) /\ (d.usage <= capacity \/ Len(d.lru) = L - (n - 1))
      BY <2>1
    <2>3. d.usage \in Int /\ capacity \in Nat
      BY <2>2, Fields, Facts
    <2>4. CASE d.usage > capacity
      <3> DEFINE b == RemoveOldest(d)
      <3>1. Len(d.lru) = L - (n - 1) /\ Len(d.lru) > 0
        BY <1>1, <2>2, <2>3, <2>4
      <3>2. Ejected(c, h, b) /\ Tight(c, h, b) /\ Len(b.lru) = Len(d.lru) - 1
        BY <2>2, <2>4, <3>1, EjectedNext
      <3>3. b \in IntState
        BY <3>2 DEF Ejected, Good
      <3> HIDE DEF b
      <3>4. Len(b.lru) = L - n
        BY <1>1, <3>1, <3>2
      <3>5. b \in Inv[n]
        BY <2>1, <3>2, <3>3, <3>4
      <3> QED BY <2>1, <2>2, <2>4, <3>5 DEF b
    <2>5. CASE ~(d.usage > capacity)
      <3>1. d.usage <= capacity
        BY <2>3, <2>5
      <3>2. d \in Inv[n]
        BY <2>1, <2>2, <3>1
      <3> QED BY <2>1, <2>2, <2>5, <3>2
    <2> QED BY <2>4, <2>5
  <1>4. PICK g : Rounds(F, c, L, g)
    BY <1>1, LoopExists
  <1> HIDE DEF Inv, F
  <1>5. ASSUME NEW n \in 1 .. L, g[n - 1] \in Inv[n - 1]
        PROVE  /\ g[n] = IF g[n - 1].usage > capacity THEN RemoveOldest(g[n - 1]) ELSE g[n - 1]
               /\ g[n] \in Inv[n]
    <2> DEFINE d == g[n - 1]
    <2>1. g[n] = F[<<n, d>>]
      <3>1. n \in 0 .. L /\ n # 0
        BY <1>1
      <3> QED BY <1>4, <3>1 DEF Rounds
    <2>2. /\ (IF d.usage > capacity THEN RemoveOldest(d) ELSE d) \in Inv[n]
          /\ <<n, d>> \in (0 .. L) \X IntState
      BY <1>3, <1>5
    <2> HIDE DEF d
    <2>3. F[<<n, d>>] = IF d.usage > capacity THEN RemoveOldest(d) ELSE d
      BY <2>2 DEF F
    <2> QED BY <2>1, <2>2, <2>3 DEF d
  <1>6. g[0] = c /\ DOMAIN g = 0 .. L /\ g = [n \in 0 .. L |-> g[n]]
    BY <1>1, <1>4 DEF Rounds
  <1>7. \A n \in 0 .. L : g[n] \in Inv[n]
    BY <1>1, <1>2, <1>5, <1>6, Along
  <1>8. Loop(g)
    <2>1. \A n \in 0 .. L : n # 0 => n \in 1 .. L /\ n - 1 \in 0 .. L
      BY <1>1
    <2>2. \A n \in 0 .. L :
             g[n] = IF n = 0 THEN c
                    ELSE IF g[n - 1].usage > capacity THEN RemoveOldest(g[n - 1]) ELSE g[n - 1]
      BY <1>5, <1>6, <1>7, <2>1
    <2> QED BY <1>6, <2>2
  <1> DEFINE after == CHOOSE x : Loop(x)
  <1>9. Loop(after)
    BY <1>8
  <1>10. MakeRoom(c) = after[L]
    BY DEF MakeRoom
  <1> HIDE DEF after
  <1>11. after[0] = c
    BY <1>1, <1>9
  <1>12. ASSUME NEW n \in 1 .. L, after[n - 1] \in Inv[n - 1]
         PROVE  after[n] \in Inv[n]
    <2>1. after[n] = IF after[n - 1].usage > capacity THEN RemoveOldest(after[n - 1]) ELSE after[n - 1]
      BY <1>1, <1>9
    <2> QED BY <1>3, <1>12, <2>1
  <1> HIDE DEF Loop
  <1>13. after[L] \in Inv[L]
    <2>1. \A n \in 0 .. L : after[n] \in Inv[n]
      BY <1>1, <1>2, <1>11, <1>12, Along
    <2> QED BY <1>1, <2>1
  <1>14. Room(L, after[L])
    BY <1>1, <1>13 DEF Inv
  <1>15. L - L = 0
    BY <1>1
  <1> QED BY <1>10, <1>14, <1>15

LEMMA PrunedOk ==
    ASSUME NEW c, NEW h \in Holding, Good(c, h)
    PROVE  LET d == Pruned(c)
           IN  Ejected(c, h, d) /\ Len(d.lru) = 0
  <1> DEFINE L == Len(c.lru)
             Room(n, d) == Ejected(c, h, d) /\ Len(d.lru) = L - n
             Inv == [n \in 0 .. L |-> {d \in IntState : Room(n, d)}]
             F == [p \in (0 .. L) \X IntState |-> RemoveOldest(p[2])]
             Loop(g) == g = [n \in 0 .. L |-> IF n = 0 THEN c ELSE RemoveOldest(g[n - 1])]
  <1>1. Ejected(c, h, c) /\ L \in Nat /\ c \in IntState
    BY EjectedFirst DEF Good
  <1>2. c \in Inv[0]
    <2>1. Len(c.lru) = L - 0 /\ 0 \in 0 .. L
      BY <1>1
    <2> QED BY <1>1, <2>1
  <1>3. ASSUME NEW n \in 1 .. L, NEW d \in Inv[n - 1]
        PROVE  /\ RemoveOldest(d) \in Inv[n]
               /\ d \in IntState /\ <<n, d>> \in (0 .. L) \X IntState
    <2>1. n - 1 \in 0 .. L /\ n \in 0 .. L
      BY <1>1
    <2>2. d \in IntState /\ Ejected(c, h, d) /\ Len(d.lru) = L - (n - 1)
      BY <2>1
    <2> DEFINE b == RemoveOldest(d)
    <2>3. Len(d.lru) > 0
      BY <1>1, <2>2
    <2>4. Ejected(c, h, b) /\ Len(b.lru) = Len(d.lru) - 1
      BY <2>2, <2>3, EjectedNext
    <2>5. b \in IntState
      BY <2>4 DEF Ejected, Good
    <2> HIDE DEF b
    <2>6. Len(b.lru) = L - n
      BY <1>1, <2>2, <2>4
    <2>7. b \in Inv[n]
      BY <2>1, <2>4, <2>5, <2>6
    <2> QED BY <2>1, <2>2, <2>7 DEF b
  <1>4. PICK g : Rounds(F, c, L, g)
    BY <1>1, LoopExists
  <1> HIDE DEF Inv, F
  <1>5. ASSUME NEW n \in 1 .. L, g[n - 1] \in Inv[n - 1]
        PROVE  /\ g[n] = RemoveOldest(g[n - 1])
               /\ g[n] \in Inv[n]
    <2> DEFINE d == g[n - 1]
    <2>1. g[n] = F[<<n, d>>]
      <3>1. n \in 0 .. L /\ n # 0
        BY <1>1
      <3> QED BY <1>4, <3>1 DEF Rounds
    <2>2. /\ RemoveOldest(d) \in Inv[n]
          /\ <<n, d>> \in (0 .. L) \X IntState
      BY <1>3, <1>5
    <2> HIDE DEF d
    <2>3. F[<<n, d>>] = RemoveOldest(d)
      BY <2>2 DEF F
    <2> QED BY <2>1, <2>2, <2>3 DEF d
  <1>6. g[0] = c /\ DOMAIN g = 0 .. L /\ g = [n \in 0 .. L |-> g[n]]
    BY <1>1, <1>4 DEF Rounds
  <1>7. \A n \in 0 .. L : g[n] \in Inv[n]
    BY <1>1, <1>2, <1>5, <1>6, Along
  <1>8. Loop(g)
    <2>1. \A n \in 0 .. L : n # 0 => n \in 1 .. L /\ n - 1 \in 0 .. L
      BY <1>1
    <2>2. \A n \in 0 .. L :
             g[n] = IF n = 0 THEN c ELSE RemoveOldest(g[n - 1])
      BY <1>5, <1>6, <1>7, <2>1
    <2> QED BY <1>6, <2>2
  <1> DEFINE after == CHOOSE x : Loop(x)
  <1>9. Loop(after)
    BY <1>8
  <1>10. Pruned(c) = after[L]
    BY DEF Pruned
  <1> HIDE DEF after
  <1>11. after[0] = c
    BY <1>1, <1>9
  <1>12. ASSUME NEW n \in 1 .. L, after[n - 1] \in Inv[n - 1]
         PROVE  after[n] \in Inv[n]
    <2>1. after[n] = RemoveOldest(after[n - 1])
      BY <1>1, <1>9
    <2> QED BY <1>3, <1>12, <2>1
  <1> HIDE DEF Loop
  <1>13. after[L] \in Inv[L]
    <2>1. \A n \in 0 .. L : after[n] \in Inv[n]
      BY <1>1, <1>2, <1>11, <1>12, Along
    <2> QED BY <1>1, <2>1
  <1>14. Room(L, after[L])
    BY <1>1, <1>13 DEF Inv
  <1>15. L - L = 0
    BY <1>1
  <1> QED BY <1>10, <1>14, <1>15

LEMMA GoneOk ==
    ASSUME NEW d \in IntState, NEW h \in Holding, Lists(d, h), Total(d), NEW e \in d.in_cache
    PROVE  LET b == Unref([d EXCEPT !.in_cache = @ \ {e}], e)
           IN  /\ b \in IntState /\ Lists(b, h) /\ Total(b) /\ b.usage = d.usage /\ b.key = d.key
               /\ b.in_cache = d.in_cache \ {e} /\ b.lru = LRU_Remove(d.lru, e)
  <1> DEFINE u == d.usage
             b == Unref(Leaving(d, e, u), e)
  <1>1. u \in Int /\ e \in Entry /\ d.in_cache \in SUBSET Entry
    BY Fields
  <1>2. [d EXCEPT !.in_cache = @ \ {e}] = Leaving(d, e, u)
    BY DEF Leaving, IntState
  <1> HIDE DEF u
  <1>3. /\ b \in IntState /\ Lists(b, h) /\ Total(b)
        /\ b.key = d.key /\ b.charge = d.charge /\ b.in_cache = d.in_cache \ {e}
        /\ b.table = d.table /\ b.usage = u
        /\ b.refs = [d.refs EXCEPT ![e] = @ - 1] /\ b.lru = LRU_Remove(d.lru, e)
    BY <1>1, LeaveOk
  <1> HIDE DEF b
  <1> QED BY <1>2, <1>3 DEF b, u

LEMMA EmptiedOk ==
    ASSUME NEW c, NEW h \in Holding, Good(c, h)
    PROVE  LET d == Emptied(c)
           IN  /\ d \in IntState /\ Lists(d, h) /\ Total(d) /\ d.usage = c.usage /\ Len(d.lru) = 0
               /\ d.key = c.key /\ d.in_cache \subseteq c.in_cache
  <1> DEFINE L == Len(c.lru)
             Gone(d, e) == Unref([d EXCEPT !.in_cache = @ \ {e}], e)
             Room(n, d) == /\ Lists(d, h) /\ Total(d) /\ d.usage = c.usage /\ Len(d.lru) = L - n
                           /\ d.key = c.key /\ d.in_cache \subseteq c.in_cache
                           /\ \A i \in 1 .. L - n : d.lru[i] = c.lru[i + n]
             Inv == [n \in 0 .. L |-> {d \in IntState : Room(n, d)}]
             F == [p \in (0 .. L) \X IntState |-> Gone(p[2], c.lru[p[1]])]
             Loop(g) == g = [n \in 0 .. L |-> IF n = 0 THEN c ELSE Gone(g[n - 1], c.lru[n])]
  <1>1. L \in Nat /\ c \in IntState /\ Lists(c, h) /\ Total(c)
    BY EjectedFirst DEF Good
  <1>2. c \in Inv[0]
    <2>1. Len(c.lru) = L - 0 /\ 0 \in 0 .. L /\ \A i \in 1 .. L - 0 : c.lru[i] = c.lru[i + 0]
      BY <1>1
    <2> QED BY <1>1, <2>1
  <1>3. ASSUME NEW n \in 1 .. L, NEW d \in Inv[n - 1]
        PROVE  /\ Gone(d, c.lru[n]) \in Inv[n]
               /\ d \in IntState /\ <<n, d>> \in (0 .. L) \X IntState
    <2>1. n - 1 \in 0 .. L /\ n \in 0 .. L
      BY <1>1
    <2>2. /\ d \in IntState /\ Lists(d, h) /\ Total(d) /\ d.usage = c.usage
          /\ d.key = c.key /\ d.in_cache \subseteq c.in_cache
          /\ Len(d.lru) = L - (n - 1) /\ \A i \in 1 .. L - (n - 1) : d.lru[i] = c.lru[i + (n - 1)]
      BY <2>1
    <2> DEFINE e == c.lru[n]
               b == Unref([d EXCEPT !.in_cache = @ \ {e}], e)
    <2>3. d.usage \in Int /\ List(d.lru) /\ Range(d.lru) = {x \in d.in_cache : h[x] = 0}
      BY <2>2, Fields DEF Lists
    <2>4. Len(d.lru) > 0 /\ d.lru # <<>> /\ Len(d.lru) \in Nat
      BY <1>1, <2>2
    <2>5. e = Head(d.lru) /\ e \in Range(d.lru) /\ e \in Entry
      <3>1. Head(d.lru) = d.lru[1] /\ Head(d.lru) \in Range(d.lru) /\ Head(d.lru) \in Entry
        BY <2>3, <2>4, ListFacts
      <3>2. 1 \in 1 .. L - (n - 1) /\ 1 + (n - 1) = n
        BY <1>1
      <3> QED BY <2>2, <3>1, <3>2
    <2>6. /\ b \in IntState /\ Lists(b, h) /\ Total(b) /\ b.usage = d.usage /\ b.key = d.key
          /\ b.in_cache = d.in_cache \ {e}
          /\ Len(b.lru) = Len(d.lru) - 1 /\ \A i \in 1 .. Len(b.lru) : b.lru[i] = d.lru[i + 1]
      <3>1. LET r == LRU_Remove(d.lru, e)
            IN  Len(r) = Len(d.lru) - 1 /\ \A i \in 1 .. Len(r) : r[i] = d.lru[i + 1]
        BY <2>3, <2>4, <2>5, Unlinked
      <3>2. e \in d.in_cache
        BY <2>3, <2>5
      <3> HIDE DEF e, Inv
      <3>3. /\ b \in IntState /\ Lists(b, h) /\ Total(b) /\ b.usage = d.usage /\ b.key = d.key
            /\ b.in_cache = d.in_cache \ {e} /\ b.lru = LRU_Remove(d.lru, e)
        <4>1. d \in IntState /\ Lists(d, h) /\ Total(d)
          BY <2>2
        <4> QED BY <3>2, <4>1, GoneOk
      <3> HIDE DEF b
      <3> QED BY <3>1, <3>3
    <2>7. Gone(d, c.lru[n]) = b
      OBVIOUS
    <2> HIDE DEF e, b
    <2>9. Len(b.lru) = L - n /\ \A i \in 1 .. L - n : b.lru[i] = d.lru[i + 1]
      BY <1>1, <2>2, <2>6
    <2>10. \A i \in 1 .. L - n : i + 1 \in 1 .. L - (n - 1) /\ (i + 1) + (n - 1) = i + n
      BY <1>1
    <2>11. b \in Inv[n]
      <3>1. \A i \in 1 .. L - n : b.lru[i] = c.lru[i + n]
        BY <2>2, <2>9, <2>10
      <3> QED BY <2>1, <2>2, <2>6, <2>9, <3>1
    <2> QED BY <2>1, <2>2, <2>7, <2>11
  <1>4. PICK g : Rounds(F, c, L, g)
    BY <1>1, LoopExists
  <1> HIDE DEF Inv, F
  <1>5. ASSUME NEW n \in 1 .. L, g[n - 1] \in Inv[n - 1]
        PROVE  /\ g[n] = Gone(g[n - 1], c.lru[n])
               /\ g[n] \in Inv[n]
    <2> DEFINE d == g[n - 1]
    <2>1. g[n] = F[<<n, d>>]
      <3>1. n \in 0 .. L /\ n # 0
        BY <1>1
      <3> QED BY <1>4, <3>1 DEF Rounds
    <2>2. /\ Gone(d, c.lru[n]) \in Inv[n]
          /\ <<n, d>> \in (0 .. L) \X IntState
      BY <1>3, <1>5
    <2> HIDE DEF d
    <2>3. F[<<n, d>>] = Gone(d, c.lru[n])
      BY <2>2 DEF F
    <2> QED BY <2>1, <2>2, <2>3 DEF d
  <1>6. g[0] = c /\ DOMAIN g = 0 .. L /\ g = [n \in 0 .. L |-> g[n]]
    BY <1>1, <1>4 DEF Rounds
  <1>7. \A n \in 0 .. L : g[n] \in Inv[n]
    BY <1>1, <1>2, <1>5, <1>6, Along
  <1>8. Loop(g)
    <2>1. \A n \in 0 .. L : n # 0 => n \in 1 .. L /\ n - 1 \in 0 .. L
      BY <1>1
    <2>2. \A n \in 0 .. L :
             g[n] = IF n = 0 THEN c ELSE Gone(g[n - 1], c.lru[n])
      BY <1>5, <1>6, <1>7, <2>1
    <2> QED BY <1>6, <2>2
  <1> DEFINE after == CHOOSE x : Loop(x)
  <1>9. Loop(after)
    BY <1>8
  <1>10. Emptied(c) = after[L]
    BY DEF Emptied
  <1> HIDE DEF after
  <1>11. after[0] = c
    BY <1>1, <1>9
  <1>12. ASSUME NEW n \in 1 .. L, after[n - 1] \in Inv[n - 1]
         PROVE  after[n] \in Inv[n]
    <2>1. n \in 0 .. L /\ n # 0
      BY <1>1
    <2>2. after[n] = IF n = 0 THEN c ELSE Gone(after[n - 1], c.lru[n])
      <3> HIDE DEF Gone
      <3> QED BY <1>9, <2>1
    <2> QED BY <1>3, <1>12, <2>1, <2>2
  <1> HIDE DEF Loop
  <1>13. after[L] \in Inv[L]
    <2>1. \A n \in 0 .. L : after[n] \in Inv[n]
      BY <1>1, <1>2, <1>11, <1>12, Along
    <2> QED BY <1>1, <2>1
  <1>14. Room(L, after[L])
    BY <1>1, <1>13 DEF Inv
  <1>15. after[L] \in IntState
    BY <1>1, <1>13 DEF Inv
  <1>16. L - L = 0
    BY <1>1
  <1> QED BY <1>10, <1>14, <1>15, <1>16
-----------------------------------------------------------------------------
(***************************************************************************)
(* Insertion.                                                              *)
(***************************************************************************)
LEMMA SuffixOrder ==
    ASSUME NEW s, NEW t, List(s), List(t), Len(t) <= Len(s),
           \A i \in 1 .. Len(t) : t[i] = s[i + (Len(s) - Len(t))]
    PROVE  /\ Range(t) \subseteq Range(s)
           /\ \A p, q \in 1 .. Len(s) : p < q /\ s[q] \notin Range(t) => s[p] \notin Range(t)
  <1> DEFINE L == Len(s)
             M == Len(t)
             D == L - M
  <1>1. L \in Nat /\ M \in Nat /\ D \in Nat /\ L = M + D
    BY ListFacts
  <1>2. /\ \A x : x \in Range(s) <=> \E i \in 1 .. L : s[i] = x
        /\ \A x : x \in Range(t) <=> \E i \in 1 .. M : t[i] = x
    BY ListFacts
  <1>3. \A i \in 1 .. M : t[i] = s[i + D]
    OBVIOUS
  <1>4. \A i, j \in 1 .. L : s[i] = s[j] => i = j
    BY DEF List
  <1> HIDE DEF L, M, D
  <1>5. \A i \in 1 .. M : i + D \in 1 .. L /\ i + D > D
    BY <1>1
  <1>6. Range(t) \subseteq Range(s)
    BY <1>2, <1>3, <1>5
  <1>7. ASSUME NEW p \in 1 .. L, NEW q \in 1 .. L, p < q, s[q] \notin Range(t), s[p] \in Range(t)
        PROVE  FALSE
    <2>1. PICK m \in 1 .. M : t[m] = s[p]
      BY <1>2, <1>7
    <2>2. s[m + D] = s[p] /\ m + D \in 1 .. L
      BY <1>3, <1>5, <2>1
    <2>3. p = m + D
      BY <1>4, <2>2
    <2>4. q - D \in 1 .. M /\ (q - D) + D = q
      BY <1>1, <1>7, <2>3
    <2>5. t[q - D] = s[q]
      BY <1>3, <2>4
    <2> QED BY <1>2, <1>7, <2>4, <2>5
  <1> QED BY <1>6, <1>7 DEF L

LEMMA Idle ==
    ASSUME NEW c, NEW h \in Holding, Good(c, h), NEW x \in Entry, h[x] = 0
    PROVE  c.refs[x] = 0 <=> x \notin Range(c.lru)
  <1>1. /\ c.refs[x] = h[x] + (IF x \in c.in_cache THEN 1 ELSE 0)
        /\ Range(c.lru) = {y \in c.in_cache : h[y] = 0}
    BY DEF Good, Lists
  <1>2. x \in Range(c.lru) <=> x \in c.in_cache
    BY <1>1
  <1> QED BY <1>1, <1>2

\* What an insertion does to a cache c: d is what it leaves, and the entries that were
\* idle in c are evicted oldest first.
InOrder(c, d, k) ==
    \A i, j \in 1 .. Len(c.lru) :
        i < j /\ c.key[c.lru[j]] # k /\ d.refs[c.lru[j]] = 0 => d.refs[c.lru[i]] = 0

\* What stays in the cache when an entry is put under the key k.
Kept(c, k) == c.in_cache \ {c.table[k]}

\* f is c with e under the key k, after others have made room for it.
Roomed(c, h, k, e, f) ==
    /\ Good(f, h) /\ e \in f.in_cache /\ f.table[k] = e
    /\ f.key = c.key /\ f.charge = c.charge
    /\ f.usage <= c.usage + c.charge[e]
    /\ f.usage <= capacity \/ Len(f.lru) = 0
    /\ f.in_cache \subseteq Kept(c, k) \cup {e}
    /\ \/ f.in_cache = Kept(c, k) \cup {e}
       \/ \E x \in Kept(c, k) \ f.in_cache : h[x] = 0 /\ f.usage + c.charge[x] > capacity
    /\ \A i, j \in 1 .. Len(c.lru) :
          i < j /\ c.key[c.lru[j]] # k /\ c.lru[j] \notin Range(f.lru)
             => c.lru[i] \notin Range(f.lru)

LEMMA AddedOk ==
    ASSUME NEW c, NEW h \in Holding, Good(c, h), NEW k \in Key, NEW e \in Entry,
           e \notin c.in_cache, h[e] > 0, c.key[e] = k
    PROVE  Roomed(c, h, k, e, MakeRoom(AddEntry(c, k, e)))
  <1> DEFINE a == AddEntry(c, k, e)
             f == MakeRoom(a)
             o == c.table[k]
  <1>1. /\ Good(a, h) /\ a.key = c.key /\ a.charge = c.charge /\ e \in a.in_cache
        /\ o = NULL => /\ a.in_cache = c.in_cache \cup {e} /\ a.lru = c.lru
                       /\ a.usage = c.usage + c.charge[e]
        /\ o # NULL => /\ o \in c.in_cache /\ o # e /\ c.key[o] = k
                       /\ a.in_cache = (c.in_cache \cup {e}) \ {o}
                       /\ a.lru = LRU_Remove(c.lru, o)
                       /\ a.usage = c.usage + c.charge[e] - c.charge[o]
    <2>1. Added(c, h, k, e, a)
      BY AddEntryOk
    <2> HIDE DEF a
    <2> QED BY <2>1 DEF Added
  <1> HIDE DEF a
  <1>2. Ejected(a, h, f) /\ Tight(a, h, f) /\ (f.usage <= capacity \/ Len(f.lru) = 0)
    BY <1>1, MakeRoomOk
  <1>12. Kept(c, k) = c.in_cache \ {o}
    BY DEF Kept
  <1> HIDE DEF f, o
  <1>3. /\ Good(f, h) /\ f.key = a.key /\ f.charge = a.charge
        /\ f.in_cache \subseteq a.in_cache /\ Suffix(a, f)
        /\ \A x \in a.in_cache : h[x] > 0 => x \in f.in_cache
        /\ f.usage <= a.usage
    BY <1>2 DEF Ejected
  <1>4. e \in f.in_cache /\ f.table[k] = e
    <2>1. e \in f.in_cache
      BY <1>1, <1>3
    <2>2. f.key[e] = k
      BY <1>1, <1>3
    <2>3. TableHas(f, f.in_cache)
      BY <1>3 DEF Good
    <2> QED BY <2>1, <2>2, <2>3 DEF TableHas
  <1>5. /\ f.usage \in Int /\ a.usage \in Int /\ c.usage \in Int /\ c.charge \in [Entry -> Nat]
        /\ c.charge[e] \in Nat /\ c.in_cache \in SUBSET Entry
    BY <1>1, <1>3, Fields DEF Good
  <1>6. f.usage <= c.usage + c.charge[e]
    <2>1. CASE o = NULL
      BY <1>1, <1>3, <2>1
    <2>2. CASE o # NULL
      <3>1. c.charge[o] \in Nat /\ a.usage = c.usage + c.charge[e] - c.charge[o]
        BY <1>1, <1>5, <2>2
      <3>2. f.usage <= a.usage
        BY <1>3
      <3> QED BY <1>5, <3>1, <3>2
    <2> QED BY <2>1, <2>2
  <1>7. a.in_cache = Kept(c, k) \cup {e}
    <2>1. CASE o = NULL
      BY <1>1, <1>5, <1>12, <2>1, Facts
    <2>2. CASE o # NULL
      BY <1>1, <1>12, <2>2
    <2> QED BY <2>1, <2>2
  <1>8. /\ f.in_cache \subseteq Kept(c, k) \cup {e}
        /\ \/ f.in_cache = Kept(c, k) \cup {e}
           \/ \E x \in Kept(c, k) \ f.in_cache : h[x] = 0 /\ f.usage + c.charge[x] > capacity
    <2>1. CASE f = a
      BY <1>7, <2>1
    <2>2. CASE \E x \in a.in_cache \ f.in_cache : h[x] = 0 /\ f.usage + a.charge[x] > capacity
      <3>1. PICK x \in a.in_cache \ f.in_cache : h[x] = 0 /\ f.usage + a.charge[x] > capacity
        BY <2>2
      <3>2. x \in Kept(c, k) \ f.in_cache
        BY <1>4, <1>7, <3>1
      <3>3. f.usage + c.charge[x] > capacity
        BY <1>1, <3>1
      <3> QED BY <1>3, <1>7, <3>1, <3>2, <3>3
    <2> QED BY <1>2, <2>1, <2>2 DEF Tight
  <1>9. ASSUME NEW i \in 1 .. Len(c.lru), NEW j \in 1 .. Len(c.lru), i < j,
               c.key[c.lru[j]] # k, c.lru[j] \notin Range(f.lru)
        PROVE  c.lru[i] \notin Range(f.lru)
    <2>1. List(a.lru) /\ List(f.lru) /\ List(c.lru)
      BY <1>1, <1>3 DEF Good, Lists
    <2>2. /\ Range(f.lru) \subseteq Range(a.lru)
          /\ \A p, q \in 1 .. Len(a.lru) :
                p < q /\ a.lru[q] \notin Range(f.lru) => a.lru[p] \notin Range(f.lru)
      <3>1. /\ Len(f.lru) <= Len(a.lru)
            /\ \A m \in 1 .. Len(f.lru) : f.lru[m] = a.lru[m + (Len(a.lru) - Len(f.lru))]
        BY <1>3 DEF Suffix
      <3> QED BY <2>1, <3>1, SuffixOrder
    <2>3. CASE o = NULL
      BY <1>1, <1>9, <2>2, <2>3
    <2>4. CASE o # NULL
      <3>1. o \in Entry /\ a.lru = LRU_Remove(c.lru, o) /\ c.lru[j] # o
        BY <1>1, <1>5, <1>9, <2>4
      <3>2. /\ Range(a.lru) = Range(c.lru) \ {o}
            /\ \A x, y \in 1 .. Len(c.lru) :
                  x < y /\ c.lru[x] # o /\ c.lru[y] # o =>
                     \E p, q \in 1 .. Len(a.lru) : p < q /\ a.lru[p] = c.lru[x] /\ a.lru[q] = c.lru[y]
        <4> DEFINE r == LRU_Remove(c.lru, o)
        <4>1. /\ Range(r) = Range(c.lru) \ {o}
              /\ \A x, y \in 1 .. Len(c.lru) :
                    x < y /\ c.lru[x] # o /\ c.lru[y] # o =>
                       \E p, q \in 1 .. Len(r) : p < q /\ r[p] = c.lru[x] /\ r[q] = c.lru[y]
          <5>1. o \in Entry /\ List(c.lru)
            BY <2>1, <3>1
          <5> QED BY <5>1, Unlinked, ZenonT(60)
        <4> HIDE DEF r
        <4>2. a.lru = r
          BY <3>1 DEF r
        <4> QED BY <4>1, <4>2
      <3>3. CASE c.lru[i] = o
        BY <2>2, <3>2, <3>3
      <3>4. CASE c.lru[i] # o
        <4>1. PICK p \in 1 .. Len(a.lru), q \in 1 .. Len(a.lru) :
                      p < q /\ a.lru[p] = c.lru[i] /\ a.lru[q] = c.lru[j]
          BY <1>9, <3>1, <3>2, <3>4
        <4> QED BY <1>9, <2>2, <4>1
      <3> QED BY <3>3, <3>4
    <2> QED BY <2>3, <2>4
  <1>10. Good(f, h) /\ f.key = c.key /\ f.charge = c.charge
    BY <1>1, <1>3
  <1>11. Roomed(c, h, k, e, f)
    BY <1>2, <1>4, <1>6, <1>8, <1>9, <1>10 DEF Roomed
  <1> QED BY <1>11 DEF f, a

\* F was to be in the cache with e: all that was there, or less because an idle entry
\* had to go; and F is in the cache, unless it is still too much for it.
Fits(c, h, k, e, d) ==
    \E F \in SUBSET (Kept(c, k) \cup {e}) :
        /\ e \in F
        /\ \/ F = Kept(c, k) \cup {e}
           \/ \E x \in Kept(c, k) \ F :
                 h[x] = 0 /\ ChargeOf(d.charge, F) + d.charge[x] > capacity
        /\ \/ ChargeOf(d.charge, F) <= capacity /\ d.in_cache = F
           \/ /\ ChargeOf(d.charge, F) > capacity /\ d.in_cache = F \ {e}
              /\ \A y \in F \ {e} : h[y] > 0

Insertion(c, h, k, e, ch, d) ==
    /\ Good(d, More(h, e)) /\ d.usage <= capacity /\ InOrder(c, d, k)
    /\ d.key = [c.key EXCEPT ![e] = k] /\ d.charge = [c.charge EXCEPT ![e] = ch]
    /\ capacity = 0 => d.in_cache = c.in_cache
    /\ capacity # 0 => Fits(c, h, k, e, d)

LEMMA InsertedOk ==
    ASSUME NEW c, NEW h \in Holding, Good(c, h), c.usage <= capacity, NEW k \in Key,
           NEW e \in Entry, c.refs[e] = 0, NEW ch \in Nat
    PROVE  Insertion(c, h, k, e, ch, Inserted(c, k, e, ch))
  <1> DEFINE n == NewEntry(c, k, e, ch)
             g == More(h, e)
             f == MakeRoom(AddEntry(n, k, e))
             d == Inserted(c, k, e, ch)
  <1>1. /\ Good(n, g) /\ h[e] = 0 /\ e \notin c.in_cache
        /\ n.key = [c.key EXCEPT ![e] = k] /\ n.charge = [c.charge EXCEPT ![e] = ch]
        /\ n.refs = [c.refs EXCEPT ![e] = 1]
        /\ n.in_cache = c.in_cache /\ n.table = c.table /\ n.usage = c.usage
        /\ n.lru = c.lru
    BY NewEntryOk DEF MadeNew
  <1>2. /\ g \in Holding /\ g[e] > 0 /\ \A x \in Entry \ {e} : g[x] = h[x]
    BY MoreOk
  <1>3. d = IF capacity = 0 THEN n
            ELSE IF f.usage > capacity THEN RemoveKey(f, k) ELSE f
    BY DEF Inserted
  <1>4. /\ c \in IntState /\ c.key \in [Entry -> Key] /\ c.charge \in [Entry -> Nat]
        /\ c.usage \in Int /\ capacity \in Nat
        /\ List(c.lru) /\ Range(c.lru) = {x \in c.in_cache : h[x] = 0}
        /\ c.in_cache \in SUBSET Entry /\ c.refs \in [Entry -> Nat]
    BY Fields, Facts DEF Good, Lists
  <1> HIDE DEF n, g, d
  <1>5. n.key[e] = k /\ n.charge[e] = ch /\ \A x \in Entry \ {e} : n.key[x] = c.key[x]
    BY <1>1, <1>4
  <1>6. ASSUME NEW i \in 1 .. Len(c.lru)
        PROVE  /\ c.lru[i] \in Range(c.lru) /\ c.lru[i] \in Entry \ {e}
               /\ h[c.lru[i]] = 0 /\ g[c.lru[i]] = 0 /\ n.key[c.lru[i]] = c.key[c.lru[i]]
    <2>1. c.lru[i] \in Range(c.lru)
      BY <1>4, ListFacts
    <2>2. c.lru[i] \in Entry \ {e} /\ h[c.lru[i]] = 0
      BY <1>1, <1>4, <2>1
    <2> QED BY <1>2, <1>5, <2>1, <2>2
  <1>7. CASE capacity = 0
    <2>1. d = n
      BY <1>3, <1>7
    <2>2. InOrder(c, d, k)
      <3> SUFFICES ASSUME NEW j \in 1 .. Len(c.lru), d.refs[c.lru[j]] = 0
                   PROVE  FALSE
        BY DEF InOrder
      <3>1. n.refs[c.lru[j]] = c.refs[c.lru[j]]
        BY <1>1, <1>4, <1>6
      <3>2. c.lru[j] \in Entry /\ h[c.lru[j]] = 0 /\ c.lru[j] \in Range(c.lru) /\ c.refs[c.lru[j]] = 0
        BY <1>6, <2>1, <3>1
      <3> DEFINE x == c.lru[j]
      <3> HIDE DEF x
      <3>3. x \in Entry /\ h[x] = 0 /\ x \in Range(c.lru) /\ c.refs[x] = 0
        BY <3>2 DEF x
      <3> QED BY <3>3, Idle
    <2>3. Insertion(c, h, k, e, ch, d)
      BY <1>1, <1>7, <2>1, <2>2 DEF Insertion, g
    <2> QED BY <2>3 DEF d
  <1>8. CASE capacity # 0
    <2>1. /\ Good(f, g) /\ e \in f.in_cache /\ f.table[k] = e
          /\ f.key = n.key /\ f.charge = n.charge
          /\ f.usage <= n.usage + n.charge[e]
          /\ f.usage <= capacity \/ Len(f.lru) = 0
          /\ f.in_cache \subseteq Kept(n, k) \cup {e}
          /\ \/ f.in_cache = Kept(n, k) \cup {e}
             \/ \E x \in Kept(n, k) \ f.in_cache : g[x] = 0 /\ f.usage + n.charge[x] > capacity
          /\ \A i, j \in 1 .. Len(n.lru) :
                i < j /\ n.key[n.lru[j]] # k /\ n.lru[j] \notin Range(f.lru)
                   => n.lru[i] \notin Range(f.lru)
      <3>1. Roomed(n, g, k, e, f)
        <4>1. Good(n, g) /\ e \notin n.in_cache /\ g \in Holding /\ g[e] > 0 /\ n.key[e] = k
          BY <1>1, <1>2, <1>5
        <4> QED BY <4>1, AddedOk
      <3> HIDE DEF f
      <3> QED BY <3>1 DEF Roomed
    <2> HIDE DEF f
    <2>2. f.usage \in Int /\ f \in IntState
      BY <2>1, Fields DEF Good
    <2>3. /\ Good(d, g) /\ d.usage <= capacity /\ Range(d.lru) = Range(f.lru)
          /\ d.key = f.key /\ d.charge = f.charge
          /\ \/ f.usage <= capacity /\ d.in_cache = f.in_cache
             \/ f.usage > capacity /\ d.in_cache = f.in_cache \ {e}
      <3>1. CASE f.usage > capacity
        <4>1. d = RemoveKey(f, k) /\ f.table[k] # NULL
          BY <1>3, <1>8, <2>1, <3>1, Facts
        <4> DEFINE b == RemoveKey(f, k)
                   o == f.table[k]
        <4>2. /\ Good(b, g) /\ b.usage = f.usage - f.charge[o] /\ b.lru = LRU_Remove(f.lru, o)
              /\ b.key = f.key /\ b.charge = f.charge /\ b.in_cache = f.in_cache \ {o}
          <5>1. g \in Holding /\ Good(f, g) /\ f.table[k] # NULL
            BY <1>2, <2>1, <4>1
          <5>2. KeyRemoved(f, g, k, b)
            BY <5>1, RemoveKeyOk
          <5> HIDE DEF b
          <5> QED BY <5>2 DEF KeyRemoved
        <4>3. o = e /\ b = d /\ f.charge[e] = ch
          BY <1>5, <2>1, <4>1
        <4> HIDE DEF b, o
        <4>4. d.usage = f.usage - ch
          BY <4>2, <4>3
        <4>5. f.usage <= c.usage + ch
          BY <1>1, <1>5, <2>1
        <4>6. e \notin Range(f.lru)
          BY <1>2, <2>1 DEF Good, Lists
        <4>7. LRU_Remove(f.lru, e) = f.lru
          BY <4>6 DEF LRU_Remove
        <4>8. d.usage <= capacity
          BY <1>4, <2>2, <4>4, <4>5
        <4> QED BY <3>1, <4>2, <4>3, <4>7, <4>8
      <3>2. CASE ~(f.usage > capacity)
        <4>1. d = f /\ f.usage <= capacity
          BY <1>3, <1>4, <1>8, <2>2, <3>2
        <4> QED BY <2>1, <4>1
      <3> QED BY <3>1, <3>2
    <2>4. InOrder(c, d, k)
      <3> SUFFICES ASSUME NEW i \in 1 .. Len(c.lru), NEW j \in 1 .. Len(c.lru), i < j,
                          c.key[c.lru[j]] # k, d.refs[c.lru[j]] = 0
                   PROVE  d.refs[c.lru[i]] = 0
        BY DEF InOrder
      <3> DEFINE x == c.lru[i]
                 y == c.lru[j]
      <3>1. x \in Entry /\ g[x] = 0 /\ y \in Entry /\ g[y] = 0 /\ n.key[y] # k
        BY <1>6
      <3>2. y \notin Range(f.lru) => x \notin Range(f.lru)
        BY <1>1, <2>1, <3>1
      <3>3. d.refs[y] = 0
        OBVIOUS
      <3> HIDE DEF x, y
      <3>4. /\ d.refs[x] = 0 <=> x \notin Range(d.lru)
            /\ d.refs[y] = 0 <=> y \notin Range(d.lru)
        BY <1>2, <2>3, <3>1, Idle
      <3>5. d.refs[x] = 0
        BY <2>3, <3>2, <3>3, <3>4
      <3> QED BY <3>5 DEF x
    <2>5. d.key = [c.key EXCEPT ![e] = k] /\ d.charge = [c.charge EXCEPT ![e] = ch]
      BY <1>1, <2>1, <2>3
    <2>6. Fits(c, h, k, e, d)
      <3> DEFINE F == f.in_cache
                 K == Kept(c, k)
      <3>1. K = Kept(n, k) /\ K \subseteq c.in_cache
        BY <1>1 DEF Kept
      <3>2. f.usage = ChargeOf(d.charge, F)
        BY <2>1, <2>3 DEF Good, Usage
      <3>3. \A x \in K : x \in Entry \ {e} /\ g[x] = h[x] /\ d.charge[x] = n.charge[x]
        BY <1>1, <1>2, <1>4, <2>1, <2>3, <3>1
      <3>4. F \in SUBSET (K \cup {e}) /\ e \in F
        BY <2>1, <3>1
      <3>5. \/ F = K \cup {e}
            \/ \E x \in K \ F : h[x] = 0 /\ ChargeOf(d.charge, F) + d.charge[x] > capacity
        BY <2>1, <3>1, <3>2, <3>3
      <3>6. ASSUME f.usage > capacity, NEW y \in F \ {e}
            PROVE  h[y] > 0
        <4>1. Len(f.lru) = 0
          BY <1>4, <2>1, <2>2, <3>6
        <4>2. List(f.lru) /\ Range(f.lru) = {x \in f.in_cache : g[x] = 0}
          BY <2>1 DEF Good, Lists
        <4>3. Range(f.lru) = {}
          BY <4>1, <4>2, ListFacts
        <4>4. y \in K /\ g[y] # 0
          BY <3>4, <3>6, <4>2, <4>3
        <4>5. h[y] # 0 /\ h[y] \in Nat
          BY <3>3, <4>4 DEF Holding
        <4> QED BY <4>5
      <3> HIDE DEF F, K
      <3>7. \/ ChargeOf(d.charge, F) <= capacity /\ d.in_cache = F
            \/ /\ ChargeOf(d.charge, F) > capacity /\ d.in_cache = F \ {e}
               /\ \A y \in F \ {e} : h[y] > 0
        BY <2>3, <3>2, <3>6 DEF F
      <3> QED BY <3>4, <3>5, <3>7 DEF Fits, K
    <2>7. Insertion(c, h, k, e, ch, d)
      BY <1>8, <2>3, <2>4, <2>5, <2>6 DEF Insertion, g
    <2> QED BY <2>7 DEF d
  <1> QED BY <1>7, <1>8
-----------------------------------------------------------------------------
(***************************************************************************)
(* The invariant of the specification.                                     *)
(***************************************************************************)
InvOf(c, h, o) ==
    /\ c \in IntState /\ h \in [Entry -> 0 .. MaxHeld] /\ o \in BOOLEAN
    /\ Lists(c, h) /\ Total(c) /\ c.usage \in Nat /\ c.usage <= capacity
    /\ o => Usage(c) /\ TableHas(c, c.in_cache)

CacheInv == InvOf(cache, held, open)

LEMMA OpenGood ==
    ASSUME NEW c, NEW h, InvOf(c, h, TRUE)
    PROVE  Good(c, h) /\ h \in Holding /\ c.usage <= capacity /\ c \in IntState
  BY Facts DEF InvOf, Good, Holding

LEMMA GoodOpen ==
    ASSUME NEW c, NEW h \in [Entry -> 0 .. MaxHeld], Good(c, h), c.usage <= capacity
    PROVE  InvOf(c, h, TRUE)
  <1>1. c \in IntState /\ Lists(c, h) /\ Total(c) /\ Usage(c) /\ TableHas(c, c.in_cache)
    BY DEF Good
  <1>2. c.charge \in [Entry -> Nat] /\ c.in_cache \in SUBSET Entry
    BY <1>1, Fields
  <1>3. c.usage \in Nat
    BY <1>1, <1>2, UnitsFinite DEF Usage
  <1> QED BY <1>1, <1>3 DEF InvOf

LEMMA InitOk == Init => CacheInv
  <1> SUFFICES ASSUME Init PROVE CacheInv
    OBVIOUS
  <1> DEFINE a == CHOOSE k \in Key : TRUE
  <1>1. a \in Key
    BY LRUCacheAssumption
  <1> HIDE DEF a
  <1>2. /\ cache.key = [e \in Entry |-> a] /\ cache.charge = [e \in Entry |-> 0]
        /\ cache.refs = [e \in Entry |-> 0] /\ cache.in_cache = {}
        /\ cache.table = [k \in Key |-> NULL] /\ cache.in_use = {} /\ cache.lru = <<>>
        /\ cache.usage = 0 /\ cache.total = 0
    BY DEF Init, a
  <1>3. cache \in IntState
    BY <1>1 DEF Init, IntState, a
  <1>4. held = [e \in Entry |-> 0] /\ open = TRUE
    BY DEF Init
  <1>5. held \in [Entry -> 0 .. MaxHeld]
    BY <1>4, Facts
  <1>6. List(<<>>) /\ Range(<<>>) = {}
    <2>1. List(<<>>)
      BY DEF List
    <2> QED BY <2>1, ListFacts
  <1>7. Lists(cache, held)
    BY <1>2, <1>4, <1>6 DEF Lists
  <1>8. Alive(cache) = {}
    BY <1>2 DEF Alive
  <1>9. Total(cache) /\ Usage(cache)
    BY <1>2, <1>8, NoSum DEF Total, Usage
  <1>10. TableHas(cache, cache.in_cache)
    BY <1>2 DEF TableHas
  <1> QED BY <1>2, <1>3, <1>4, <1>5, <1>7, <1>9, <1>10, Facts DEF CacheInv, InvOf

LEMMA HoldOk ==
    ASSUME NEW e \in Entry, held \in [Entry -> 0 .. MaxHeld], Hold(e)
    PROVE  held' = More(held, e) /\ held' \in [Entry -> 0 .. MaxHeld]
  <1>1. held' = [held EXCEPT ![e] = @ + 1] /\ held[e] < MaxHeld
    BY DEF Hold
  <1>2. held[e] + 1 \in 0 .. MaxHeld
    BY <1>1, Facts
  <1> QED BY <1>1, <1>2 DEF More

\* The operations on an open cache.
LEMMA InsertOk ==
    ASSUME CacheInv, NEW k \in Key, NEW e \in Entry, NEW ch \in Charge, Insert(k, e, ch)
    PROVE  CacheInv' /\ InOrder(cache, cache', k)
  <1>1. /\ open /\ open' = open /\ e \notin Live
        /\ cache' = Inserted(cache, k, e, ch) /\ Hold(e)
    BY DEF Insert
  <1>2. InvOf(cache, held, TRUE) /\ open = TRUE
    BY <1>1 DEF CacheInv, InvOf
  <1>3. Good(cache, held) /\ held \in Holding /\ cache.usage <= capacity /\ cache \in IntState
    BY <1>2, OpenGood
  <1>4. cache.refs[e] = 0 /\ ch \in Nat
    BY <1>1, <1>3, Fields, Facts DEF Live
  <1>5. held' = More(held, e) /\ held' \in [Entry -> 0 .. MaxHeld]
    BY <1>1, <1>2, HoldOk DEF InvOf
  <1> DEFINE d == Inserted(cache, k, e, ch)
  <1>6. Good(d, More(held, e)) /\ d.usage <= capacity /\ InOrder(cache, d, k)
    <2>1. Insertion(cache, held, k, e, ch, d)
      BY <1>3, <1>4, InsertedOk
    <2> HIDE DEF d
    <2> QED BY <2>1 DEF Insertion
  <1> HIDE DEF d
  <1>7. cache' = d /\ open' = TRUE
    BY <1>1, <1>2 DEF d
  <1>8. InvOf(d, held', TRUE)
    BY <1>5, <1>6, GoodOpen
  <1> QED BY <1>6, <1>7, <1>8 DEF CacheInv

LEMMA AddingRef ==
    ASSUME CacheInv, open, open' = open, NEW e \in Entry, cache.refs[e] > 0,
           cache' = AddRef(cache, e), Hold(e)
    PROVE  CacheInv'
  <1>2. InvOf(cache, held, TRUE) /\ open = TRUE
    BY DEF CacheInv, InvOf
  <1>3. Good(cache, held) /\ held \in Holding /\ cache.usage <= capacity /\ cache \in IntState
    BY <1>2, OpenGood
  <1>5. held' = More(held, e) /\ held' \in [Entry -> 0 .. MaxHeld]
    BY <1>2, HoldOk DEF InvOf
  <1> DEFINE d == AddRef(cache, e)
  <1>6. Good(d, More(held, e)) /\ d.usage = cache.usage
    BY <1>3, AddRefOk
  <1> HIDE DEF d
  <1>7. cache' = d /\ open' = TRUE
    BY <1>2 DEF d
  <1>8. InvOf(d, held', TRUE)
    BY <1>3, <1>5, <1>6, GoodOpen
  <1> QED BY <1>7, <1>8 DEF CacheInv

LEMMA InTable ==
    ASSUME NEW c, NEW h \in Holding, Good(c, h), NEW k \in Key, c.table[k] # NULL
    PROVE  c.table[k] \in Entry /\ c.refs[c.table[k]] > 0
  <1> DEFINE e == c.table[k]
  <1>1. c \in IntState /\ Lists(c, h) /\ TableHas(c, c.in_cache)
    BY DEF Good
  <1>2. e \in c.in_cache
    BY <1>1 DEF TableHas
  <1>3. e \in Entry
    BY <1>1, <1>2, Fields
  <1> HIDE DEF e
  <1>4. c.refs[e] = h[e] + 1 /\ h[e] \in Nat
    BY <1>1, <1>2, <1>3 DEF Lists, Holding
  <1>5. c.refs[e] > 0
    BY <1>4
  <1> QED BY <1>3, <1>5 DEF e

LEMMA RemovingKey ==
    ASSUME CacheInv, open, open' = open, NEW k \in Key, cache.table[k] # NULL,
           cache' = RemoveKey(cache, k), held' = held
    PROVE  CacheInv'
  <1>2. InvOf(cache, held, TRUE) /\ open = TRUE
    BY DEF CacheInv, InvOf
  <1>3. Good(cache, held) /\ held \in Holding /\ cache.usage <= capacity /\ cache \in IntState
    BY <1>2, OpenGood
  <1> DEFINE d == RemoveKey(cache, k)
  <1>4. KeyRemoved(cache, held, k, d)
    BY <1>3, RemoveKeyOk
  <1>5. cache' = d /\ open' = TRUE /\ held' = held
    BY <1>2
  <1> HIDE DEF d
  <1> DEFINE e == cache.table[k]
  <1>6. Good(d, held) /\ e \in cache.in_cache /\ d.usage = cache.usage - cache.charge[e]
    BY <1>4 DEF KeyRemoved
  <1>7. cache.charge \in [Entry -> Nat] /\ cache.in_cache \in SUBSET Entry /\ cache.usage \in Int
    BY <1>3, Fields
  <1> HIDE DEF e
  <1>8. d.usage <= capacity
    <2>1. cache.charge[e] \in Nat
      BY <1>6, <1>7
    <2> QED BY <1>3, <1>6, <1>7, <2>1, Facts
  <1>9. InvOf(d, held, TRUE)
    BY <1>2, <1>6, <1>8, GoodOpen DEF InvOf
  <1> QED BY <1>5, <1>9 DEF CacheInv

LEMMA Releasing ==
    ASSUME CacheInv, NEW e \in Entry, Release(e)
    PROVE  CacheInv'
  <1>1. /\ open /\ open' = open /\ held[e] > 0
        /\ cache' = Unref(cache, e) /\ held' = Less(held, e)
    BY DEF Release, Less
  <1>2. InvOf(cache, held, TRUE) /\ open = TRUE
    BY <1>1 DEF CacheInv, InvOf
  <1>3. Good(cache, held) /\ held \in Holding /\ cache.usage <= capacity /\ cache \in IntState
    BY <1>2, OpenGood
  <1>4. held' \in [Entry -> 0 .. MaxHeld]
    <2>1. held \in [Entry -> 0 .. MaxHeld] /\ held[e] - 1 \in 0 .. MaxHeld
      BY <1>1, <1>2, Facts DEF InvOf
    <2> QED BY <1>1, <2>1 DEF Less
  <1> DEFINE d == Unref(cache, e)
  <1>5. Good(d, Less(held, e)) /\ d.usage = cache.usage
    <2>1. Released(cache, held, e, d)
      <3>1. held[e] > 0
        BY <1>1
      <3> QED BY <1>3, <3>1, ReleaseOk
    <2> HIDE DEF d
    <2> QED BY <2>1 DEF Released
  <1> HIDE DEF d
  <1>6. cache' = d /\ open' = TRUE
    BY <1>1, <1>2 DEF d
  <1>7. InvOf(d, held', TRUE)
    BY <1>1, <1>3, <1>4, <1>5, GoodOpen
  <1> QED BY <1>6, <1>7 DEF CacheInv

LEMMA Erasing ==
    ASSUME CacheInv, NEW e \in Entry, EraseEntry(e)
    PROVE  CacheInv'
  <1>1. /\ open /\ open' = open /\ held' = held
        /\ cache' = IF cache.table[cache.key[e]] = e THEN RemoveKey(cache, cache.key[e]) ELSE cache
    BY DEF EraseEntry
  <1>2. CASE cache.table[cache.key[e]] = e
    <2> DEFINE k == cache.key[e]
    <2>1. cache \in IntState
      BY DEF CacheInv, InvOf
    <2>2. k \in Key /\ cache.table[k] # NULL /\ cache' = RemoveKey(cache, k)
      BY <1>1, <1>2, <2>1, Fields, Facts
    <2> HIDE DEF k
    <2> QED BY <1>1, <2>2, RemovingKey
  <1>3. CASE cache.table[cache.key[e]] # e
    BY <1>1, <1>3 DEF CacheInv
  <1> QED BY <1>2, <1>3

LEMMA Pruning ==
    ASSUME CacheInv, Prune
    PROVE  CacheInv'
  <1>1. open /\ open' = open /\ held' = held /\ cache' = Pruned(cache)
    BY DEF Prune
  <1>2. InvOf(cache, held, TRUE) /\ open = TRUE
    BY <1>1 DEF CacheInv, InvOf
  <1>3. Good(cache, held) /\ held \in Holding /\ cache.usage <= capacity /\ cache \in IntState
    BY <1>2, OpenGood
  <1> DEFINE d == Pruned(cache)
  <1>4. Ejected(cache, held, d)
    BY <1>3, PrunedOk
  <1> HIDE DEF d
  <1>5. Good(d, held) /\ d.usage <= cache.usage
    BY <1>4 DEF Ejected
  <1>6. d.usage <= capacity
    <2>1. d.usage \in Int /\ cache.usage \in Int
      BY <1>3, <1>5, Fields DEF Good
    <2> QED BY <1>3, <1>5, <2>1, Facts
  <1>7. InvOf(d, held, TRUE)
    BY <1>2, <1>5, <1>6, GoodOpen DEF InvOf
  <1>8. cache' = d /\ open' = TRUE
    BY <1>1, <1>2 DEF d
  <1> QED BY <1>1, <1>7, <1>8 DEF CacheInv

LEMMA Destroying ==
    ASSUME CacheInv, Destroy
    PROVE  CacheInv'
  <1>1. open /\ open' = FALSE /\ held' = held /\ cache' = Emptied(cache)
    BY DEF Destroy
  <1>2. InvOf(cache, held, TRUE)
    BY <1>1 DEF CacheInv, InvOf
  <1>3. Good(cache, held) /\ held \in Holding
    BY <1>2, OpenGood
  <1> DEFINE d == Emptied(cache)
  <1>4. d \in IntState /\ Lists(d, held) /\ Total(d) /\ d.usage = cache.usage
    BY <1>3, EmptiedOk
  <1> HIDE DEF d
  <1>5. InvOf(d, held, FALSE)
    BY <1>2, <1>4 DEF InvOf
  <1>6. cache' = d
    BY <1>1 DEF d
  <1> QED BY <1>1, <1>5, <1>6 DEF CacheInv

LEMMA NextOk == CacheInv /\ [Next]_vars => CacheInv'
  <1> SUFFICES ASSUME CacheInv, [Next]_vars PROVE CacheInv'
    OBVIOUS
  <1>1. ASSUME NEW k \in Key, NEW e \in Entry, NEW ch \in Charge, Insert(k, e, ch)
        PROVE  CacheInv'
    BY <1>1, InsertOk
  <1>2. ASSUME NEW k \in Key, Lookup(k)
        PROVE  CacheInv'
    <2>1. /\ open /\ open' = open /\ cache.table[k] # NULL
          /\ cache' = AddRef(cache, cache.table[k]) /\ Hold(cache.table[k])
      BY <1>2 DEF Lookup
    <2>2. Good(cache, held) /\ held \in Holding
      BY <2>1, OpenGood DEF CacheInv, InvOf
    <2>3. cache.table[k] \in Entry /\ cache.refs[cache.table[k]] > 0
      BY <2>1, <2>2, InTable
    <2> QED BY <2>1, <2>3, AddingRef
  <1>3. ASSUME NEW k \in Key, EraseKey(k)
        PROVE  CacheInv'
    BY <1>3, RemovingKey DEF EraseKey
  <1>4. ASSUME NEW e \in Entry, Ref(e)
        PROVE  CacheInv'
    BY <1>4, AddingRef DEF Ref, Live
  <1>5. ASSUME NEW e \in Entry, Release(e) \/ EraseEntry(e)
        PROVE  CacheInv'
    BY <1>5, Releasing, Erasing
  <1>6. CASE Prune \/ Destroy
    BY <1>6, Pruning, Destroying
  <1>7. CASE Closed \/ UNCHANGED vars
    BY <1>7 DEF Closed, vars, CacheInv
  <1> QED BY <1>1, <1>2, <1>3, <1>4, <1>5, <1>6, <1>7 DEF Next

\* The invariant, from which the properties follow.
THEOREM CacheInvariant == Spec => []CacheInv
  BY InitOk, NextOk, PTL DEF Spec

LEMMA InvGives == CacheInv => /\ TypeOK /\ ListsPartition /\ RefsAccounted
                              /\ TableExact /\ UsageExact
  <1> SUFFICES ASSUME CacheInv
               PROVE  TypeOK /\ ListsPartition /\ RefsAccounted /\ TableExact /\ UsageExact
    OBVIOUS
  <1>1. /\ cache \in IntState /\ held \in [Entry -> 0 .. MaxHeld] /\ open \in BOOLEAN
        /\ Lists(cache, held) /\ Total(cache) /\ cache.usage \in Nat /\ cache.usage <= capacity
        /\ open => Usage(cache) /\ TableHas(cache, cache.in_cache)
    BY DEF CacheInv, InvOf
  <1>2. /\ \A e \in Entry : cache.refs[e] = held[e] + (IF e \in cache.in_cache THEN 1 ELSE 0)
        /\ cache.in_use = {e \in Entry : held[e] > 0}
        /\ List(cache.lru) /\ Range(cache.lru) = {e \in cache.in_cache : held[e] = 0}
    BY <1>1 DEF Lists
  <1>3. cache.charge \in [Entry -> Nat] /\ cache.in_cache \in SUBSET Entry /\ Live \in SUBSET Entry
    BY <1>1, Fields DEF Live
  <1>4. \A e \in Entry : held[e] \in Nat
    BY <1>1, Facts
  <1>5. Live = Alive(cache)
    BY DEF Live, Alive
  <1>6. cache.total \in Nat
    BY <1>1, <1>3, <1>5, UnitsFinite DEF Total
  <1>7. TypeOK
    BY <1>1, <1>6 DEF TypeOK, State, IntState
  <1>8. RefsAccounted
    BY <1>2 DEF RefsAccounted
  <1>9. TableExact
    BY <1>1 DEF TableExact, TableHas
  <1>10. UsageExact
    BY <1>1, <1>5 DEF UsageExact, Usage, Total
  <1>11. ListsPartition
    <2>1. Len(cache.lru) = Cardinality(Range(cache.lru))
      BY <1>2, ListLength
    <2>2. Range(cache.lru) \cap cache.in_use = {}
      BY <1>2
    <2>3. \A e \in Entry : cache.refs[e] > 0 <=> held[e] > 0 \/ e \in cache.in_cache
      BY <1>2, <1>4
    <2>4. Range(cache.lru) \cup cache.in_use = Live
      BY <1>2, <1>3, <1>4, <2>3 DEF Live
    <2> QED BY <1>2, <2>1, <2>2, <2>4 DEF ListsPartition
  <1> QED BY <1>7, <1>8, <1>9, <1>10, <1>11

\* The counters usage_ and total_usage_ of lru.h never go below zero, nor do reference
\* counts, and the lists hold entries.
THEOREM CacheTypes == Spec => []TypeOK
  BY CacheInvariant, InvGives, PTL

\* "Each live handle is in either one of the two lists, but never both".
THEOREM ListsPartitionTheorem == Spec => []ListsPartition
  BY CacheInvariant, InvGives, PTL

\* References are those of the clients and of the cache.
THEOREM RefsAccountedTheorem == Spec => []RefsAccounted
  BY CacheInvariant, InvGives, PTL

\* The table leads to the entries in the cache and to nothing else.
THEOREM TableExactTheorem == Spec => []TableExact
  BY CacheInvariant, InvGives, PTL

\* The assertion at the end of Insert, and what the counters count.
THEOREM UsageExactTheorem == Spec => []UsageExact
  BY CacheInvariant, InvGives, PTL

\* Insert evicts idle entries oldest first.
THEOREM OldestFirstTheorem == Spec => OldestFirst
  <1>1. CacheInv /\ [Next]_vars =>
           [\A k \in Key, e \in Entry, ch \in Charge : Insert(k, e, ch) =>
              \A i, j \in DOMAIN cache.lru :
                 (/\ i < j
                  /\ cache.key[cache.lru[j]] # k
                  /\ cache'.refs[cache.lru[j]] = 0)
                    => cache'.refs[cache.lru[i]] = 0]_vars
    <2> SUFFICES ASSUME CacheInv, NEW k \in Key, NEW e \in Entry, NEW ch \in Charge,
                        Insert(k, e, ch), NEW i \in DOMAIN cache.lru, NEW j \in DOMAIN cache.lru,
                        i < j, cache.key[cache.lru[j]] # k, cache'.refs[cache.lru[j]] = 0
                 PROVE  cache'.refs[cache.lru[i]] = 0
      OBVIOUS
    <2>1. InOrder(cache, cache', k)
      BY InsertOk
    <2>2. DOMAIN cache.lru = 1 .. Len(cache.lru)
      BY Fields DEF CacheInv, InvOf
    <2> QED BY <2>1, <2>2 DEF InOrder
  <1> QED BY <1>1, CacheInvariant, PTL DEF Spec, OldestFirst
-----------------------------------------------------------------------------
(***************************************************************************)
(* With unit charges the cache is a RefCache.                              *)
(***************************************************************************)
LEMMA UnitSum ==
    ASSUME NEW f \in [Entry -> Nat], NEW S \in SUBSET Entry, \A x \in S : f[x] = 1
    PROVE  IsFiniteSet(S) /\ ChargeOf(f, S) = Cardinality(S) /\ Cardinality(S) \in Nat
  <1> DEFINE U == Units(f, S)
             b == [x \in S |-> <<x, 1>>]
  <1>1. IsFiniteSet(S)
    BY Facts, FS_Subset
  <1>2. U = {<<x, 1>> : x \in S}
    <2>1. \A x \in S : {x} \X (1 .. f[x]) = {<<x, 1>>}
      <3> TAKE x \in S
      <3>1. 1 .. f[x] = {1}
        OBVIOUS
      <3> QED BY <3>1
    <2> QED BY <2>1 DEF Units
  <1>3. b \in Bijection(S, U)
    <2>1. b \in [S -> U] /\ \A y \in U : \E x \in S : b[x] = y
      BY <1>2
    <2>2. \A x, y \in S : b[x] = b[y] => x = y
      OBVIOUS
    <2> HIDE DEF b, U
    <2> QED BY <2>1, <2>2 DEF Bijection, Injection, IsInjective, Surjection
  <1>4. ChargeOf(f, S) = Cardinality(U) /\ IsFiniteSet(U)
    BY UnitsFinite
  <1> HIDE DEF U, b
  <1>5. Cardinality(U) = Cardinality(S)
    BY <1>1, <1>3, FS_Bijection DEF ExistsBijection
  <1> QED BY <1>1, <1>4, <1>5, FS_CardinalityType

\* The references left when the cache gives up those it has on the entries of S.
Drop(R, S) == [x \in Entry |-> IF x \in S THEN R[x] - 1 ELSE R[x]]

LEMMA EvictedRefs ==
    ASSUME NEW c \in IntState, NEW d \in IntState, NEW h \in Holding, Lists(c, h), Lists(d, h),
           d.in_cache \subseteq c.in_cache
    PROVE  d.refs = Drop(c.refs, c.in_cache \ d.in_cache)
  <1>1. \A x \in Entry : /\ c.refs[x] = h[x] + (IF x \in c.in_cache THEN 1 ELSE 0)
                         /\ d.refs[x] = h[x] + (IF x \in d.in_cache THEN 1 ELSE 0)
    BY DEF Lists
  <1>2. \A x \in Entry : h[x] \in Nat
    BY DEF Holding
  <1>3. d.refs \in [Entry -> Nat]
    BY Fields
  <1>4. \A x \in Entry :
           d.refs[x] = IF x \in c.in_cache \ d.in_cache THEN c.refs[x] - 1 ELSE c.refs[x]
    BY <1>1, <1>2
  <1> QED BY <1>3, <1>4 DEF Drop

LEMMA InsertedRefs ==
    ASSUME NEW c \in IntState, NEW d \in IntState, NEW h \in Holding, NEW e \in Entry,
           Lists(c, h), Lists(d, More(h, e)), c.refs[e] = 0, NEW S \in SUBSET c.in_cache,
           \A x \in Entry \ {e} : x \in d.in_cache <=> x \in c.in_cache /\ x \notin S
    PROVE  d.refs = [Drop(c.refs, S) EXCEPT ![e] = IF e \in d.in_cache THEN 2 ELSE 1]
  <1> DEFINE g == More(h, e)
  <1>1. /\ g[e] = h[e] + 1 /\ \A x \in Entry \ {e} : g[x] = h[x]
    BY MoreOk
  <1>2. \A x \in Entry : h[x] \in Nat
    BY DEF Holding
  <1> HIDE DEF g
  <1>3. \A x \in Entry : /\ c.refs[x] = h[x] + (IF x \in c.in_cache THEN 1 ELSE 0)
                         /\ d.refs[x] = g[x] + (IF x \in d.in_cache THEN 1 ELSE 0)
    BY DEF Lists, g
  <1>4. d.refs[e] = IF e \in d.in_cache THEN 2 ELSE 1
    <2>1. h[e] = 0
      BY <1>2, <1>3
    <2> QED BY <1>1, <1>3, <2>1
  <1>5. \A x \in Entry \ {e} : d.refs[x] = IF x \in S THEN c.refs[x] - 1 ELSE c.refs[x]
    <2> TAKE x \in Entry \ {e}
    <2>1. d.refs[x] = h[x] + (IF x \in d.in_cache THEN 1 ELSE 0)
      BY <1>1, <1>3
    <2>2. c.refs[x] = h[x] + (IF x \in c.in_cache THEN 1 ELSE 0) /\ h[x] \in Nat
      BY <1>2, <1>3
    <2>3. x \in d.in_cache <=> x \in c.in_cache /\ x \notin S
      OBVIOUS
    <2> QED BY <2>1, <2>2, <2>3
  <1>6. d.refs \in [Entry -> Nat]
    BY Fields
  <1> QED BY <1>4, <1>5, <1>6 DEF Drop

\* A cache of unit charges with room for K, and with e.
LEMMA Counts ==
    ASSUME NEW K \in SUBSET Entry, NEW e \in Entry, e \notin K
    PROVE  /\ IsFiniteSet(K) /\ Cardinality(K) \in Nat /\ IsFiniteSet(K \cup {e})
           /\ Cardinality(K \cup {e}) = Cardinality(K) + 1
           /\ \A F \in SUBSET (K \cup {e}) :
                 /\ IsFiniteSet(F) /\ Cardinality(F) \in Nat
                 /\ \A x \in K \ F : /\ Cardinality(F) <= Cardinality(K)
                                     /\ e \in F /\ Cardinality(F) = Cardinality(K)
                                           => F = (K \ {x}) \cup {e}
  <1>1. IsFiniteSet(K) /\ Cardinality(K) \in Nat
    BY Facts, FS_Subset, FS_CardinalityType
  <1>2. IsFiniteSet(K \cup {e}) /\ Cardinality(K \cup {e}) = Cardinality(K) + 1
    BY <1>1, FS_AddElement
  <1>3. ASSUME NEW F \in SUBSET (K \cup {e})
        PROVE  IsFiniteSet(F) /\ Cardinality(F) \in Nat
    BY <1>2, FS_Subset, FS_CardinalityType
  <1>4. ASSUME NEW F \in SUBSET (K \cup {e}), NEW x \in K \ F
        PROVE  /\ Cardinality(F) <= Cardinality(K)
               /\ e \in F /\ Cardinality(F) = Cardinality(K) => F = (K \ {x}) \cup {e}
    <2> DEFINE G == (K \ {x}) \cup {e}
    <2>1. F \subseteq G
      BY <1>4
    <2>2. IsFiniteSet(K \ {x}) /\ Cardinality(K \ {x}) = Cardinality(K) - 1
      BY <1>1, FS_RemoveElement
    <2>3. IsFiniteSet(G) /\ Cardinality(G) = Cardinality(K)
      <3>1. e \notin K \ {x} /\ G = (K \ {x}) \cup {e}
        OBVIOUS
      <3>2. Cardinality(G) = Cardinality(K \ {x}) + 1 /\ IsFiniteSet(G)
        BY <2>2, <3>1, FS_AddElement
      <3> QED BY <1>1, <2>2, <3>2
    <2> HIDE DEF G
    <2>4. Cardinality(F) <= Cardinality(G) /\ (Cardinality(F) = Cardinality(G) => F = G)
      BY <2>1, <2>3, FS_Subset
    <2> QED BY <2>3, <2>4 DEF G
  <1> QED BY <1>1, <1>2, <1>3, <1>4

Units1(c) == \A x \in Entry : c.refs[x] > 0 => c.charge[x] = 1

\* The three ways in which RefCache inserts an entry.
LEMMA UnitInsert ==
    ASSUME NEW c, NEW h \in Holding, Good(c, h), c.usage <= capacity, NEW k \in Key,
           NEW e \in Entry, c.refs[e] = 0, NEW ch, NEW d, Insertion(c, h, k, e, ch, d),
           Units1(c), Units1(d)
    PROVE  LET K == Kept(c, k)
           IN  \/ Cardinality(K) < capacity /\ d.in_cache = K \cup {e}
               \/ /\ ~(Cardinality(K) < capacity)
                  /\ \E x \in K : c.refs[x] = 1 /\ d.in_cache = (K \ {x}) \cup {e}
               \/ /\ ~(Cardinality(K) < capacity)
                  /\ (\A x \in K : c.refs[x] # 1) /\ d.in_cache = K
  <1> DEFINE K == Kept(c, k)
             g == More(h, e)
             n == Cardinality(K)
  <1>1. /\ Good(d, g) /\ d.charge = [c.charge EXCEPT ![e] = ch]
        /\ capacity = 0 => d.in_cache = c.in_cache
        /\ capacity # 0 => Fits(c, h, k, e, d)
    BY DEF Insertion
  <1>2. /\ c \in IntState /\ d \in IntState /\ Lists(c, h) /\ Lists(d, g) /\ Usage(c)
    BY <1>1 DEF Good
  <1>3. /\ c.charge \in [Entry -> Nat] /\ d.charge \in [Entry -> Nat]
        /\ c.in_cache \in SUBSET Entry /\ c.refs \in [Entry -> Nat] /\ d.refs \in [Entry -> Nat]
        /\ capacity \in Nat
    BY <1>2, Fields, Facts
  <1>4. /\ \A x \in Entry : /\ c.refs[x] = h[x] + (IF x \in c.in_cache THEN 1 ELSE 0)
                            /\ d.refs[x] = g[x] + (IF x \in d.in_cache THEN 1 ELSE 0)
        /\ \A x \in Entry : h[x] \in Nat
    BY <1>2 DEF Lists, Holding
  <1>5. e \notin c.in_cache /\ g[e] > 0 /\ g[e] \in Nat
    <2>1. e \notin c.in_cache
      BY <1>4
    <2>2. g[e] = h[e] + 1 /\ h[e] \in Nat
      BY MoreOk
    <2> QED BY <2>1, <2>2
  <1>6. K \in SUBSET Entry /\ e \notin K /\ K \subseteq c.in_cache
    BY <1>3, <1>5 DEF Kept
  <1>7. \A x \in c.in_cache : c.charge[x] = 1
    BY <1>3, <1>4 DEF Units1
  <1>8. d.charge[e] = 1
    <2>1. d.refs[e] > 0
      BY <1>4, <1>5
    <2> QED BY <2>1 DEF Units1
  <1>9. \A x \in K \cup {e} : d.charge[x] = 1
    BY <1>1, <1>3, <1>6, <1>7, <1>8
  <1>10. /\ IsFiniteSet(c.in_cache) /\ c.usage = Cardinality(c.in_cache) /\ Cardinality(c.in_cache) \in Nat
    BY <1>2, <1>3, <1>7, UnitSum DEF Usage
  <1>11. n <= Cardinality(c.in_cache) /\ n \in Nat
    BY <1>6, <1>10, FS_Subset, FS_CardinalityType
  <1>12. n <= capacity
    BY <1>3, <1>10, <1>11
  <1>13. \A x \in K : c.refs[x] = 1 <=> h[x] = 0
    BY <1>3, <1>4, <1>6
  <1> HIDE DEF K, n, g
  <1>14. CASE capacity = 0
    <2>1. Cardinality(c.in_cache) = 0
      BY <1>3, <1>10, <1>14
    <2>2. c.in_cache = {}
      BY <1>10, <2>1, FS_EmptySet
    <2>3. K = {} /\ d.in_cache = K /\ ~(n < capacity)
      BY <1>1, <1>6, <1>11, <1>14, <2>2
    <2> QED BY <2>3 DEF K, n
  <1>15. CASE capacity # 0
    <2>1. PICK F \in SUBSET (K \cup {e}) :
             /\ e \in F
             /\ \/ F = K \cup {e}
                \/ \E x \in K \ F : h[x] = 0 /\ ChargeOf(d.charge, F) + d.charge[x] > capacity
             /\ \/ ChargeOf(d.charge, F) <= capacity /\ d.in_cache = F
                \/ /\ ChargeOf(d.charge, F) > capacity /\ d.in_cache = F \ {e}
                   /\ \A y \in F \ {e} : h[y] > 0
      BY <1>1, <1>15 DEF Fits, K
    <2> DEFINE m == Cardinality(F)
    <2>2. /\ m \in Nat /\ Cardinality(K \cup {e}) = n + 1
          /\ \A x \in K \ F : m <= n /\ (m = n => F = (K \ {x}) \cup {e})
      <3>1. /\ IsFiniteSet(F) /\ m \in Nat
            /\ \A x \in K \ F : m <= Cardinality(K)
                                   /\ (e \in F /\ m = Cardinality(K) => F = (K \ {x}) \cup {e})
            /\ Cardinality(K \cup {e}) = Cardinality(K) + 1
        BY <1>6, Counts
      <3> QED BY <2>1, <3>1 DEF n
    <2>3. ChargeOf(d.charge, F) = m
      <3>1. F \in SUBSET Entry /\ \A x \in F : d.charge[x] = 1
        BY <1>6, <1>9
      <3> QED BY <1>3, <3>1, UnitSum
    <2> HIDE DEF m
    <2>4. CASE F = K \cup {e}
      <3>1. m = n + 1
        BY <2>2, <2>4 DEF m
      <3>2. CASE m <= capacity
        <4>1. n < capacity
          BY <1>3, <1>11, <3>1, <3>2
        <4>2. d.in_cache = K \cup {e}
          BY <1>3, <2>1, <2>2, <2>3, <2>4, <3>2
        <4> QED BY <4>1, <4>2 DEF K, n
      <3>3. CASE m > capacity
        <4>1. ~(n < capacity)
          BY <1>3, <1>11, <3>1, <3>3
        <4>2. d.in_cache = F \ {e} /\ \A y \in F \ {e} : h[y] > 0
          <5>1. ~(m <= capacity)
            BY <1>3, <2>2, <3>3
          <5> QED BY <2>1, <2>3, <5>1
        <4>3. F \ {e} = K
          BY <1>6, <2>4
        <4>4. \A x \in K : c.refs[x] # 1
          BY <1>13, <4>2, <4>3
        <4> QED BY <4>1, <4>2, <4>3, <4>4 DEF K, n
      <3> QED BY <1>3, <2>2, <3>2, <3>3
    <2>5. CASE \E x \in K \ F : h[x] = 0 /\ ChargeOf(d.charge, F) + d.charge[x] > capacity
      <3>1. PICK x \in K \ F : h[x] = 0 /\ m + d.charge[x] > capacity
        BY <2>3, <2>5
      <3>2. d.charge[x] = 1 /\ m <= n
        BY <1>9, <2>2, <3>1
      <3>3. m = n /\ ~(n < capacity) /\ m <= capacity /\ ~(m > capacity)
        BY <1>3, <1>11, <1>12, <2>2, <3>1, <3>2
      <3>4. d.in_cache = F /\ F = (K \ {x}) \cup {e}
        BY <2>1, <2>2, <2>3, <3>1, <3>3
      <3>5. c.refs[x] = 1
        BY <1>13, <3>1
      <3> QED BY <3>3, <3>4, <3>5 DEF K, n
    <2> QED BY <2>1, <2>4, <2>5
  <1> QED BY <1>14, <1>15

\* The Cardinality that RefCache sees is the one seen here.
LEMMA SameCardinality == \A S : Abstract!Cardinality(S) = Cardinality(S)
  BY DEF Abstract!Cardinality, Cardinality, Abstract!IsFiniteSet, IsFiniteSet

LEMMA OldKept ==
    ASSUME NEW c, NEW h, Good(c, h), NEW k \in Key
    PROVE  c.in_cache \ {x \in c.in_cache : c.key[x] = k} = Kept(c, k)
  <1>1. TableHas(c, c.in_cache) /\ c \in IntState
    BY DEF Good
  <1>2. c.in_cache \in SUBSET Entry /\ NULL \notin Entry
    BY <1>1, Fields, Facts
  <1>3. \A x \in c.in_cache : c.key[x] = k <=> c.table[k] = x
    BY <1>1, <1>2 DEF TableHas
  <1> QED BY <1>3 DEF Kept

LEMMA InsertRefines ==
    ASSUME CacheInv, UnitCharges, UnitCharges', NEW k \in Key, NEW e \in Entry, NEW ch \in Charge,
           Insert(k, e, ch)
    PROVE  Abstract!Insert(k, e)
  <1> DEFINE c == cache
             d == Inserted(cache, k, e, ch)
             old == {x \in cache.in_cache : cache.key[x] = k}
             K == Kept(cache, k)
  <1>1. open /\ e \notin Live /\ cache' = d
    BY DEF Insert
  <1>2. InvOf(cache, held, TRUE)
    BY <1>1 DEF CacheInv, InvOf
  <1>3. Good(cache, held) /\ held \in Holding /\ cache.usage <= capacity /\ cache \in IntState
    BY <1>2, OpenGood
  <1>4. cache.refs[e] = 0 /\ ch \in Nat
    BY <1>1, <1>3, Fields, Facts DEF Live
  <1>5. Insertion(cache, held, k, e, ch, d)
    BY <1>3, <1>4, InsertedOk
  <1> HIDE DEF d
  <1>6. Units1(cache) /\ Units1(d)
    <2>1. Units1(cache)
      BY DEF UnitCharges, Live, Units1
    <2>2. Units1(cache')
      BY DEF UnitCharges, Live, Units1
    <2> QED BY <1>1, <2>1, <2>2
  <1>7. \/ Cardinality(K) < capacity /\ d.in_cache = K \cup {e}
        \/ /\ ~(Cardinality(K) < capacity)
           /\ \E x \in K : cache.refs[x] = 1 /\ d.in_cache = (K \ {x}) \cup {e}
        \/ /\ ~(Cardinality(K) < capacity)
           /\ (\A x \in K : cache.refs[x] # 1) /\ d.in_cache = K
    BY <1>3, <1>4, <1>5, <1>6, UnitInsert
  <1>8. K = cache.in_cache \ old /\ K \subseteq cache.in_cache
    BY <1>3, OldKept
  <1>9. /\ d \in IntState /\ Lists(cache, held) /\ Lists(d, More(held, e))
        /\ d.key = [cache.key EXCEPT ![e] = k]
    BY <1>3, <1>5 DEF Insertion, Good
  <1>10. e \notin cache.in_cache
    BY <1>3, <1>4, <1>9 DEF Lists, Holding
  <1> HIDE DEF old, K
  <1>11. old \subseteq cache.in_cache
    BY DEF old
  <1>12. ASSUME NEW S \in SUBSET cache.in_cache,
                \A x \in Entry \ {e} : x \in d.in_cache <=> x \in cache.in_cache /\ x \notin S
         PROVE  d.refs = [Drop(cache.refs, S) EXCEPT ![e] = IF e \in d.in_cache THEN 2 ELSE 1]
    BY <1>3, <1>4, <1>9, <1>12, InsertedRefs
  <1>13. \/ /\ Cardinality(K) < capacity
            /\ d.in_cache = K \cup {e}
            /\ d.refs = [Drop(cache.refs, old) EXCEPT ![e] = 2]
         \/ /\ ~(Cardinality(K) < capacity)
            /\ \E x \in K : /\ cache.refs[x] = 1
                            /\ d.in_cache = (K \ {x}) \cup {e}
                            /\ d.refs = [Drop(cache.refs, old \cup {x}) EXCEPT ![e] = 2]
         \/ /\ ~(Cardinality(K) < capacity)
            /\ \A x \in K : cache.refs[x] # 1
            /\ d.in_cache = K
            /\ d.refs = [Drop(cache.refs, old) EXCEPT ![e] = 1]
    <2>1. CASE Cardinality(K) < capacity /\ d.in_cache = K \cup {e}
      <3>1. \A x \in Entry \ {e} : x \in d.in_cache <=> x \in cache.in_cache /\ x \notin old
        BY <1>8, <2>1
      <3>2. d.refs = [Drop(cache.refs, old) EXCEPT ![e] = IF e \in d.in_cache THEN 2 ELSE 1]
        BY <1>11, <1>12, <3>1
      <3>3. e \in d.in_cache
        BY <2>1
      <3> QED BY <2>1, <3>2, <3>3
    <2>2. ASSUME ~(Cardinality(K) < capacity), NEW x \in K, cache.refs[x] = 1,
                 d.in_cache = (K \ {x}) \cup {e}
          PROVE  d.refs = [Drop(cache.refs, old \cup {x}) EXCEPT ![e] = 2]
      <3>1. \A y \in Entry \ {e} : y \in d.in_cache <=> y \in cache.in_cache /\ y \notin old \cup {x}
        BY <1>8, <2>2
      <3>2. old \cup {x} \in SUBSET cache.in_cache
        BY <1>8, <1>11
      <3>3. d.refs = [Drop(cache.refs, old \cup {x}) EXCEPT ![e] = IF e \in d.in_cache THEN 2 ELSE 1]
        BY <1>12, <3>1, <3>2
      <3>4. e \in d.in_cache
        BY <2>2
      <3> QED BY <3>3, <3>4
    <2>3. CASE /\ ~(Cardinality(K) < capacity)
               /\ (\A x \in K : cache.refs[x] # 1) /\ d.in_cache = K
      <3>1. \A x \in Entry \ {e} : x \in d.in_cache <=> x \in cache.in_cache /\ x \notin old
        BY <1>8, <2>3
      <3>2. d.refs = [Drop(cache.refs, old) EXCEPT ![e] = IF e \in d.in_cache THEN 2 ELSE 1]
        BY <1>11, <1>12, <3>1
      <3>3. e \notin d.in_cache
        BY <1>8, <1>10, <2>3
      <3> QED BY <2>3, <3>2, <3>3
    <2> QED BY <1>7, <2>1, <2>2, <2>3
  <1>14. K \cap Abstract!Idle = {x \in K : cache.refs[x] = 1}
    BY <1>8 DEF Abstract!Idle
  <1>15. \A S : Abstract!Dropped(S) = Drop(cache.refs, S)
    BY DEF Abstract!Dropped, Drop
  <1>16. Abstract!HasRoom(K) <=> Cardinality(K) < capacity
    BY SameCardinality DEF Abstract!HasRoom
  <1>17. /\ cache.refs[e] = 0
         /\ cache'.key = [cache.key EXCEPT ![e] = k]
         /\ \/ /\ Abstract!HasRoom(K)
               /\ cache'.in_cache = K \cup {e}
               /\ cache'.refs = [Abstract!Dropped(old) EXCEPT ![e] = 2]
            \/ /\ ~Abstract!HasRoom(K)
               /\ \E x \in K \cap Abstract!Idle :
                     /\ cache'.in_cache = (K \ {x}) \cup {e}
                     /\ cache'.refs = [Abstract!Dropped(old \cup {x}) EXCEPT ![e] = 2]
            \/ /\ ~Abstract!HasRoom(K)
               /\ K \cap Abstract!Idle = {}
               /\ cache'.in_cache = K
               /\ cache'.refs = [Abstract!Dropped(old) EXCEPT ![e] = 1]
    BY <1>1, <1>4, <1>9, <1>13, <1>14, <1>15, <1>16
  <1> QED BY <1>8, <1>17 DEF Abstract!Insert, old

\* An operation that only takes entries out of the cache evicts them.
LEMMA EvictRefines ==
    ASSUME NEW c \in IntState, NEW d \in IntState, NEW h \in Holding, Lists(c, h), Lists(d, h),
           d.in_cache \subseteq c.in_cache, d.key = c.key, cache = c, cache' = d
    PROVE  \E S \in SUBSET cache.in_cache : Abstract!Evict(S)
  <1> DEFINE S == c.in_cache \ d.in_cache
  <1>1. d.refs = Drop(c.refs, S)
    BY EvictedRefs
  <1>2. c.in_cache \ S = d.in_cache /\ S \in SUBSET c.in_cache
    OBVIOUS
  <1> HIDE DEF S
  <1>3. Abstract!Evict(S)
    BY <1>1, <1>2 DEF Abstract!Evict, Abstract!Dropped, Drop
  <1> QED BY <1>2, <1>3

LEMMA RefRefines ==
    ASSUME CacheInv, open, NEW e \in Entry, cache.refs[e] > 0, cache' = AddRef(cache, e)
    PROVE  Abstract!Ref(e)
  <1>1. Good(cache, held) /\ held \in Holding
    BY OpenGood DEF CacheInv, InvOf
  <1> DEFINE d == AddRef(cache, e)
  <1>2. /\ Good(d, More(held, e)) /\ d.usage = cache.usage
        /\ d.key = cache.key /\ d.charge = cache.charge /\ d.in_cache = cache.in_cache
        /\ d.refs = [cache.refs EXCEPT ![e] = @ + 1]
    BY <1>1, AddRefOk
  <1> HIDE DEF d
  <1>3. cache' = d
    BY DEF d
  <1> QED BY <1>2, <1>3 DEF Abstract!Ref

LEMMA RemoveKeyRefines ==
    ASSUME CacheInv, open, NEW k \in Key, cache.table[k] # NULL, cache' = RemoveKey(cache, k)
    PROVE  \E S \in SUBSET cache.in_cache : Abstract!Evict(S)
  <1>1. Good(cache, held) /\ held \in Holding
    BY OpenGood DEF CacheInv, InvOf
  <1> DEFINE d == RemoveKey(cache, k)
  <1>2. KeyRemoved(cache, held, k, d)
    BY <1>1, RemoveKeyOk
  <1> HIDE DEF d
  <1>3. /\ Good(d, held) /\ d.key = cache.key /\ d.in_cache \subseteq cache.in_cache
    BY <1>2 DEF KeyRemoved
  <1>4. cache \in IntState /\ d \in IntState /\ Lists(cache, held) /\ Lists(d, held)
    BY <1>1, <1>3 DEF Good
  <1>5. cache' = d
    BY DEF d
  <1> QED BY <1>1, <1>3, <1>4, <1>5, EvictRefines

LEMMA StepRefines ==
    ASSUME CacheInv, [Next]_vars, UnitCharges, UnitCharges'
    PROVE  [Abstract!Next]_(Abstract!cacheVars)
  <1>0. Live \subseteq Abstract!Live
    BY DEF Live, Abstract!Live
  <1>1. ASSUME NEW k \in Key, NEW e \in Entry, NEW ch \in Charge, Insert(k, e, ch)
        PROVE  Abstract!Next
    BY <1>1, InsertRefines DEF Abstract!Next
  <1>2. ASSUME NEW k \in Key, Lookup(k)
        PROVE  Abstract!Next
    <2> DEFINE e == cache.table[k]
    <2>1. open /\ e # NULL /\ cache' = AddRef(cache, e)
      BY <1>2 DEF Lookup
    <2>2. Good(cache, held) /\ held \in Holding
      BY <2>1, OpenGood DEF CacheInv, InvOf
    <2>3. e \in Entry /\ cache.refs[e] > 0
      BY <2>1, <2>2, InTable
    <2>4. e \in cache.in_cache /\ cache.key[e] = k
      BY <2>1, <2>2 DEF Good, TableHas
    <2> HIDE DEF e
    <2>5. Abstract!Ref(e)
      BY <2>1, <2>3, RefRefines
    <2>6. Abstract!Lookup(k, e)
      BY <2>4, <2>5 DEF Abstract!Lookup
    <2> QED BY <2>3, <2>6 DEF Abstract!Next
  <1>3. ASSUME NEW k \in Key, EraseKey(k)
        PROVE  Abstract!Next
    BY <1>3, RemoveKeyRefines DEF EraseKey, Abstract!Next
  <1>4. ASSUME NEW e \in Entry, Ref(e)
        PROVE  Abstract!Next
    <2>1. open /\ e \in Live /\ cache' = AddRef(cache, e) /\ cache.refs[e] > 0
      BY <1>4 DEF Ref, Live
    <2>2. Abstract!Ref(e)
      BY <2>1, RefRefines
    <2> QED BY <1>0, <2>1, <2>2 DEF Abstract!Next
  <1>5. ASSUME NEW e \in Entry, Release(e)
        PROVE  Abstract!Next
    <2>1. open /\ held[e] > 0 /\ cache' = Unref(cache, e)
      BY <1>5 DEF Release
    <2>2. Good(cache, held) /\ held \in Holding /\ cache \in IntState
      BY <2>1, OpenGood DEF CacheInv, InvOf
    <2> DEFINE d == Unref(cache, e)
    <2>3. Released(cache, held, e, d)
      <3>1. held[e] > 0
        BY <2>1
      <3> QED BY <2>2, <3>1, ReleaseOk
    <2> HIDE DEF d
    <2>4. /\ d.key = cache.key /\ d.in_cache = cache.in_cache
          /\ d.refs = [cache.refs EXCEPT ![e] = @ - 1]
      BY <2>3 DEF Released
    <2>5. Abstract!Release(e)
      BY <2>1, <2>4 DEF Abstract!Release, d
    <2>6. cache.refs[e] > (IF e \in cache.in_cache THEN 1 ELSE 0) /\ e \in Live
      <3>1. cache.refs[e] = held[e] + (IF e \in cache.in_cache THEN 1 ELSE 0) /\ held[e] \in Nat
        BY <2>2 DEF Good, Lists, Holding
      <3> QED BY <2>1, <3>1 DEF Live
    <2> QED BY <1>0, <2>5, <2>6 DEF Abstract!Next
  <1>6. ASSUME NEW e \in Entry, EraseEntry(e)
        PROVE  Abstract!Next \/ UNCHANGED Abstract!cacheVars
    <2>1. /\ open
          /\ cache' = IF cache.table[cache.key[e]] = e THEN RemoveKey(cache, cache.key[e]) ELSE cache
      BY <1>6 DEF EraseEntry
    <2>2. CASE cache.table[cache.key[e]] = e
      <3> DEFINE k == cache.key[e]
      <3>1. cache \in IntState
        BY DEF CacheInv, InvOf
      <3>2. k \in Key /\ cache.table[k] # NULL /\ cache' = RemoveKey(cache, k)
        BY <2>1, <2>2, <3>1, Fields, Facts
      <3> HIDE DEF k
      <3> QED BY <2>1, <3>2, RemoveKeyRefines DEF Abstract!Next
    <2>3. CASE cache.table[cache.key[e]] # e
      BY <2>1, <2>3 DEF Abstract!cacheVars
    <2> QED BY <2>2, <2>3
  <1>7. CASE Prune
    <2>1. open /\ cache' = Pruned(cache)
      BY <1>7 DEF Prune
    <2>2. Good(cache, held) /\ held \in Holding
      BY <2>1, OpenGood DEF CacheInv, InvOf
    <2> DEFINE d == Pruned(cache)
    <2>3. Ejected(cache, held, d)
      BY <2>2, PrunedOk
    <2> HIDE DEF d
    <2>4. /\ d \in IntState /\ cache \in IntState /\ Lists(d, held) /\ Lists(cache, held)
          /\ d.key = cache.key /\ d.in_cache \subseteq cache.in_cache
      BY <2>2, <2>3 DEF Ejected, Good
    <2>5. cache' = d
      BY <2>1 DEF d
    <2> QED BY <2>2, <2>4, <2>5, EvictRefines DEF Abstract!Next
  <1>8. CASE Destroy
    <2>1. open /\ cache' = Emptied(cache)
      BY <1>8 DEF Destroy
    <2>2. Good(cache, held) /\ held \in Holding
      BY <2>1, OpenGood DEF CacheInv, InvOf
    <2> DEFINE d == Emptied(cache)
    <2>3. /\ d \in IntState /\ Lists(d, held) /\ d.key = cache.key
          /\ d.in_cache \subseteq cache.in_cache
      BY <2>2, EmptiedOk
    <2> HIDE DEF d
    <2>4. cache \in IntState /\ Lists(cache, held)
      BY <2>2 DEF Good
    <2>5. cache' = d
      BY <2>1 DEF d
    <2> QED BY <2>2, <2>3, <2>4, <2>5, EvictRefines DEF Abstract!Next
  <1>9. CASE Closed \/ UNCHANGED vars
    BY <1>9 DEF Closed, vars, Abstract!cacheVars
  <1> QED BY <1>1, <1>2, <1>3, <1>4, <1>5, <1>6, <1>7, <1>8, <1>9 DEF Next

\* While live entries are charged 1, as DeltaFS charges them, every operation is one
\* of the RefCache: what lists, table and counters make of insertion, replacement and
\* eviction is what RefCache says.
THEOREM ImplementsRefCacheTheorem == Spec => ImplementsRefCache
  <1>1. CacheInv /\ [Next]_vars =>
           [UnitCharges /\ UnitCharges' => [Abstract!Next]_(Abstract!cacheVars)]_vars
    BY StepRefines
  <1> QED BY <1>1, CacheInvariant, PTL DEF Spec, ImplementsRefCache
=============================================================================
