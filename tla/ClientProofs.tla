---------------------------- MODULE ClientProofs ----------------------------
(***************************************************************************)
(* Proofs about the client library, for any number of threads: pathname    *)
(* resolution (Pathnames), the partitions and directories in memory        *)
(* (Partitions), the directory index (DirectoryIndex), and batches and     *)
(* bulk insertions (Contexts).                                             *)
(***************************************************************************)
EXTENDS Contexts, Pathnames, Partitions, FiniteSetTheorems, SequenceTheorems,
        WellFoundedInduction, TLAPS

-----------------------------------------------------------------------------
(* The scanner: what Resolv finds behind a slash. *)

LEMMA LeastNat ==
    ASSUME NEW S, S \subseteq Nat, S # {}
    PROVE  \E x \in S : \A y \in S : x <= y
  <1>1. IsWellFoundedOn(OpToRel(<, Nat), Nat)
    BY NatLessThanWellFounded
  <1>2. PICK x \in S : \A y \in S : ~(<<y, x>> \in OpToRel(<, Nat))
    BY <1>1, WFMin
  <1>3. ASSUME NEW y \in S PROVE x <= y
    <2>1. x \in Nat /\ y \in Nat
      OBVIOUS
    <2>2. ~(y < x)
      BY <1>2, <2>1 DEF OpToRel
    <2> QED BY <2>1, <2>2
  <1> QED BY <1>3

GoodPath(w) == w \in Seq(Char \cup {"/"}) /\ w # <<>> /\ w[1] = "/"

FirstSlash(w, i, q) ==
    /\ q \in i .. End(w) /\ (q = End(w) \/ w[q] = "/")
    /\ \A k \in i .. q - 1 : w[k] # "/"
FirstChar(w, i, q) ==
    /\ q \in i .. End(w) /\ (q = End(w) \/ w[q] # "/")
    /\ \A k \in i .. q - 1 : w[k] = "/"

LEMMA SlashFound ==
    ASSUME NEW w \in Seq(Char \cup {"/"}), NEW i \in 1 .. End(w)
    PROVE  FirstSlash(w, i, FirstFrom(w, i, LAMBDA ch : ch = "/"))
  <1> DEFINE S == {j \in i .. End(w) : j = End(w) \/ w[j] = "/"}
  <1>1. Len(w) \in Nat /\ End(w) = Len(w) + 1
    BY DEF End
  <1>2. S \subseteq Nat /\ End(w) \in S
    BY <1>1
  <1>3. PICK x \in S : \A y \in S : x <= y
    BY <1>2, LeastNat
  <1>4. ASSUME NEW k \in i .. x - 1 PROVE w[k] # "/"
    <2>1. k \in i .. End(w) /\ ~(x <= k)
      BY <1>1, <1>3
    <2> QED BY <1>3, <2>1
  <1>5. \E j \in i .. End(w) : /\ j = End(w) \/ w[j] = "/"
                               /\ \A k \in i .. j - 1 : w[k] # "/"
    BY <1>3, <1>4
  <1> HIDE DEF S
  <1> QED BY <1>5 DEF FirstFrom, FirstSlash

LEMMA CharFound ==
    ASSUME NEW w \in Seq(Char \cup {"/"}), NEW i \in 1 .. End(w)
    PROVE  FirstChar(w, i, FirstFrom(w, i, LAMBDA ch : ch # "/"))
  <1> DEFINE S == {j \in i .. End(w) : j = End(w) \/ w[j] # "/"}
  <1>1. Len(w) \in Nat /\ End(w) = Len(w) + 1
    BY DEF End
  <1>2. S \subseteq Nat /\ End(w) \in S
    BY <1>1
  <1>3. PICK x \in S : \A y \in S : x <= y
    BY <1>2, LeastNat
  <1>4. ASSUME NEW k \in i .. x - 1 PROVE w[k] = "/"
    <2>1. k \in i .. End(w) /\ ~(x <= k)
      BY <1>1, <1>3
    <2> QED BY <1>3, <2>1
  <1>5. \E j \in i .. End(w) : /\ j = End(w) \/ w[j] # "/"
                               /\ \A k \in i .. j - 1 : ~(w[k] # "/")
    BY <1>3, <1>4
  <1> HIDE DEF S
  <1>6. LET j == FirstFrom(w, i, LAMBDA ch : ch # "/")
        IN  /\ j \in i .. End(w)
            /\ j = End(w) \/ w[j] # "/"
            /\ \A k \in i .. j - 1 : ~(w[k] # "/")
    BY <1>5 DEF FirstFrom
  <1> QED BY <1>6 DEF FirstChar

\* The scan is at a slash, the first of the path or the last before a name.
AtSlash(w, i) ==
    /\ i \in 1 .. Len(w) /\ w[i] = "/"
    /\ i = 1 \/ (i < Len(w) /\ w[i + 1] # "/")

\* Empty names are skipped, and nothing else.
LEMMA Skipped ==
    ASSUME NEW w, GoodPath(w), NEW i, AtSlash(w, i), NEW j, j = SkipEmpty(w, i)
    PROVE  /\ Len(w) \in Nat \ {0} /\ End(w) = Len(w) + 1 /\ i \in Nat
           /\ j \in i .. Len(w) /\ \A k \in i .. j : w[k] = "/"
           /\ j = Len(w) \/ w[j + 1] # "/"
  <1>1. w \in Seq(Char \cup {"/"}) /\ Len(w) \in Nat \ {0} /\ End(w) = Len(w) + 1
    BY DEF GoodPath, End
  <1>2. i \in 1 .. End(w) /\ i \in Nat /\ i <= Len(w) /\ w[i] = "/"
    BY <1>1 DEF AtSlash
  <1> DEFINE f == FirstFrom(w, i, LAMBDA ch : ch # "/")
  <1>3. FirstChar(w, i, f)
    BY <1>1, <1>2, CharFound
  <1>4. j = f - 1
    BY DEF SkipEmpty
  <1> HIDE DEF f
  <1>5. /\ f \in i .. End(w) /\ (f = End(w) \/ w[f] # "/")
        /\ \A k \in i .. f - 1 : w[k] = "/"
    BY <1>3 DEF FirstChar
  <1>6. f # i
    BY <1>1, <1>2, <1>5
  <1>7. f \in i + 1 .. End(w) /\ f \in Int
    BY <1>1, <1>2, <1>5, <1>6
  <1>8. j \in i .. Len(w) /\ f = j + 1
    BY <1>1, <1>2, <1>4, <1>7
  <1> QED BY <1>1, <1>2, <1>5, <1>8

\* The splitter ends the name, and what is looked ahead for is behind it.
LEMMA Split ==
    ASSUME NEW w \in Seq(Char \cup {"/"}), NEW j \in 1 .. Len(w), NEW q, q = Splitter(w, j)
    PROVE  FirstSlash(w, j + 1, q)
  <1>1. Len(w) \in Nat /\ End(w) = Len(w) + 1
    BY DEF End
  <1>2. j + 1 \in 1 .. End(w)
    BY <1>1
  <1>3. FirstSlash(w, j + 1, FirstFrom(w, j + 1, LAMBDA ch : ch = "/"))
    BY <1>2, SlashFound
  <1> QED BY <1>3 DEF Splitter

LEMMA Ahead ==
    ASSUME NEW w \in Seq(Char \cup {"/"}), NEW q \in 1 .. Len(w), NEW c, c = LookAhead(w, q)
    PROVE  FirstChar(w, q + 1, c)
  <1>1. Len(w) \in Nat /\ End(w) = Len(w) + 1 /\ q # End(w)
    BY DEF End
  <1>2. q + 1 \in 1 .. End(w)
    BY <1>1
  <1>3. FirstChar(w, q + 1, FirstFrom(w, q + 1, LAMBDA ch : ch # "/"))
    BY <1>2, CharFound
  <1> QED BY <1>1, <1>3 DEF LookAhead

\* There is no further name: this is the path of the root, or one that ends here.
LEMMA NoName ==
    ASSUME NEW w, GoodPath(w), NEW i, AtSlash(w, i), SkipEmpty(w, i) = Len(w)
    PROVE  /\ i = 1 /\ Starts(w) = {} /\ AtLast(w, Len(w))
           /\ NameAfter(w, Len(w)) = <<>> /\ ~HasTailingSlashes(w, Len(w))
  <1>1. /\ Len(w) \in Nat \ {0} /\ End(w) = Len(w) + 1 /\ i \in Nat
        /\ \A k \in i .. Len(w) : w[k] = "/"
        /\ w \in Seq(Char \cup {"/"})
    BY Skipped DEF GoodPath
  <1>2. i = 1
    <2>1. i \in 1 .. Len(w) /\ (i = 1 \/ (i < Len(w) /\ w[i + 1] # "/"))
      BY DEF AtSlash
    <2>2. ASSUME i < Len(w) PROVE w[i + 1] = "/"
      BY <1>1, <2>2
    <2> QED BY <2>1, <2>2
  <1>3. \A k \in 1 .. Len(w) : w[k] = "/"
    BY <1>1, <1>2
  <1>4. Starts(w) = {}
    BY <1>1, <1>3 DEF Starts
  <1>5. Splitter(w, Len(w)) = End(w)
    <2>1. FirstSlash(w, Len(w) + 1, Splitter(w, Len(w)))
      <3>1. w \in Seq(Char \cup {"/"}) /\ Len(w) \in 1 .. Len(w)
        BY <1>1
      <3> QED BY <3>1, Split
    <2> QED BY <1>1, <2>1 DEF FirstSlash
  <1>6. AtLast(w, Len(w)) /\ ~HasTailingSlashes(w, Len(w))
    BY <1>5 DEF AtLast, LookAhead, HasTailingSlashes
  <1>7. NameAfter(w, Len(w)) = <<>>
    <2>1. NameAfter(w, Len(w)) = SubSeq(w, Len(w) + 1, Len(w))
      BY <1>1, <1>5 DEF NameAfter
    <2> QED BY <1>1, <2>1
  <1> QED BY <1>2, <1>4, <1>6, <1>7

LEMMA PartOfSeq ==
    ASSUME NEW S, NEW w \in Seq(S), NEW a \in 1 .. Len(w), NEW b \in a .. Len(w),
           NEW T, \A k \in a .. b : w[k] \in T
    PROVE  SubSeq(w, a, b) \in Seq(T) /\ SubSeq(w, a, b) # <<>>
  <1> DEFINE f == [k \in 1 .. b - a + 1 |-> w[a + k - 1]]
  <1>1. a \in Nat /\ b \in Nat /\ b - a + 1 \in Nat \ {0} /\ Len(w) \in Nat
    OBVIOUS
  <1>2. SubSeq(w, a, b) = f
    BY <1>1
  <1>3. ASSUME NEW k \in 1 .. b - a + 1 PROVE w[a + k - 1] \in T
    <2>1. a + k - 1 \in a .. b
      BY <1>1
    <2> QED BY <2>1
  <1>4. f \in Seq(T)
    BY <1>1, <1>3
  <1>5. Len(f) = b - a + 1
    BY <1>1
  <1>6. f # <<>>
    BY <1>1, <1>5
  <1> QED BY <1>2, <1>4, <1>6

\* There is one: it starts behind the slash, and is what NameAfter says.
LEMMA NextName ==
    ASSUME NEW w, GoodPath(w), NEW i, AtSlash(w, i), NEW j, j = SkipEmpty(w, i), j # Len(w)
    PROVE  /\ i \in Nat /\ j + 1 \in Starts(w) /\ j >= i
           /\ \A k \in Starts(w) : k <= i \/ k >= j + 1
           /\ NameAfter(w, j) = NameAt(w, j + 1)
           /\ NameAfter(w, j) \in Seq(Char) /\ NameAfter(w, j) # <<>>
  <1>1. /\ Len(w) \in Nat \ {0} /\ End(w) = Len(w) + 1 /\ i \in Nat /\ i >= 1
        /\ j \in i .. Len(w) /\ \A k \in i .. j : w[k] = "/"
        /\ w[j + 1] # "/"
        /\ w \in Seq(Char \cup {"/"})
    BY Skipped DEF GoodPath, AtSlash
  <1>2. j \in Nat /\ j >= 1 /\ j + 1 \in 2 .. Len(w) /\ w[j] = "/"
    BY <1>1
  <1>3. j + 1 \in Starts(w)
    BY <1>1, <1>2 DEF Starts
  <1>4. ASSUME NEW k \in Starts(w) PROVE k <= i \/ k >= j + 1
    <2>1. k \in Nat /\ w[k] # "/"
      BY <1>1 DEF Starts
    <2>2. ~(k \in i .. j)
      BY <1>1, <2>1
    <2> QED BY <1>1, <1>2, <2>1, <2>2
  <1> DEFINE q == Splitter(w, j)
  <1>5. FirstSlash(w, j + 1, q)
    BY <1>1, <1>2, Split
  <1>6. NameAfter(w, j) = SubSeq(w, j + 1, q - 1)
    BY DEF NameAfter
  <1>7. NameAt(w, j + 1) = SubSeq(w, j + 1, q - 1)
    BY DEF NameAt, Splitter
  <1> HIDE DEF q
  <1>8. /\ q \in j + 1 .. End(w) /\ q \in Nat
        /\ \A k \in j + 1 .. q - 1 : w[k] # "/"
        /\ q = End(w) \/ w[q] = "/"
    BY <1>1, <1>2, <1>5 DEF FirstSlash
  <1>9. q # j + 1
    BY <1>1, <1>2, <1>8
  <1>10. SubSeq(w, j + 1, q - 1) \in Seq(Char) /\ SubSeq(w, j + 1, q - 1) # <<>>
    <2>1. q - 1 \in j + 1 .. Len(w)
      BY <1>1, <1>2, <1>8, <1>9
    <2>2. \A k \in j + 1 .. q - 1 : w[k] \in Char
      <3> SUFFICES ASSUME NEW k \in j + 1 .. q - 1 PROVE w[k] \in Char
        OBVIOUS
      <3>1. k \in 1 .. Len(w)
        BY <1>1, <1>2, <2>1
      <3>2. w[k] \in Char \cup {"/"} /\ w[k] # "/"
        BY <1>1, <1>8, <3>1
      <3> QED BY <3>2
    <2> DEFINE a == j + 1
               b == q - 1
    <2>3. a \in 1 .. Len(w) /\ b \in a .. Len(w) /\ \A k \in a .. b : w[k] \in Char
      BY <1>1, <1>2, <2>1, <2>2
    <2>4. w \in Seq(Char \cup {"/"})
      BY <1>1
    <2> HIDE DEF a, b
    <2>5. SubSeq(w, a, b) \in Seq(Char) /\ SubSeq(w, a, b) # <<>>
      BY <2>3, <2>4, PartOfSeq, Zenon
    <2> QED BY <2>5 DEF a, b
  <1>11. NameAfter(w, j) = NameAt(w, j + 1)
    BY <1>6, <1>7
  <1>12. NameAfter(w, j) \in Seq(Char) /\ NameAfter(w, j) # <<>>
    BY <1>6, <1>10
  <1>13. i \in Nat /\ j >= i
    BY <1>1
  <1> QED BY <1>3, <1>4, <1>11, <1>12, <1>13

\* Resolv goes on to the slash before the next name.
LEMMA WalkOn ==
    ASSUME NEW w, GoodPath(w), NEW i, AtSlash(w, i), NEW j, j = SkipEmpty(w, i),
           ~AtLast(w, j), NEW c, c = LookAhead(w, Splitter(w, j)) - 1
    PROVE  /\ j # Len(w) /\ AtSlash(w, c) /\ c \in Nat /\ c >= j + 1
           /\ \A k \in Starts(w) : k <= j + 1 \/ k > c
           /\ c + 1 \in Starts(w)
  <1>1. /\ Len(w) \in Nat \ {0} /\ End(w) = Len(w) + 1 /\ i \in Nat /\ i >= 1
        /\ j \in i .. Len(w)
        /\ w \in Seq(Char \cup {"/"})
    BY Skipped DEF GoodPath, AtSlash
  <1>2. j # Len(w)
    <2> SUFFICES ASSUME j = Len(w) PROVE AtLast(w, Len(w))
      OBVIOUS
    <2>1. SkipEmpty(w, i) = Len(w)
      OBVIOUS
    <2> QED BY <2>1, NoName
  <1>3. j \in Nat /\ j >= 1 /\ j + 1 \in 2 .. Len(w) /\ w[j + 1] # "/"
    BY <1>1, <1>2, Skipped
  <1> DEFINE q == Splitter(w, j)
             f == LookAhead(w, q)
  <1>4. FirstSlash(w, j + 1, q)
    BY <1>1, <1>3, Split
  <1>5. f # End(w) /\ c = f - 1
    BY DEF AtLast
  <1>6. q # End(w)
    BY <1>5 DEF LookAhead
  <1>7. q \in 1 .. Len(w)
    <2>1. q \in j + 1 .. End(w)
      BY <1>4 DEF FirstSlash
    <2> HIDE DEF q, f
    <2> QED BY <1>1, <1>3, <1>6, <2>1 DEF End
  <1>8. FirstChar(w, q + 1, f)
    BY <1>1, <1>7, Ahead
  <1> HIDE DEF q, f
  <1>9. /\ q \in j + 1 .. End(w) /\ q \in Nat /\ w[q] = "/"
        /\ \A k \in j + 1 .. q - 1 : w[k] # "/"
    BY <1>1, <1>3, <1>4, <1>6 DEF FirstSlash
  <1>10. /\ f \in q + 1 .. Len(w) /\ f \in Nat /\ w[f] # "/"
         /\ \A k \in q + 1 .. f - 1 : w[k] = "/"
    BY <1>1, <1>5, <1>8, <1>9 DEF FirstChar
  <1>11. q # j + 1
    BY <1>3, <1>9
  <1>12. c \in Nat /\ c >= q /\ c < Len(w) /\ c + 1 = f /\ c >= j + 1 /\ q > j + 1
    BY <1>1, <1>3, <1>5, <1>9, <1>10, <1>11
  <1>13. w[c] = "/"
    <2>1. c = q \/ c \in q + 1 .. f - 1
      BY <1>9, <1>10, <1>12
    <2> QED BY <1>9, <1>10, <2>1
  <1>14. AtSlash(w, c)
    BY <1>1, <1>10, <1>12, <1>13 DEF AtSlash
  <1>15. c + 1 \in Starts(w)
    BY <1>1, <1>3, <1>10, <1>12, <1>13 DEF Starts
  <1>16. ASSUME NEW k \in Starts(w) PROVE k <= j + 1 \/ k > c
    <2>1. k \in Nat /\ k >= 2 /\ w[k] # "/" /\ w[k - 1] = "/"
      BY <1>1 DEF Starts
    <2>2. SUFFICES ASSUME k > j + 1, k <= c PROVE FALSE
      BY <1>3, <1>12, <2>1
    <2>3. CASE k <= q
      <3>1. k - 1 \in j + 1 .. q - 1
        BY <1>3, <1>9, <2>1, <2>2, <2>3
      <3> QED BY <1>9, <2>1, <3>1
    <2>4. CASE k > q
      <3>1. k \in q + 1 .. f - 1
        BY <1>9, <1>10, <1>12, <2>1, <2>2, <2>4
      <3> QED BY <1>10, <2>1, <3>1
    <2> QED BY <1>9, <2>1, <2>3, <2>4
  <1> QED BY <1>2, <1>12, <1>14, <1>15, <1>16

\* Where Resolv stops there is no further name, and slashes follow if the path ends
\* with one.
LEMMA WalkEnds ==
    ASSUME NEW w, GoodPath(w), NEW i, AtSlash(w, i), NEW j, j = SkipEmpty(w, i),
           AtLast(w, j), j # Len(w)
    PROVE  /\ \A k \in Starts(w) : k <= j + 1
           /\ HasTailingSlashes(w, j) <=> w[Len(w)] = "/"
  <1>1. /\ Len(w) \in Nat \ {0} /\ End(w) = Len(w) + 1 /\ i \in Nat /\ i >= 1
        /\ j \in i .. Len(w)
        /\ w \in Seq(Char \cup {"/"})
    BY Skipped DEF GoodPath, AtSlash
  <1>2. j \in Nat /\ j >= 1 /\ j + 1 \in 2 .. Len(w) /\ w[j + 1] # "/"
    BY <1>1, Skipped
  <1> DEFINE q == Splitter(w, j)
             f == LookAhead(w, q)
  <1>3. FirstSlash(w, j + 1, q)
    BY <1>1, <1>2, Split
  <1>4. f = End(w)
    BY DEF AtLast
  <1>5. HasTailingSlashes(w, j) <=> q # End(w)
    BY DEF HasTailingSlashes
  <1>6. ASSUME q # End(w) PROVE FirstChar(w, q + 1, f)
    <2>1. q \in 1 .. Len(w)
      BY <1>1, <1>2, <1>3, <1>6 DEF FirstSlash
    <2> QED BY <1>1, <2>1, Ahead
  <1> HIDE DEF q, f
  <1>7. /\ q \in j + 1 .. End(w) /\ q \in Nat
        /\ q = End(w) \/ w[q] = "/"
        /\ \A k \in j + 1 .. q - 1 : w[k] # "/"
    BY <1>1, <1>2, <1>3 DEF FirstSlash
  <1>8. ASSUME NEW k \in q .. Len(w) PROVE w[k] = "/"
    <2>1. q # End(w) /\ w[q] = "/"
      BY <1>1, <1>7
    <2>2. \A m \in q + 1 .. Len(w) : w[m] = "/"
      BY <1>1, <1>4, <1>6, <2>1 DEF FirstChar
    <2>3. k = q \/ k \in q + 1 .. Len(w)
      BY <1>7
    <2> QED BY <2>1, <2>2, <2>3
  <1>9. HasTailingSlashes(w, j) <=> w[Len(w)] = "/"
    <2>1. CASE q = End(w)
      <3>1. Len(w) \in j + 1 .. q - 1
        BY <1>1, <1>2, <2>1
      <3> QED BY <1>5, <1>7, <2>1, <3>1
    <2>2. CASE q # End(w)
      <3>1. Len(w) \in q .. Len(w)
        BY <1>1, <1>7, <2>2
      <3> QED BY <1>5, <1>8, <2>2, <3>1
    <2> QED BY <2>1, <2>2
  <1>10. ASSUME NEW k \in Starts(w) PROVE k <= j + 1
    <2>1. k \in Nat /\ k >= 2 /\ k <= Len(w) /\ w[k] # "/" /\ w[k - 1] = "/"
      BY <1>1 DEF Starts
    <2>2. SUFFICES ASSUME k > j + 1 PROVE FALSE
      BY <1>2, <2>1
    <2>3. CASE k <= q
      <3>1. k - 1 \in j + 1 .. q - 1
        BY <1>2, <1>7, <2>1, <2>2, <2>3
      <3> QED BY <1>7, <2>1, <3>1
    <2>4. CASE k > q
      <3>1. k \in q .. Len(w)
        BY <1>7, <2>1, <2>4
      <3> QED BY <1>8, <2>1, <3>1
    <2> QED BY <1>7, <2>1, <2>3, <2>4
  <1> QED BY <1>9, <1>10
-----------------------------------------------------------------------------
(* Names are counted by where they start. *)

LEMMA StartsFinite ==
    ASSUME NEW w \in Seq(Char \cup {"/"})
    PROVE  /\ IsFiniteSet(Starts(w)) /\ Cardinality(Starts(w)) \in Nat
           /\ Starts(w) \subseteq Nat
           /\ \A i : Rank(w, i) \in Nat /\ Rank(w, i) <= Cardinality(Starts(w))
           /\ \A i : IsFiniteSet({k \in Starts(w) : k <= i})
  <1>1. Len(w) \in Nat
    OBVIOUS
  <1>2. IsFiniteSet(2 .. Len(w)) /\ Starts(w) \subseteq 2 .. Len(w)
    BY <1>1, FS_Interval DEF Starts
  <1>3. IsFiniteSet(Starts(w))
    BY <1>2, FS_Subset
  <1>4. Cardinality(Starts(w)) \in Nat
    BY <1>3, FS_CardinalityType
  <1>5. ASSUME NEW i
        PROVE  /\ Rank(w, i) \in Nat /\ Rank(w, i) <= Cardinality(Starts(w))
               /\ IsFiniteSet({k \in Starts(w) : k <= i})
    <2> DEFINE T == {k \in Starts(w) : k <= i}
    <2>1. T \subseteq Starts(w)
      OBVIOUS
    <2> HIDE DEF T
    <2>2. IsFiniteSet(T) /\ Cardinality(T) <= Cardinality(Starts(w))
      BY <1>3, <2>1, FS_Subset
    <2>3. Cardinality(T) \in Nat
      BY <2>2, FS_CardinalityType
    <2> QED BY <2>2, <2>3 DEF Rank, T
  <1>6. Starts(w) \subseteq Nat
    BY <1>1 DEF Starts
  <1> QED BY <1>3, <1>4, <1>5, <1>6, Zenon

LEMMA RankNext ==
    ASSUME NEW w \in Seq(Char \cup {"/"}), NEW i \in Nat, NEW a \in Starts(w), i < a,
           \A k \in Starts(w) : k <= i \/ k >= a
    PROVE  Rank(w, a) = Rank(w, i) + 1
  <1> DEFINE S == {k \in Starts(w) : k <= i}
             T == {k \in Starts(w) : k <= a}
  <1>1. Starts(w) \subseteq Nat /\ IsFiniteSet(S)
    BY StartsFinite
  <1>2. T = S \cup {a} /\ a \notin S
    BY <1>1
  <1> HIDE DEF S, T
  <1>3. Cardinality(T) = Cardinality(S) + 1
    BY <1>1, <1>2, FS_AddElement
  <1> QED BY <1>3 DEF Rank, S, T

LEMMA RankSame ==
    ASSUME NEW w \in Seq(Char \cup {"/"}), NEW a \in Nat, NEW c \in Nat, a <= c,
           \A k \in Starts(w) : k <= a \/ k > c
    PROVE  Rank(w, c) = Rank(w, a)
  <1>1. Starts(w) \subseteq Nat
    BY StartsFinite
  <1>2. {k \in Starts(w) : k <= c} = {k \in Starts(w) : k <= a}
    BY <1>1
  <1> QED BY <1>2 DEF Rank

LEMMA RankAll ==
    ASSUME NEW w, NEW a, \A k \in Starts(w) : k <= a
    PROVE  Rank(w, a) = Cardinality(Starts(w))
  <1>1. {k \in Starts(w) : k <= a} = Starts(w)
    OBVIOUS
  <1> QED BY <1>1 DEF Rank

LEMMA RankOrder ==
    ASSUME NEW w \in Seq(Char \cup {"/"}), NEW a \in Starts(w), NEW b \in Starts(w), a < b
    PROVE  Rank(w, a) < Rank(w, b)
  <1> DEFINE S == {k \in Starts(w) : k <= a}
             T == {k \in Starts(w) : k <= b}
  <1>1. Starts(w) \subseteq Nat /\ IsFiniteSet(S) /\ IsFiniteSet(T)
    BY StartsFinite
  <1>2. S \subseteq T /\ b \in T /\ b \notin S
    BY <1>1
  <1> HIDE DEF S, T
  <1>3. Cardinality(S) < Cardinality(T)
    <2>1. IsFiniteSet(T \ {b}) /\ Cardinality(T \ {b}) = Cardinality(T) - 1
      BY <1>1, <1>2, FS_RemoveElement
    <2>2. S \subseteq T \ {b}
      BY <1>2
    <2>3. Cardinality(S) <= Cardinality(T \ {b})
      BY <2>1, <2>2, FS_Subset
    <2>4. Cardinality(S) \in Nat /\ Cardinality(T) \in Nat
      BY <1>1, FS_CardinalityType
    <2> QED BY <2>1, <2>3, <2>4
  <1> QED BY <1>3 DEF Rank, S, T

LEMMA ComponentAt ==
    ASSUME NEW w \in Seq(Char \cup {"/"}), NEW a \in Starts(w)
    PROVE  /\ Rank(w, a) \in 1 .. Cardinality(Starts(w))
           /\ Components(w)[Rank(w, a)] = NameAt(w, a)
  <1>1. /\ Rank(w, a) \in Nat /\ Rank(w, a) <= Cardinality(Starts(w))
        /\ Starts(w) \subseteq Nat /\ Cardinality(Starts(w)) \in Nat
        /\ IsFiniteSet({k \in Starts(w) : k <= a})
    BY StartsFinite
  <1>2. Rank(w, a) # 0
    <2>1. a \in {k \in Starts(w) : k <= a}
      BY <1>1
    <2> DEFINE T == {k \in Starts(w) : k <= a}
    <2>2. IsFiniteSet(T) /\ T # {}
      BY <1>1, <2>1
    <2> HIDE DEF T
    <2>3. Cardinality(T) # 0
      BY <2>2, FS_EmptySet
    <2> QED BY <2>3 DEF Rank, T
  <1>3. ASSUME NEW b \in Starts(w), Rank(w, b) = Rank(w, a) PROVE b = a
    <2>1. a \in Nat /\ b \in Nat /\ Rank(w, b) \in Nat
      BY <1>1, StartsFinite
    <2>2. ~(a < b) /\ ~(b < a)
      BY <1>1, <1>3, <2>1, RankOrder
    <2> QED BY <2>1, <2>2
  <1>4. (CHOOSE i \in Starts(w) : Rank(w, i) = Rank(w, a)) = a
    <2> DEFINE e == CHOOSE i \in Starts(w) : Rank(w, i) = Rank(w, a)
    <2>1. e \in Starts(w) /\ Rank(w, e) = Rank(w, a)
      OBVIOUS
    <2> HIDE DEF e
    <2>2. e = a
      BY <1>3, <2>1
    <2> QED BY <2>2 DEF e
  <1>5. Rank(w, a) \in 1 .. Cardinality(Starts(w))
    BY <1>1, <1>2
  <1>6. Components(w)[Rank(w, a)]
            = NameAt(w, CHOOSE i \in Starts(w) : Rank(w, i) = Rank(w, a))
    BY <1>5 DEF Components
  <1> QED BY <1>4, <1>5, <1>6

-----------------------------------------------------------------------------
(* The walk.  Directory d is what the names before position i lead to from r. *)
Walked(w, r, i, d) ==
    /\ d \in Seq(Seq(Char)) /\ Len(d) = Len(r) + Rank(w, i)
    /\ \A m \in 1 .. Len(r) : d[m] = r[m]
    /\ \A m \in 1 .. Rank(w, i) : d[Len(r) + m] = Components(w)[m]

LEMMA AppendIs ==
    ASSUME NEW S, NEW d \in Seq(S), NEW e \in S
    PROVE  /\ Append(d, e) \in Seq(S) /\ Len(Append(d, e)) = Len(d) + 1
           /\ \A m \in 1 .. Len(d) : Append(d, e)[m] = d[m]
           /\ Append(d, e)[Len(d) + 1] = e
           /\ Append(d, e) # <<>> /\ Append(d, e) # d
  OBVIOUS

LEMMA WalkedOne ==
    ASSUME NEW w, GoodPath(w), NEW r \in Seq(Seq(Char)), NEW i \in Nat, NEW d, Walked(w, r, i, d),
           NEW a \in Starts(w), Rank(w, a) = Rank(w, i) + 1, NameAt(w, a) \in Seq(Char),
           NEW c, Rank(w, c) = Rank(w, a)
    PROVE  Walked(w, r, c, Append(d, NameAt(w, a)))
  <1>1. w \in Seq(Char \cup {"/"})
    BY DEF GoodPath
  <1> DEFINE e == NameAt(w, a)
             g == Append(d, e)
             k == Rank(w, i)
             C == Components(w)
  <1>2. k \in Nat /\ Len(r) \in Nat
    BY <1>1, StartsFinite
  <1>3. /\ d \in Seq(Seq(Char)) /\ Len(d) = Len(r) + k
        /\ \A m \in 1 .. Len(r) : d[m] = r[m]
        /\ \A m \in 1 .. k : d[Len(r) + m] = C[m]
    BY DEF Walked
  <1>4. C[k + 1] = e
    BY <1>1, ComponentAt
  <1>5. Rank(w, c) = k + 1 /\ e \in Seq(Char)
    OBVIOUS
  <1> HIDE DEF e, k, C
  <1>6. /\ g \in Seq(Seq(Char)) /\ Len(g) = Len(d) + 1
        /\ \A m \in 1 .. Len(d) : g[m] = d[m]
        /\ g[Len(d) + 1] = e
    BY <1>3, <1>5
  <1> HIDE DEF g
  <1>7. ASSUME NEW m \in 1 .. Len(r) PROVE g[m] = r[m]
    <2>1. m \in 1 .. Len(d)
      BY <1>2, <1>3
    <2> QED BY <1>3, <1>6, <2>1
  <1>8. ASSUME NEW m \in 1 .. k + 1 PROVE g[Len(r) + m] = C[m]
    <2>1. CASE m = k + 1
      BY <1>2, <1>3, <1>4, <1>6, <2>1
    <2>2. CASE m \in 1 .. k
      <3>1. Len(r) + m \in 1 .. Len(d)
        BY <1>2, <1>3, <2>2
      <3> QED BY <1>3, <1>6, <2>2, <3>1
    <2> QED BY <1>2, <2>1, <2>2
  <1>9. Len(g) = Len(r) + (k + 1)
    BY <1>2, <1>3, <1>6
  <1>10. Walked(w, r, c, g)
    BY <1>5, <1>6, <1>7, <1>8, <1>9 DEF Walked, C
  <1> QED BY <1>10 DEF g, e

\* One round of Resolv walks one name on.
LEMMA WalkedOn ==
    ASSUME NEW w, GoodPath(w), NEW i, AtSlash(w, i), NEW j, j = SkipEmpty(w, i),
           ~AtLast(w, j), NEW c, c = LookAhead(w, Splitter(w, j)) - 1,
           NEW r \in Seq(Seq(Char)), NEW d, Walked(w, r, i, d)
    PROVE  /\ AtSlash(w, c) /\ Walked(w, r, c, Append(d, NameAfter(w, j)))
           /\ NameAfter(w, j) \in Seq(Char) /\ NameAfter(w, j) # <<>>
  <1>1. /\ j # Len(w) /\ AtSlash(w, c) /\ c \in Nat /\ c >= j + 1
        /\ \A k \in Starts(w) : k <= j + 1 \/ k > c
    BY WalkOn
  <1>2. /\ i \in Nat /\ j + 1 \in Starts(w) /\ j >= i
        /\ \A k \in Starts(w) : k <= i \/ k >= j + 1
        /\ NameAfter(w, j) = NameAt(w, j + 1)
        /\ NameAfter(w, j) \in Seq(Char) /\ NameAfter(w, j) # <<>>
    BY <1>1, NextName
  <1>3. w \in Seq(Char \cup {"/"})
    BY DEF GoodPath
  <1> DEFINE a == j + 1
  <1>4. a \in Nat /\ i < a
    <2>1. a \in Nat
      BY <1>2, <1>3, StartsFinite
    <2>2. j \in Int
      BY <1>3, Skipped
    <2> QED BY <1>2, <2>1, <2>2
  <1>5. /\ a \in Starts(w) /\ c >= a
        /\ \A k \in Starts(w) : k <= i \/ k >= a
        /\ \A k \in Starts(w) : k <= a \/ k > c
    BY <1>1, <1>2
  <1>6. NameAfter(w, j) = NameAt(w, a)
    BY <1>2
  <1> HIDE DEF a
  <1>7. Rank(w, a) = Rank(w, i) + 1
    BY <1>2, <1>3, <1>4, <1>5, RankNext
  <1>8. Rank(w, c) = Rank(w, a)
    <2>1. a <= c
      BY <1>1, <1>4, <1>5
    <2> QED BY <1>1, <1>3, <1>4, <1>5, <2>1, RankSame
  <1>9. Walked(w, r, c, Append(d, NameAt(w, a)))
    BY <1>2, <1>5, <1>6, <1>7, <1>8, WalkedOne
  <1> QED BY <1>1, <1>2, <1>6, <1>9

LEMMA ConcatIs ==
    ASSUME NEW S, NEW r \in Seq(S), NEW q \in Seq(S), NEW g \in Seq(S),
           Len(g) = Len(r) + Len(q),
           \A m \in 1 .. Len(r) : g[m] = r[m],
           \A m \in 1 .. Len(q) : g[Len(r) + m] = q[m]
    PROVE  g = r \o q
  <1>1. /\ r \o q \in Seq(S) /\ Len(r \o q) = Len(r) + Len(q)
        /\ \A m \in 1 .. Len(r) + Len(q) :
              (r \o q)[m] = IF m <= Len(r) THEN r[m] ELSE q[m - Len(r)]
    BY ConcatProperties
  <1>2. Len(r) \in Nat /\ Len(q) \in Nat
    OBVIOUS
  <1>3. ASSUME NEW m \in 1 .. Len(g) PROVE g[m] = (r \o q)[m]
    <2>1. CASE m <= Len(r)
      BY <1>1, <1>2, <2>1
    <2>2. CASE ~(m <= Len(r))
      <3>1. m - Len(r) \in 1 .. Len(q) /\ Len(r) + (m - Len(r)) = m
        BY <1>2, <2>2
      <3>2. g[m] = q[m - Len(r)]
        BY <3>1
      <3> QED BY <1>1, <1>2, <2>2, <3>2
    <2> QED BY <2>1, <2>2
  <1> QED BY <1>1, <1>3, SeqEqual

LEMMA ComponentsSeq ==
    ASSUME NEW w \in Seq(Char \cup {"/"})
    PROVE  \E S : /\ Seq(Char) \subseteq S /\ Components(w) \in Seq(S)
                  /\ Len(Components(w)) = Cardinality(Starts(w))
  <1> DEFINE N == Cardinality(Starts(w))
             C == Components(w)
             S == Seq(Char) \cup {C[m] : m \in 1 .. N}
  <1>1. N \in Nat
    BY StartsFinite
  <1>2. C = [m \in 1 .. N |-> C[m]]
    BY DEF Components
  <1> HIDE DEF C, N
  <1>3. C \in Seq(S) /\ Len(C) = N
    BY <1>1, <1>2
  <1> QED BY <1>3 DEF C, N

\* When the names that were walked are all there are, the directory is right.
LEMMA WalkedAll ==
    ASSUME NEW w, GoodPath(w), NEW r \in Seq(Seq(Char)), NEW i, NEW d, Walked(w, r, i, d),
           Rank(w, i) = Cardinality(Starts(w))
    PROVE  d = r \o Components(w)
  <1>1. w \in Seq(Char \cup {"/"})
    BY DEF GoodPath
  <1>2. PICK S : /\ Seq(Char) \subseteq S /\ Components(w) \in Seq(S)
                 /\ Len(Components(w)) = Cardinality(Starts(w))
    BY <1>1, ComponentsSeq
  <1>3. /\ d \in Seq(Seq(Char)) /\ Len(d) = Len(r) + Rank(w, i)
        /\ \A m \in 1 .. Len(r) : d[m] = r[m]
        /\ \A m \in 1 .. Rank(w, i) : d[Len(r) + m] = Components(w)[m]
    BY DEF Walked
  <1>4. r \in Seq(S) /\ d \in Seq(S)
    BY <1>2, <1>3, SeqMonotonic
  <1> DEFINE z == Components(w)
  <1>5. /\ z \in Seq(S) /\ Len(d) = Len(r) + Len(z)
        /\ \A m \in 1 .. Len(r) : d[m] = r[m]
        /\ \A m \in 1 .. Len(z) : d[Len(r) + m] = z[m]
    BY <1>2, <1>3
  <1> HIDE DEF z
  <1>6. d = r \o z
    BY <1>4, <1>5, ConcatIs
  <1> QED BY <1>6 DEF z

\* Where Resolv stops, parent and name are what the path says.
Resolution(w, r, d, e, tail) ==
    /\ d \o (IF e = <<>> THEN <<>> ELSE <<e>>) = r \o Components(w)
    /\ tail <=> Components(w) # <<>> /\ Last(w) = "/"

LEMMA EmptyComponents ==
    ASSUME NEW w \in Seq(Char \cup {"/"})
    PROVE  Components(w) = <<>> <=> Starts(w) = {}
  <1>1. /\ IsFiniteSet(Starts(w)) /\ Cardinality(Starts(w)) \in Nat
    BY StartsFinite
  <1>2. Cardinality(Starts(w)) = 0 <=> Starts(w) = {}
    BY <1>1, FS_EmptySet
  <1>3. PICK S : /\ Components(w) \in Seq(S)
                 /\ Len(Components(w)) = Cardinality(Starts(w))
    BY ComponentsSeq
  <1> QED BY <1>1, <1>2, <1>3

LEMMA WalkedEnd ==
    ASSUME NEW w, GoodPath(w), NEW i, AtSlash(w, i), NEW j, j = SkipEmpty(w, i), AtLast(w, j),
           NEW r \in Seq(Seq(Char)), NEW d, Walked(w, r, i, d)
    PROVE  /\ NameAfter(w, j) \in Seq(Char)
           /\ Resolution(w, r, d, NameAfter(w, j), HasTailingSlashes(w, j))
  <1>1. w \in Seq(Char \cup {"/"}) /\ Len(w) \in Nat /\ d \in Seq(Seq(Char))
    BY DEF GoodPath, Walked
  <1>2. CASE j = Len(w)
    <2>1. /\ i = 1 /\ Starts(w) = {} /\ NameAfter(w, j) = <<>> /\ ~HasTailingSlashes(w, j)
      <3>1. SkipEmpty(w, i) = Len(w)
        BY <1>2
      <3>2. /\ i = 1 /\ Starts(w) = {}
            /\ NameAfter(w, Len(w)) = <<>> /\ ~HasTailingSlashes(w, Len(w))
        BY <3>1, NoName
      <3> QED BY <1>2, <3>2
    <2>2. Rank(w, i) = Cardinality(Starts(w))
      BY <2>1, RankAll
    <2>3. d = r \o Components(w)
      BY <2>2, WalkedAll
    <2>4. Components(w) = <<>>
      BY <1>1, <2>1, EmptyComponents
    <2>5. d \o <<>> = d
      BY <1>1, ConcatEmptySeq
    <2>6. /\ d \o (IF NameAfter(w, j) = <<>> THEN <<>> ELSE <<NameAfter(w, j)>>)
                = r \o Components(w)
          /\ HasTailingSlashes(w, j) <=> Components(w) # <<>> /\ Last(w) = "/"
      BY <2>1, <2>3, <2>4, <2>5
    <2>7. NameAfter(w, j) \in Seq(Char)
      BY <2>1, EmptySeq
    <2> QED BY <2>6, <2>7 DEF Resolution
  <1>3. CASE j # Len(w)
    <2>1. /\ i \in Nat /\ j + 1 \in Starts(w) /\ j >= i
          /\ \A k \in Starts(w) : k <= i \/ k >= j + 1
          /\ NameAfter(w, j) = NameAt(w, j + 1)
          /\ NameAfter(w, j) \in Seq(Char) /\ NameAfter(w, j) # <<>>
      BY <1>3, NextName
    <2>2. /\ \A k \in Starts(w) : k <= j + 1
          /\ HasTailingSlashes(w, j) <=> w[Len(w)] = "/"
      BY <1>3, WalkEnds
    <2> DEFINE a == j + 1
    <2>3. a \in Starts(w) /\ a \in Nat /\ i < a
      <3>1. a \in Starts(w)
        BY <2>1
      <3>2. a \in Nat
        BY <1>1, <3>1, StartsFinite
      <3>3. j \in Int
        BY Skipped
      <3> QED BY <2>1, <3>1, <3>2, <3>3
    <2>4. /\ \A k \in Starts(w) : k <= i \/ k >= a
          /\ \A k \in Starts(w) : k <= a
          /\ NameAfter(w, j) = NameAt(w, a)
      BY <2>1, <2>2
    <2> HIDE DEF a
    <2>5. Rank(w, a) = Rank(w, i) + 1
      BY <1>1, <2>1, <2>3, <2>4, RankNext
    <2>6. Rank(w, a) = Cardinality(Starts(w))
      BY <2>4, RankAll
    <2>7. Walked(w, r, a, Append(d, NameAt(w, a)))
      BY <2>1, <2>3, <2>4, <2>5, WalkedOne
    <2>8. Append(d, NameAt(w, a)) = r \o Components(w)
      BY <2>6, <2>7, WalkedAll
    <2>9. Append(d, NameAt(w, a)) = d \o <<NameAt(w, a)>>
      BY <1>1, <2>1, <2>4
    <2>10. Components(w) # <<>>
      BY <1>1, <2>3, EmptyComponents
    <2>11. Last(w) = w[Len(w)]
      BY DEF Last
    <2> QED BY <2>1, <2>2, <2>4, <2>8, <2>9, <2>10, <2>11 DEF Resolution
  <1> QED BY <1>2, <1>3

LEMMA WalkBegins ==
    ASSUME NEW w, GoodPath(w), NEW r \in Seq(Seq(Char))
    PROVE  AtSlash(w, 1) /\ Walked(w, r, 1, r)
  <1>1. w \in Seq(Char \cup {"/"}) /\ Len(w) \in Nat \ {0} /\ w[1] = "/"
    BY DEF GoodPath
  <1>2. {k \in Starts(w) : k <= 1} = {}
    BY <1>1 DEF Starts
  <1>3. Rank(w, 1) = 0
    BY <1>2, FS_EmptySet DEF Rank
  <1>4. Len(r) \in Nat
    OBVIOUS
  <1>5. Walked(w, r, 1, r)
    BY <1>3, <1>4 DEF Walked
  <1> QED BY <1>1, <1>5 DEF AtSlash
-----------------------------------------------------------------------------
(* The invariant. *)

\* A directory is beneath directories.
DirsClosed == \A d \in DOMAIN dirs : \A m \in 0 .. Len(d) : SubSeq(d, 1, m) \in DOMAIN dirs

\* What is known of a thread by its own variables: it has a parent directory from
\* Resolu until it returns, and makes a context only at its end.  A walk is at the
\* directory that the names before its position lead to.
Origin(c) == IF c.at = NULL THEN root ELSE c.at

Own(st, c, i, d, e, tail, kp, a) ==
    /\ GoodPath(c.path) /\ c.at # root /\ a # root
    /\ st \in {"idle", "start"} => d = NULL /\ i = 1
    /\ st \in {"walk", "target", "failed"} => d # NULL
    /\ st \in {"start", "walk", "target", "failed"} => kp = NULL
    /\ st = "walk" => AtSlash(c.path, i) /\ Walked(c.path, Origin(c), i, d)
    /\ st = "target" => Resolution(c.path, Origin(c), d, e, tail)

\* The directories beneath which its walk has come may be searched.
Searched(c, d) ==
    d # NULL => \A m \in Len(Origin(c)) .. Len(d) - 1 : IsLookupOk(c.who, SubSeq(d, 1, m))

ThreadOk(t) ==
    /\ Own(stage[t], call[t], p[t], parent[t], tgt[t], slashes[t], kept[t], at[t])
    /\ Searched(call[t], parent[t])

PathInv == /\ PathTypeOK /\ DirsClosed /\ (\A t \in Thread : ThreadOk(t))
           /\ LeaseRefsExact


LEMMA PathInvImplies == PathInv => ResolvesRight /\ WalkPermitted
  <1> SUFFICES ASSUME PathInv PROVE ResolvesRight /\ WalkPermitted
    OBVIOUS
  <1>1. ASSUME NEW t \in Thread PROVE RootOf(t) = Origin(call[t])
    BY DEF RootOf, Origin
  <1>2. ASSUME NEW t \in Thread, stage[t] = "target"
        PROVE  Resolution(call[t].path, RootOf(t), parent[t], tgt[t], slashes[t])
    BY <1>1, <1>2 DEF PathInv, ThreadOk, Own
  <1>3. ASSUME NEW t \in Thread, parent[t] # NULL,
               NEW m \in Len(RootOf(t)) .. Len(parent[t]) - 1
        PROVE  IsLookupOk(call[t].who, SubSeq(parent[t], 1, m))
    BY <1>1, <1>3 DEF PathInv, ThreadOk, Searched
  <1>4. ResolvesRight
    BY <1>2 DEF ResolvesRight, Resolution
  <1> QED BY <1>3, <1>4 DEF WalkPermitted

-----------------------------------------------------------------------------
(* References: f is parent, g is kept. *)
Users(f, d) == Cardinality({t \in Thread : f[t] = d})
Fit(r, f, g) == \A d \in DOMAIN r \ {root} : r[d] = Users(f, d) + Users(g, d)

LEMMA UsersType ==
    ASSUME NEW f, NEW d
    PROVE  /\ IsFiniteSet({t \in Thread : f[t] = d}) /\ Users(f, d) \in Nat
           /\ \A t \in Thread : f[t] = d => Users(f, d) > 0
  <1> DEFINE S == {t \in Thread : f[t] = d}
  <1>1. S \subseteq Thread
    OBVIOUS
  <1>2. \A t \in Thread : f[t] = d => S # {}
    OBVIOUS
  <1> HIDE DEF S
  <1>3. IsFiniteSet(S)
    BY <1>1, ClientAssumption, FS_Subset
  <1>4. Cardinality(S) \in Nat /\ (Cardinality(S) = 0 => S = {})
    BY <1>3, FS_CardinalityType, FS_EmptySet
  <1> QED BY <1>2, <1>3, <1>4 DEF Users, S

LEMMA UsersMore ==
    ASSUME NEW f, DOMAIN f = Thread, NEW t \in Thread, NEW d, f[t] # d
    PROVE  Users([f EXCEPT ![t] = d], d) = Users(f, d) + 1
  <1> DEFINE S == {u \in Thread : f[u] = d}
             T == {u \in Thread : [f EXCEPT ![t] = d][u] = d}
  <1>1. IsFiniteSet(S)
    BY UsersType
  <1>2. T = S \cup {t} /\ t \notin S
    OBVIOUS
  <1> HIDE DEF S, T
  <1>3. Cardinality(T) = Cardinality(S) + 1
    BY <1>1, <1>2, FS_AddElement
  <1> QED BY <1>3 DEF Users, S, T

LEMMA UsersLess ==
    ASSUME NEW f, DOMAIN f = Thread, NEW t \in Thread, NEW d, f[t] = d, NEW e, e # d
    PROVE  Users([f EXCEPT ![t] = e], d) = Users(f, d) - 1
  <1> DEFINE S == {u \in Thread : f[u] = d}
             T == {u \in Thread : [f EXCEPT ![t] = e][u] = d}
  <1>1. IsFiniteSet(S)
    BY UsersType
  <1>2. T = S \ {t} /\ t \in S
    OBVIOUS
  <1> HIDE DEF S, T
  <1>3. Cardinality(T) = Cardinality(S) - 1
    BY <1>1, <1>2, FS_RemoveElement
  <1> QED BY <1>3 DEF Users, S, T

LEMMA UsersSame ==
    ASSUME NEW f, DOMAIN f = Thread, NEW t \in Thread, NEW d, f[t] # d, NEW e, e # d
    PROVE  Users([f EXCEPT ![t] = e], d) = Users(f, d)
  <1>1. {u \in Thread : [f EXCEPT ![t] = e][u] = d} = {u \in Thread : f[u] = d}
    OBVIOUS
  <1> QED BY <1>1 DEF Users

\* A thread that had no directory takes one.
LEMMA FitTake ==
    ASSUME NEW D, NEW r \in [D -> Nat], NEW f, NEW g, DOMAIN f = Thread,
           NEW t \in Thread, f[t] \notin D \/ f[t] = root, NEW d \in D, d # root, Fit(r, f, g)
    PROVE  /\ Ref(r, d) \in [D -> Nat]
           /\ Fit(Ref(r, d), [f EXCEPT ![t] = d], g)
  <1>1. Ref(r, d) = [r EXCEPT ![d] = @ + 1]
    BY DEF Ref
  <1>2. Ref(r, d) \in [D -> Nat]
    BY <1>1
  <1>3. ASSUME NEW e \in D \ {root}
        PROVE  Ref(r, d)[e] = Users([f EXCEPT ![t] = d], e) + Users(g, e)
    <2>1. r[e] = Users(f, e) + Users(g, e) /\ f[t] # e
      BY DEF Fit
    <2>2. Users(f, e) \in Nat /\ Users(g, e) \in Nat
      BY UsersType
    <2>3. CASE e = d
      <3>1. Users([f EXCEPT ![t] = d], e) = Users(f, e) + 1
        BY <2>1, <2>3, UsersMore
      <3> QED BY <1>1, <2>1, <2>2, <2>3, <3>1
    <2>4. CASE e # d
      <3>1. Users([f EXCEPT ![t] = d], e) = Users(f, e)
        BY <2>1, <2>4, UsersSame
      <3> QED BY <1>1, <2>1, <2>4, <3>1
    <2> QED BY <2>3, <2>4
  <1> QED BY <1>2, <1>3 DEF Fit

\* A thread gives its directory back.
LEMMA FitGive ==
    ASSUME NEW D, NEW r \in [D -> Nat], NEW f, NEW g, DOMAIN f = Thread,
           NEW t \in Thread, f[t] \in D, NEW e, e \notin D \/ e = root, Fit(r, f, g)
    PROVE  /\ Release(r, f[t]) \in [D -> Nat]
           /\ Fit(Release(r, f[t]), [f EXCEPT ![t] = e], g)
  <1>1. CASE f[t] = root
    <2>1. Release(r, f[t]) = r
      BY <1>1 DEF Release
    <2>2. ASSUME NEW d \in D \ {root}
          PROVE  r[d] = Users([f EXCEPT ![t] = e], d) + Users(g, d)
      <3>1. Users([f EXCEPT ![t] = e], d) = Users(f, d)
        BY <1>1, UsersSame
      <3> QED BY <3>1 DEF Fit
    <2> QED BY <2>1, <2>2 DEF Fit
  <1>2. CASE f[t] # root
    <2>1. Release(r, f[t]) = [r EXCEPT ![f[t]] = @ - 1]
      BY <1>2 DEF Release
    <2>2. r[f[t]] = Users(f, f[t]) + Users(g, f[t])
      BY <1>2 DEF Fit
    <2>3. Users(f, f[t]) \in Nat /\ Users(g, f[t]) \in Nat /\ Users(f, f[t]) > 0
      BY UsersType
    <2>4. Release(r, f[t]) \in [D -> Nat]
      BY <2>1, <2>2, <2>3
    <2>5. ASSUME NEW d \in D \ {root}
          PROVE  Release(r, f[t])[d] = Users([f EXCEPT ![t] = e], d) + Users(g, d)
      <3>1. r[d] = Users(f, d) + Users(g, d)
        BY DEF Fit
      <3>2. Users(f, d) \in Nat /\ Users(g, d) \in Nat
        BY UsersType
      <3>3. CASE d = f[t]
        <4>1. Users([f EXCEPT ![t] = e], d) = Users(f, d) - 1
          BY <3>3, UsersLess
        <4> QED BY <2>1, <3>1, <3>2, <3>3, <4>1
      <3>4. CASE d # f[t]
        <4>1. Users([f EXCEPT ![t] = e], d) = Users(f, d)
          BY <3>4, UsersSame
        <4> QED BY <2>1, <3>1, <3>4, <4>1
      <3> QED BY <3>3, <3>4
    <2> QED BY <2>4, <2>5 DEF Fit
  <1> QED BY <1>1, <1>2

\* A walk exchanges its directory for another one.
LEMMA FitSwap ==
    ASSUME NEW D, NEW r \in [D -> Nat], NEW f, NEW g, DOMAIN f = Thread, root \in D,
           NEW t \in Thread, f[t] \in D, NEW d \in D, d # root, d # f[t], Fit(r, f, g)
    PROVE  /\ Release(Ref(r, d), f[t]) \in [D -> Nat]
           /\ Fit(Release(Ref(r, d), f[t]), [f EXCEPT ![t] = d], g)
  <1> DEFINE b == Release(r, f[t])
             h == [f EXCEPT ![t] = root]
  <1>1. b \in [D -> Nat] /\ Fit(b, h, g)
    BY FitGive
  <1>2. DOMAIN h = Thread /\ h[t] = root
    OBVIOUS
  <1>3. [h EXCEPT ![t] = d] = [f EXCEPT ![t] = d]
    OBVIOUS
  <1>4. Release(Ref(r, d), f[t]) = Ref(b, d)
    BY DEF Release, Ref
  <1> HIDE DEF b, h
  <1>5. Ref(b, d) \in [D -> Nat] /\ Fit(Ref(b, d), [h EXCEPT ![t] = d], g)
    BY <1>1, <1>2, FitTake
  <1> QED BY <1>3, <1>4, <1>5

LEMMA FitBoth ==
    ASSUME NEW r, NEW f, NEW g
    PROVE  Fit(r, f, g) <=> Fit(r, g, f)
  <1>1. ASSUME NEW d PROVE Users(f, d) + Users(g, d) = Users(g, d) + Users(f, d)
    <2>1. Users(f, d) \in Nat /\ Users(g, d) \in Nat
      BY UsersType
    <2> QED BY <2>1
  <1> QED BY <1>1 DEF Fit

LEMMA FitIs ==
    ASSUME DOMAIN refs = DOMAIN dirs
    PROVE  LeaseRefsExact <=> Fit(refs, parent, kept)
  BY DEF LeaseRefsExact, Fit, Users
-----------------------------------------------------------------------------
(* Steps. *)

LEMMA RootIsNotNull == root # NULL
  <1>1. <<>> \in Seq(Seq(Char))
    BY EmptySeq
  <1>2. NULL \notin Seq(Seq(Char))
    BY PathnamesAssumption
  <1> QED BY <1>1, <1>2 DEF root

LEMMA GoodPaths == \A w \in Path \cup {NoCall.path} : GoodPath(w)
  <1>1. \A w \in Path : GoodPath(w)
    BY PathnamesAssumption DEF GoodPath
  <1>2. NoCall.path = <<"/">>
    BY DEF NoCall
  <1>3. <<"/">> \in Seq(Char \cup {"/"}) /\ <<"/">> # <<>> /\ <<"/">>[1] = "/"
    OBVIOUS
  <1> QED BY <1>1, <1>2, <1>3 DEF GoodPath

\* Directories are only added.
Grown == DOMAIN dirs \subseteq DOMAIN dirs' /\ \A d \in DOMAIN dirs : dirs'[d] = dirs[d]

LEMMA SearchedKept ==
    ASSUME PathTypeOK, DirsClosed, Grown, NEW u \in Thread,
           call'[u] = call[u], parent'[u] = parent[u], Searched(call[u], parent[u])
    PROVE  Searched(call[u], parent[u])'
  <1>1. SUFFICES ASSUME parent[u] # NULL, NEW m \in Len(Origin(call[u])) .. Len(parent[u]) - 1
                 PROVE  IsLookupOk(call[u].who, SubSeq(parent[u], 1, m))'
    BY DEF Searched, Origin
  <1>2. IsLookupOk(call[u].who, SubSeq(parent[u], 1, m))
    BY <1>1 DEF Searched
  <1>3. SubSeq(parent[u], 1, m) \in DOMAIN dirs
    <2>1. parent[u] \in DOMAIN dirs /\ parent[u] \in Seq(Seq(Char))
      BY <1>1 DEF PathTypeOK
    <2>2. call[u].at \in Seq(Seq(Char)) \cup {NULL}
      BY DEF PathTypeOK
    <2>3. Origin(call[u]) \in Seq(Seq(Char))
      BY <2>2 DEF Origin, root
    <2>4. Len(Origin(call[u])) \in Nat /\ Len(parent[u]) \in Nat
      BY <2>1, <2>3
    <2>5. m \in 0 .. Len(parent[u])
      BY <2>4
    <2> QED BY <2>1, <2>5 DEF DirsClosed
  <1>4. dirs'[SubSeq(parent[u], 1, m)] = dirs[SubSeq(parent[u], 1, m)]
    BY <1>3 DEF Grown
  <1> QED BY <1>2, <1>4 DEF IsLookupOk, Allowed

\* A step of thread t leaves the variables of the others alone.
OnlyThread(t) ==
    \A u \in Thread \ {t} :
        /\ stage'[u] = stage[u] /\ call'[u] = call[u] /\ p'[u] = p[u] /\ parent'[u] = parent[u]
        /\ tgt'[u] = tgt[u] /\ slashes'[u] = slashes[u] /\ kept'[u] = kept[u] /\ at'[u] = at[u]

LEMMA OtherThreads ==
    ASSUME PathInv, Grown, NEW t \in Thread, OnlyThread(t), ThreadOk(t)'
    PROVE  (\A u \in Thread : ThreadOk(u))'
  <1> SUFFICES ASSUME NEW u \in Thread, u # t PROVE ThreadOk(u)'
    OBVIOUS
  <1>1. ThreadOk(u)
    BY DEF PathInv
  <1>2. /\ stage'[u] = stage[u] /\ call'[u] = call[u] /\ p'[u] = p[u] /\ parent'[u] = parent[u]
        /\ tgt'[u] = tgt[u] /\ slashes'[u] = slashes[u] /\ kept'[u] = kept[u] /\ at'[u] = at[u]
    BY DEF OnlyThread
  <1>3. Own(stage[u], call[u], p[u], parent[u], tgt[u], slashes[u], kept[u], at[u])'
    BY <1>1, <1>2 DEF ThreadOk
  <1>4. Searched(call[u], parent[u])'
    BY <1>1, <1>2, SearchedKept DEF ThreadOk, PathInv
  <1> QED BY <1>3, <1>4 DEF ThreadOk

LEMMA SameDirs == ASSUME UNCHANGED dirs, DirsClosed PROVE Grown /\ DirsClosed'
  BY DEF Grown, DirsClosed

\* A thread that only changes its stage, status and what it keeps.
LEMMA Finished ==
    ASSUME PathInv, Grown, NEW t \in Thread, stage[t] = "target",
           stage' = [stage EXCEPT ![t] = "return"], Unchanged,
           OnlyThread(t), at'[t] # root
    PROVE  (\A u \in Thread : ThreadOk(u))'
  <1>1. ThreadOk(t) /\ PathTypeOK /\ DirsClosed
    BY DEF PathInv
  <1>2. /\ stage'[t] = "return" /\ call' = call /\ parent' = parent /\ p' = p
    BY <1>1 DEF PathTypeOK, Unchanged
  <1>3. Own(stage[t], call[t], p[t], parent[t], tgt[t], slashes[t], kept[t], at[t])'
    BY <1>1, <1>2 DEF ThreadOk, Own
  <1>4. Searched(call[t], parent[t])'
    BY <1>1, <1>2, SearchedKept DEF ThreadOk
  <1> QED BY <1>3, <1>4, OtherThreads DEF ThreadOk

LEMMA CallStep ==
    ASSUME PathInv, NEW t \in Thread, NEW op \in Op, NEW w \in Path, NEW who \in User,
           Call(t, op, w, who)
    PROVE  PathInv'
  <1>1. PathTypeOK /\ ThreadOk(t) /\ DirsClosed /\ LeaseRefsExact
    BY DEF PathInv
  <1> DEFINE c == [op |-> op, path |-> w, who |-> who, at |-> at[t]]
  <1>2. /\ stage[t] = "idle" /\ kept[t] = NULL /\ calls' = calls + 1 /\ calls < MaxCalls
        /\ call' = [call EXCEPT ![t] = c] /\ stage' = [stage EXCEPT ![t] = "start"]
        /\ UNCHANGED <<dirs, files, cached, refs, at, p, parent, tgt, slashes, status, kept>>
    BY DEF Call, Goto
  <1>3. PathTypeOK'
    <2>1. at[t] \in Seq(Seq(Char)) \cup {NULL}
      BY <1>1 DEF PathTypeOK
    <2>2. c \in [op : Op, path : Path \cup {NoCall.path}, who : User,
                 at : Seq(Seq(Char)) \cup {NULL}]
      BY <2>1
    <2> HIDE DEF c
    <2>3. calls + 1 \in 0 .. MaxCalls
      BY <1>1, <1>2, PathnamesAssumption DEF PathTypeOK
    <2>4. /\ call' \in [Thread -> [op : Op, path : Path \cup {NoCall.path}, who : User,
                                   at : Seq(Seq(Char)) \cup {NULL}]]
          /\ stage' \in [Thread -> {"idle", "start", "walk", "target", "failed", "return"}]
      BY <1>1, <1>2, <2>2 DEF PathTypeOK
    <2> QED BY <1>1, <1>2, <2>3, <2>4 DEF PathTypeOK
  <1>4. Grown /\ DirsClosed'
    BY <1>1, <1>2, SameDirs
  <1>5. stage'[t] = "start" /\ call'[t] = c /\ c.path = w /\ c.at = at[t]
    BY <1>1, <1>2 DEF PathTypeOK
  <1>6. ThreadOk(t)'
    <2>1. GoodPath(w)
      BY GoodPaths
    <2>2. at[t] # root /\ parent[t] = NULL /\ p[t] = 1
      BY <1>1, <1>2 DEF ThreadOk, Own
    <2> HIDE DEF c
    <2>3. Own(stage[t], call[t], p[t], parent[t], tgt[t], slashes[t], kept[t], at[t])'
      BY <1>2, <1>5, <2>1, <2>2 DEF Own
    <2>4. Searched(call[t], parent[t])'
      BY <1>2, <2>2 DEF Searched
    <2> QED BY <2>3, <2>4 DEF ThreadOk
  <1>7. OnlyThread(t)
    BY <1>1, <1>2 DEF OnlyThread, PathTypeOK
  <1>8. LeaseRefsExact'
    BY <1>1, <1>2 DEF LeaseRefsExact
  <1> QED BY <1>3, <1>4, <1>6, <1>7, <1>8, OtherThreads DEF PathInv

\* A lookup that succeeds was allowed to, and found a directory.
LEMMA LookupFinds ==
    ASSUME PathTypeOK, NEW who, NEW d, NEW mode, "OK" \in LokupAnswer(who, d, mode)
    PROVE  d \in DOMAIN dirs /\ IsLookupOk(who, Front(d))
  <1>1. DOMAIN cached \subseteq DOMAIN dirs
    BY DEF PathTypeOK
  <1>2. IsLookupOk(who, Front(d))
    BY DEF LokupAnswer
  <1>3. d \in DOMAIN cached \/ "OK" \in ServerAnswer(d)
    BY <1>2 DEF LokupAnswer
  <1> QED BY <1>1, <1>2, <1>3 DEF ServerAnswer

LEMMA CacheType ==
    ASSUME PathTypeOK, NEW d \in DOMAIN dirs, NEW mode \in LokupMode
    PROVE  /\ DOMAIN Cache(d, mode) \subseteq DOMAIN dirs
           /\ \A e \in DOMAIN Cache(d, mode) : Cache(d, mode)[e] \in LokupMode
  <1>1. DOMAIN cached \subseteq DOMAIN dirs /\ \A e \in DOMAIN cached : cached[e] \in LokupMode
    BY DEF PathTypeOK
  <1> QED BY <1>1 DEF Cache, With

LEMMA UncacheType ==
    ASSUME PathTypeOK, NEW d
    PROVE  /\ DOMAIN Uncache(d) \subseteq DOMAIN dirs
           /\ \A e \in DOMAIN Uncache(d) : Uncache(d)[e] \in LokupMode
  <1>1. DOMAIN cached \subseteq DOMAIN dirs /\ \A e \in DOMAIN cached : cached[e] \in LokupMode
    BY DEF PathTypeOK
  <1>2. Uncache(d) = [e \in DOMAIN cached \ {d} |-> cached[e]]
    BY DEF Uncache, Restrict
  <1> QED BY <1>1, <1>2

\* What is cached may change from one directory's mode to another's.
CacheOk(f) == DOMAIN f \subseteq DOMAIN dirs /\ \A e \in DOMAIN f : f[e] \in LokupMode

LEMMA OriginType ==
    ASSUME PathTypeOK, NEW t \in Thread
    PROVE  /\ Origin(call[t]) \in Seq(Seq(Char)) /\ Len(Origin(call[t])) \in Nat
           /\ call[t].at \in Seq(Seq(Char)) \cup {NULL}
  <1>1. call[t].at \in Seq(Seq(Char)) \cup {NULL}
    BY DEF PathTypeOK
  <1>2. Origin(call[t]) \in Seq(Seq(Char))
    BY <1>1 DEF Origin, root
  <1> QED BY <1>1, <1>2

\* A thread that begins to walk from a directory.
LEMMA WalkStart ==
    ASSUME PathInv, NEW t \in Thread, stage[t] = "start", Grown, OnlyThread(t),
           stage' = [stage EXCEPT ![t] = "walk"], parent' = [parent EXCEPT ![t] = Origin(call[t])],
           UNCHANGED <<at, call, p, tgt, slashes, kept>>
    PROVE  (\A u \in Thread : ThreadOk(u))'
  <1>1. PathTypeOK /\ ThreadOk(t)
    BY DEF PathInv
  <1>2. Origin(call[t]) \in Seq(Seq(Char)) /\ Len(Origin(call[t])) \in Nat
    BY <1>1, OriginType
  <1>3. /\ GoodPath(call[t].path) /\ p[t] = 1 /\ kept[t] = NULL
        /\ call[t].at # root /\ at[t] # root
    BY <1>1 DEF ThreadOk, Own
  <1>4. stage'[t] = "walk" /\ parent'[t] = Origin(call[t]) /\ call'[t] = call[t]
    BY <1>1 DEF PathTypeOK
  <1>5. AtSlash(call[t].path, 1) /\ Walked(call[t].path, Origin(call[t]), 1, Origin(call[t]))
    BY <1>2, <1>3, WalkBegins
  <1>6. Origin(call[t]) # NULL
    BY <1>2, PathnamesAssumption
  <1>7. Own(stage[t], call[t], p[t], parent[t], tgt[t], slashes[t], kept[t], at[t])'
    BY <1>3, <1>4, <1>5, <1>6 DEF Own
  <1>8. Searched(call[t], parent[t])'
    <2>1. ~ \E m \in Len(Origin(call[t])) .. Len(Origin(call[t])) - 1 : TRUE
      BY <1>2
    <2> QED BY <1>4, <2>1 DEF Searched
  <1> QED BY <1>7, <1>8, OtherThreads DEF ThreadOk

LEMMA ResoluStep ==
    ASSUME PathInv, NEW t \in Thread, Resolu(t)
    PROVE  PathInv'
  <1>1. PathTypeOK /\ ThreadOk(t) /\ DirsClosed /\ LeaseRefsExact
    BY DEF PathInv
  <1>2. /\ stage[t] = "start" /\ UNCHANGED <<dirs, files, at, call, p, tgt, slashes, kept, calls>>
    BY DEF Resolu
  <1>3. Grown /\ DirsClosed'
    BY <1>1, <1>2, SameDirs
  <1>4. Fit(refs, parent, kept) /\ DOMAIN refs = DOMAIN dirs /\ refs \in [DOMAIN dirs -> Nat]
    BY <1>1, FitIs DEF PathTypeOK
  <1>5. parent[t] = NULL /\ call[t].at # root
    BY <1>1, <1>2 DEF ThreadOk, Own
  <1>6. NULL \notin DOMAIN dirs /\ root \in DOMAIN dirs /\ DOMAIN parent = Thread
    BY <1>1, PathnamesAssumption DEF PathTypeOK
  <1>7. CASE call[t].at = NULL
    <2>1. /\ parent' = [parent EXCEPT ![t] = root] /\ stage' = [stage EXCEPT ![t] = "walk"]
          /\ UNCHANGED <<cached, refs, status>>
      BY <1>7 DEF Resolu, Goto
    <2>2. Origin(call[t]) = root
      BY <1>7 DEF Origin
    <2>3. OnlyThread(t)
      BY <1>1, <1>2, <2>1 DEF OnlyThread, PathTypeOK
    <2>4. (\A u \in Thread : ThreadOk(u))'
      BY <1>2, <1>3, <2>1, <2>2, <2>3, WalkStart
    <2>5. PathTypeOK'
      BY <1>1, <1>2, <1>6, <2>1 DEF PathTypeOK
    <2>6. LeaseRefsExact'
      <3>1. ASSUME NEW d \in DOMAIN refs \ {root}
            PROVE  refs[d] = Users([parent EXCEPT ![t] = root], d) + Users(kept, d)
        <4>0. parent[t] # d /\ root # d
          BY <1>4, <1>5, <1>6
        <4>1. Users([parent EXCEPT ![t] = root], d) = Users(parent, d)
          BY <1>6, <4>0, UsersSame
        <4> QED BY <1>4, <4>1 DEF Fit
      <3> QED BY <1>2, <1>4, <2>1, <3>1 DEF LeaseRefsExact, Users
    <2> QED BY <1>3, <2>4, <2>5, <2>6 DEF PathInv
  <1>8. CASE call[t].at # NULL
    <2>1. PICK ans \in LokupAnswer(call[t].who, call[t].at, "Regular") :
            /\ status' = [status EXCEPT ![t] = ans]
            /\ IF ans = "OK"
               THEN /\ refs' = Ref(refs, call[t].at)
                    /\ cached' = Cache(call[t].at, "Regular")
                    /\ parent' = [parent EXCEPT ![t] = call[t].at]
                    /\ Goto(t, "walk")
               ELSE Goto(t, "return") /\ UNCHANGED <<cached, refs, parent>>
      BY <1>8 DEF Resolu
    <2>2. CASE ans = "OK"
      <3>1. /\ refs' = Ref(refs, call[t].at) /\ cached' = Cache(call[t].at, "Regular")
            /\ parent' = [parent EXCEPT ![t] = call[t].at]
            /\ stage' = [stage EXCEPT ![t] = "walk"]
        BY <2>1, <2>2 DEF Goto
      <3>2. Origin(call[t]) = call[t].at
        BY <1>8 DEF Origin
      <3>3. call[t].at \in DOMAIN dirs
        BY <1>1, <2>1, <2>2, LookupFinds
      <3>4. OnlyThread(t)
        BY <1>1, <1>2, <3>1 DEF OnlyThread, PathTypeOK
      <3>5. (\A u \in Thread : ThreadOk(u))'
        BY <1>2, <1>3, <3>1, <3>2, <3>4, WalkStart
      <3>6. CacheOk(cached')
        BY <1>1, <3>1, <3>3, CacheType DEF CacheOk, LokupMode
      <3>7. /\ Ref(refs, call[t].at) \in [DOMAIN dirs -> Nat]
            /\ Fit(Ref(refs, call[t].at), [parent EXCEPT ![t] = call[t].at], kept)
        BY <1>4, <1>5, <1>6, <3>3, FitTake
      <3>8. PathTypeOK'
        BY <1>1, <1>2, <3>1, <3>3, <3>6, <3>7 DEF PathTypeOK, CacheOk
      <3>9. LeaseRefsExact'
        BY <1>2, <3>1, <3>7 DEF LeaseRefsExact, Fit, Users
      <3> QED BY <1>3, <3>5, <3>8, <3>9 DEF PathInv
    <2>3. CASE ans # "OK"
      <3>1. stage' = [stage EXCEPT ![t] = "return"] /\ UNCHANGED <<cached, refs, parent>>
        BY <2>1, <2>3 DEF Goto
      <3>2. OnlyThread(t)
        BY <1>1, <1>2, <3>1 DEF OnlyThread, PathTypeOK
      <3>3. stage'[t] = "return"
        BY <1>1, <3>1 DEF PathTypeOK
      <3>4. ThreadOk(t)'
        <4>1. Own(stage[t], call[t], p[t], parent[t], tgt[t], slashes[t], kept[t], at[t])'
          BY <1>1, <1>2, <3>1, <3>3 DEF ThreadOk, Own
        <4>2. Searched(call[t], parent[t])'
          BY <1>5, <3>1 DEF Searched
        <4> QED BY <4>1, <4>2 DEF ThreadOk
      <3>5. PathTypeOK'
        BY <1>1, <1>2, <3>1 DEF PathTypeOK
      <3>6. LeaseRefsExact'
        BY <1>1, <1>2, <3>1 DEF LeaseRefsExact
      <3> QED BY <1>3, <3>2, <3>4, <3>5, <3>6, OtherThreads DEF PathInv
    <2> QED BY <2>2, <2>3
  <1> QED BY <1>7, <1>8

LEMMA FrontAppend ==
    ASSUME NEW d \in Seq(Seq(Char)), NEW e \in Seq(Char)
    PROVE  /\ Front(Append(d, e)) = d /\ Append(d, e) # root /\ Append(d, e) # d
           /\ Append(d, e) \in Seq(Seq(Char)) /\ Len(Append(d, e)) = Len(d) + 1
           /\ Len(d) \in Nat
           /\ \A m \in 0 .. Len(d) : SubSeq(Append(d, e), 1, m) = SubSeq(d, 1, m)
           /\ SubSeq(d, 1, Len(d)) = d
  <1> DEFINE g == Append(d, e)
  <1>1. /\ g \in Seq(Seq(Char)) /\ Len(g) = Len(d) + 1 /\ Len(d) \in Nat
        /\ \A m \in 1 .. Len(d) : g[m] = d[m]
        /\ g # <<>> /\ g # d
    BY AppendIs
  <1>2. SubSeq(d, 1, Len(d)) = d
    BY SubSeqFull
  <1> HIDE DEF g
  <1>3. ASSUME NEW m \in 0 .. Len(d) PROVE SubSeq(g, 1, m) = SubSeq(d, 1, m)
    <2>1. m \in Int /\ \A k \in 1 .. m : g[k] = d[k] /\ d[k] \in Seq(Char)
      BY <1>1
    <2>2. /\ SubSeq(g, 1, m) \in Seq(Seq(Char))
          /\ Len(SubSeq(g, 1, m)) = IF 1 <= m THEN m - 1 + 1 ELSE 0
          /\ \A k \in 1 .. m - 1 + 1 : SubSeq(g, 1, m)[k] = g[1 + k - 1]
      BY <2>1, SubSeqProperties
    <2>3. /\ SubSeq(d, 1, m) \in Seq(Seq(Char))
          /\ Len(SubSeq(d, 1, m)) = IF 1 <= m THEN m - 1 + 1 ELSE 0
          /\ \A k \in 1 .. m - 1 + 1 : SubSeq(d, 1, m)[k] = d[1 + k - 1]
      BY <2>1, SubSeqProperties
    <2>4. Len(SubSeq(g, 1, m)) = m /\ Len(SubSeq(d, 1, m)) = m
      BY <1>1, <2>2, <2>3
    <2>5. ASSUME NEW k \in 1 .. m PROVE SubSeq(g, 1, m)[k] = SubSeq(d, 1, m)[k]
      <3>1. k \in 1 .. m - 1 + 1 /\ 1 + k - 1 = k
        BY <1>1
      <3> QED BY <2>1, <2>2, <2>3, <3>1
    <2> QED BY <2>2, <2>3, <2>4, <2>5, SeqEqual
  <1>4. Front(g) = SubSeq(g, 1, Len(d))
    BY <1>1 DEF Front
  <1>5. Front(g) = d
    BY <1>1, <1>2, <1>3, <1>4
  <1> QED BY <1>1, <1>2, <1>3, <1>5 DEF g, root

LEMMA ResolvStep ==
    ASSUME PathInv, NEW t \in Thread, Resolv(t)
    PROVE  PathInv'
  <1> DEFINE w == call[t].path
             i == SkipEmpty(w, p[t])
             e == NameAfter(w, i)
             child == Append(parent[t], e)
             c == LookAhead(w, Splitter(w, i)) - 1
  <1>1. PathTypeOK /\ ThreadOk(t) /\ DirsClosed /\ LeaseRefsExact
    BY DEF PathInv
  <1>2. /\ stage[t] = "walk" /\ ~AtLast(w, i) /\ p' = [p EXCEPT ![t] = c]
        /\ UNCHANGED <<dirs, files, at, call, slashes, kept, calls>>
    BY DEF Resolv
  <1>3. PICK ans \in LokupAnswer(call[t].who, child, "Regular") :
            /\ status' = [status EXCEPT ![t] = ans]
            /\ IF ans = "OK"
               THEN /\ refs' = Release(Ref(refs, child), parent[t])
                    /\ cached' = Cache(child, "Regular")
                    /\ parent' = [parent EXCEPT ![t] = child]
                    /\ UNCHANGED <<stage, tgt>>
               ELSE /\ tgt' = [tgt EXCEPT ![t] = e]
                    /\ Goto(t, "failed")
                    /\ UNCHANGED <<cached, refs, parent>>
    BY DEF Resolv
  <1>4. Grown /\ DirsClosed'
    BY <1>1, <1>2, SameDirs
  <1>5. Fit(refs, parent, kept) /\ DOMAIN refs = DOMAIN dirs /\ refs \in [DOMAIN dirs -> Nat]
    BY <1>1, FitIs DEF PathTypeOK
  <1>6. /\ GoodPath(w) /\ call[t].at # root /\ at[t] # root /\ parent[t] # NULL /\ kept[t] = NULL
        /\ AtSlash(w, p[t]) /\ Walked(w, Origin(call[t]), p[t], parent[t])
    BY <1>1, <1>2 DEF ThreadOk, Own
  <1>7. /\ NULL \notin DOMAIN dirs /\ root \in DOMAIN dirs /\ DOMAIN parent = Thread
        /\ parent[t] \in DOMAIN dirs /\ parent[t] \in Seq(Seq(Char))
    BY <1>1, <1>6, PathnamesAssumption DEF PathTypeOK
  <1>8. Origin(call[t]) \in Seq(Seq(Char)) /\ Len(Origin(call[t])) \in Nat
    BY <1>1, OriginType
  <1>9. /\ AtSlash(w, c) /\ Walked(w, Origin(call[t]), c, child)
        /\ e \in Seq(Char) /\ e # <<>>
    BY <1>2, <1>6, <1>8, WalkedOn
  <1>10. c \in Nat
    <2>1. Len(w) \in Nat
      BY <1>6 DEF GoodPath
    <2> QED BY <1>9, <2>1 DEF AtSlash
  <1>11. /\ Front(child) = parent[t] /\ child # root /\ child # parent[t]
         /\ Len(child) = Len(parent[t]) + 1 /\ Len(parent[t]) \in Nat
         /\ \A m \in 0 .. Len(parent[t]) : SubSeq(child, 1, m) = SubSeq(parent[t], 1, m)
         /\ SubSeq(parent[t], 1, Len(parent[t])) = parent[t]
         /\ child \in Seq(Seq(Char))
    BY <1>7, <1>9, FrontAppend
  <1>12. call'[t] = call[t] /\ p'[t] = c /\ p' \in [Thread -> Nat]
    BY <1>1, <1>2, <1>10 DEF PathTypeOK
  <1> HIDE DEF c, child, e, i
  <1>13. CASE ans = "OK"
    <2>1. /\ refs' = Release(Ref(refs, child), parent[t]) /\ cached' = Cache(child, "Regular")
          /\ parent' = [parent EXCEPT ![t] = child] /\ UNCHANGED <<stage, tgt>>
      BY <1>3, <1>13
    <2>2. child \in DOMAIN dirs /\ IsLookupOk(call[t].who, parent[t])
      BY <1>1, <1>3, <1>11, <1>13, LookupFinds
    <2>3. OnlyThread(t)
      BY <1>1, <1>2, <2>1 DEF OnlyThread, PathTypeOK
    <2>4. parent'[t] = child /\ child # NULL
      BY <1>7, <2>1, <2>2
    <2>5. CacheOk(cached')
      BY <1>1, <2>1, <2>2, CacheType DEF CacheOk, LokupMode
    <2>6. /\ Release(Ref(refs, child), parent[t]) \in [DOMAIN dirs -> Nat]
          /\ Fit(Release(Ref(refs, child), parent[t]), [parent EXCEPT ![t] = child], kept)
      BY <1>5, <1>7, <1>11, <2>2, FitSwap
    <2>7. PathTypeOK'
      BY <1>1, <1>2, <1>12, <2>1, <2>2, <2>5, <2>6 DEF PathTypeOK, CacheOk
    <2>8. LeaseRefsExact'
      BY <1>2, <2>1, <2>6 DEF LeaseRefsExact, Fit, Users
    <2>9. Own(stage[t], call[t], p[t], parent[t], tgt[t], slashes[t], kept[t], at[t])'
      BY <1>2, <1>6, <1>9, <1>12, <2>1, <2>4 DEF Own
    <2>10. Searched(call[t], parent[t])'
      <3>1. SUFFICES ASSUME NEW m \in Len(Origin(call[t])) .. Len(child) - 1
                     PROVE  IsLookupOk(call[t].who, SubSeq(parent[t], 1, m))'
        BY <1>12, <2>4 DEF Searched, Origin
      <3>2. m \in 0 .. Len(parent[t])
        BY <1>8, <1>11
      <3>3. SubSeq(child, 1, m) = SubSeq(parent[t], 1, m)
        BY <1>11, <3>2
      <3>4. IsLookupOk(call[t].who, SubSeq(parent[t], 1, m))
        <4>1. CASE m = Len(parent[t])
          BY <1>11, <2>2, <4>1
        <4>2. CASE m # Len(parent[t])
          <5>1. m \in Len(Origin(call[t])) .. Len(parent[t]) - 1
            BY <1>8, <1>11, <3>2, <4>2
          <5> QED BY <1>1, <1>6, <5>1 DEF ThreadOk, Searched
        <4> QED BY <4>1, <4>2
      <3>5. SubSeq(parent'[t], 1, m) = SubSeq(parent[t], 1, m)
        BY <2>4, <3>3
      <3> QED BY <1>2, <1>12, <3>4, <3>5 DEF IsLookupOk, Allowed
    <2>11. ThreadOk(t)'
      BY <2>9, <2>10 DEF ThreadOk
    <2> QED BY <1>4, <2>3, <2>7, <2>8, <2>11, OtherThreads DEF PathInv
  <1>14. CASE ans # "OK"
    <2>1. /\ tgt' = [tgt EXCEPT ![t] = e] /\ stage' = [stage EXCEPT ![t] = "failed"]
          /\ UNCHANGED <<cached, refs, parent>>
      BY <1>3, <1>14 DEF Goto
    <2>2. OnlyThread(t)
      BY <1>1, <1>2, <2>1 DEF OnlyThread, PathTypeOK
    <2>3. stage'[t] = "failed"
      BY <1>1, <2>1 DEF PathTypeOK
    <2>4. PathTypeOK'
      BY <1>1, <1>2, <1>9, <1>12, <2>1 DEF PathTypeOK
    <2>5. LeaseRefsExact'
      BY <1>1, <1>2, <2>1 DEF LeaseRefsExact
    <2>6. Own(stage[t], call[t], p[t], parent[t], tgt[t], slashes[t], kept[t], at[t])'
      BY <1>2, <1>6, <1>12, <2>1, <2>3 DEF Own
    <2>7. Searched(call[t], parent[t])'
      BY <1>1, <1>4, <1>12, <2>1, SearchedKept DEF ThreadOk
    <2>8. ThreadOk(t)'
      BY <2>6, <2>7 DEF ThreadOk
    <2> QED BY <1>4, <2>2, <2>4, <2>5, <2>8, OtherThreads DEF PathInv
  <1> QED BY <1>13, <1>14

LEMMA ResolvedStep ==
    ASSUME PathInv, NEW t \in Thread, Resolved(t)
    PROVE  PathInv'
  <1> DEFINE w == call[t].path
             i == SkipEmpty(w, p[t])
             e == NameAfter(w, i)
             b == HasTailingSlashes(w, i)
  <1>1. PathTypeOK /\ ThreadOk(t) /\ DirsClosed /\ LeaseRefsExact
    BY DEF PathInv
  <1>2. /\ stage[t] = "walk" /\ AtLast(w, i)
        /\ tgt' = [tgt EXCEPT ![t] = e]
        /\ slashes' = [slashes EXCEPT ![t] = b]
        /\ stage' = [stage EXCEPT ![t] = "target"]
        /\ UNCHANGED <<dirs, files, cached, refs, at, call, p, parent, status, kept, calls>>
    BY DEF Resolved, Goto
  <1>3. Grown /\ DirsClosed'
    BY <1>1, <1>2, SameDirs
  <1>4. /\ GoodPath(w) /\ call[t].at # root /\ at[t] # root /\ parent[t] # NULL /\ kept[t] = NULL
        /\ AtSlash(w, p[t]) /\ Walked(w, Origin(call[t]), p[t], parent[t])
    BY <1>1, <1>2 DEF ThreadOk, Own
  <1>5. Origin(call[t]) \in Seq(Seq(Char))
    BY <1>1, OriginType
  <1>6. /\ e \in Seq(Char)
        /\ Resolution(w, Origin(call[t]), parent[t], e, b)
    BY <1>2, <1>4, <1>5, WalkedEnd
  <1>7. b \in BOOLEAN
    BY DEF HasTailingSlashes
  <1> HIDE DEF i, e, b
  <1>8. stage'[t] = "target" /\ tgt'[t] = e /\ slashes'[t] = b /\ call'[t] = call[t]
    BY <1>1, <1>2 DEF PathTypeOK
  <1>9. PathTypeOK'
    BY <1>1, <1>2, <1>6, <1>7 DEF PathTypeOK
  <1>10. LeaseRefsExact'
    BY <1>1, <1>2 DEF LeaseRefsExact
  <1>11. Own(stage[t], call[t], p[t], parent[t], tgt[t], slashes[t], kept[t], at[t])'
    BY <1>2, <1>4, <1>6, <1>8 DEF Own
  <1>12. Searched(call[t], parent[t])'
    BY <1>1, <1>2, <1>3, SearchedKept DEF ThreadOk
  <1>13. OnlyThread(t)
    BY <1>1, <1>2 DEF OnlyThread, PathTypeOK
  <1>14. ThreadOk(t)'
    BY <1>11, <1>12 DEF ThreadOk
  <1> QED BY <1>3, <1>9, <1>10, <1>13, <1>14, OtherThreads DEF PathInv

\* What is known of a thread that is at its target.
LEMMA AtTarget ==
    ASSUME PathInv, NEW t \in Thread, stage[t] = "target"
    PROVE  /\ PathTypeOK /\ ThreadOk(t) /\ DirsClosed /\ LeaseRefsExact
           /\ parent[t] \in DOMAIN dirs /\ kept[t] = NULL /\ at[t] # root
           /\ Target(t) # root /\ Front(Target(t)) = parent[t] /\ Target(t) \in Seq(Seq(Char))
           /\ \A m \in 0 .. Len(Target(t)) :
                 m = Len(Target(t)) \/ SubSeq(Target(t), 1, m) \in DOMAIN dirs
           /\ SubSeq(Target(t), 1, Len(Target(t))) = Target(t)
  <1>1. PathTypeOK /\ ThreadOk(t) /\ DirsClosed /\ LeaseRefsExact
    BY DEF PathInv
  <1>2. parent[t] # NULL /\ kept[t] = NULL /\ at[t] # root
    BY <1>1 DEF ThreadOk, Own
  <1>3. parent[t] \in DOMAIN dirs /\ parent[t] \in Seq(Seq(Char)) /\ tgt[t] \in Seq(Char)
    BY <1>1, <1>2 DEF PathTypeOK
  <1> DEFINE g == Append(parent[t], tgt[t])
  <1>4. /\ Front(g) = parent[t] /\ g # root /\ g \in Seq(Seq(Char))
        /\ Len(g) = Len(parent[t]) + 1 /\ Len(parent[t]) \in Nat
        /\ \A m \in 0 .. Len(parent[t]) : SubSeq(g, 1, m) = SubSeq(parent[t], 1, m)
    BY <1>3, FrontAppend
  <1>5. Target(t) = g
    BY DEF Target
  <1> HIDE DEF g
  <1>6. SubSeq(g, 1, Len(g)) = g
    BY <1>4, SubSeqFull
  <1>7. ASSUME NEW m \in 0 .. Len(g), m # Len(g) PROVE SubSeq(g, 1, m) \in DOMAIN dirs
    <2>1. m \in 0 .. Len(parent[t])
      BY <1>4, <1>7
    <2> QED BY <1>1, <1>3, <1>4, <2>1 DEF DirsClosed
  <1> QED BY <1>1, <1>2, <1>3, <1>4, <1>5, <1>6, <1>7

LEMMA MkfleStep ==
    ASSUME PathInv, NEW t \in Thread, Mkfle(t)
    PROVE  PathInv'
  <1>1. /\ stage[t] = "target" /\ stage' = [stage EXCEPT ![t] = "return"] /\ Unchanged
        /\ UNCHANGED <<dirs, cached, refs, at, kept>>
        /\ files' \subseteq files \cup {Target(t)}
    BY DEF Mkfle, Finish, Goto
  <1>2. /\ PathTypeOK /\ DirsClosed /\ LeaseRefsExact /\ at[t] # root
        /\ Target(t) \in Seq(Seq(Char))
    BY <1>1, AtTarget
  <1>3. Grown /\ DirsClosed'
    BY <1>1, <1>2, SameDirs
  <1>4. OnlyThread(t)
    BY <1>1, <1>2 DEF OnlyThread, PathTypeOK, Unchanged
  <1>5. (\A u \in Thread : ThreadOk(u))'
    BY <1>1, <1>2, <1>3, <1>4, Finished
  <1>6. PathTypeOK'
    BY <1>1, <1>2 DEF PathTypeOK, Unchanged
  <1>7. LeaseRefsExact'
    BY <1>1, <1>2 DEF LeaseRefsExact, Unchanged
  <1> QED BY <1>3, <1>5, <1>6, <1>7 DEF PathInv

LEMMA LstatStep ==
    ASSUME PathInv, NEW t \in Thread, Lstat(t)
    PROVE  PathInv'
  <1>1. /\ stage[t] = "target" /\ stage' = [stage EXCEPT ![t] = "return"] /\ Unchanged
        /\ UNCHANGED <<dirs, files, cached, refs, at, kept>>
    BY DEF Lstat, Finish, Goto
  <1>2. /\ PathTypeOK /\ DirsClosed /\ LeaseRefsExact /\ at[t] # root
    BY <1>1, AtTarget
  <1>3. Grown /\ DirsClosed'
    BY <1>1, <1>2, SameDirs
  <1>4. OnlyThread(t)
    BY <1>1, <1>2 DEF OnlyThread, PathTypeOK, Unchanged
  <1>5. (\A u \in Thread : ThreadOk(u))'
    BY <1>1, <1>2, <1>3, <1>4, Finished
  <1>6. PathTypeOK'
    BY <1>1, <1>2 DEF PathTypeOK, Unchanged
  <1>7. LeaseRefsExact'
    BY <1>1, <1>2 DEF LeaseRefsExact, Unchanged
  <1> QED BY <1>3, <1>5, <1>6, <1>7 DEF PathInv

LEMMA AtdirStep ==
    ASSUME PathInv, NEW t \in Thread, Atdir(t)
    PROVE  PathInv'
  <1>1. /\ stage[t] = "target" /\ stage' = [stage EXCEPT ![t] = "return"] /\ Unchanged
        /\ at' = [at EXCEPT ![t] = IF tgt[t] = <<>> THEN NULL ELSE Target(t)]
        /\ UNCHANGED <<dirs, files, cached, refs, kept>>
    BY DEF Atdir, Finish, Goto
  <1>2. /\ PathTypeOK /\ DirsClosed /\ LeaseRefsExact
        /\ Target(t) \in Seq(Seq(Char)) /\ Target(t) # root
    BY <1>1, AtTarget
  <1>3. Grown /\ DirsClosed'
    BY <1>1, <1>2, SameDirs
  <1>4. OnlyThread(t)
    BY <1>1, <1>2 DEF OnlyThread, PathTypeOK, Unchanged
  <1>5. root # NULL
    BY RootIsNotNull
  <1>6. at'[t] # root /\ at' \in [Thread -> Seq(Seq(Char)) \cup {NULL}]
    BY <1>1, <1>2, <1>5 DEF PathTypeOK
  <1>7. (\A u \in Thread : ThreadOk(u))'
    BY <1>1, <1>2, <1>3, <1>4, <1>6, Finished
  <1>8. PathTypeOK'
    BY <1>1, <1>2, <1>6 DEF PathTypeOK, Unchanged
  <1>9. LeaseRefsExact'
    BY <1>1, <1>2 DEF LeaseRefsExact, Unchanged
  <1> QED BY <1>3, <1>7, <1>8, <1>9 DEF PathInv

LEMMA InitContextStep ==
    ASSUME PathInv, NEW t \in Thread, stage[t] = "target", NEW mode \in LokupMode,
           InitContext(t, mode)
    PROVE  PathInv'
  <1>1. /\ stage' = [stage EXCEPT ![t] = "return"] /\ Unchanged /\ UNCHANGED <<dirs, files, at>>
    BY DEF InitContext, Finish, Goto
  <1>2. /\ PathTypeOK /\ DirsClosed /\ LeaseRefsExact /\ at[t] # root /\ kept[t] = NULL
        /\ Target(t) \in Seq(Seq(Char)) /\ Target(t) # root
    BY AtTarget
  <1>3. Grown /\ DirsClosed'
    BY <1>1, <1>2, SameDirs
  <1>4. CASE UNCHANGED <<cached, refs, kept>>
    <2>1. OnlyThread(t)
      BY <1>1, <1>2, <1>4 DEF OnlyThread, PathTypeOK, Unchanged
    <2>2. (\A u \in Thread : ThreadOk(u))'
      BY <1>1, <1>2, <1>3, <2>1, Finished
    <2>3. PathTypeOK'
      BY <1>1, <1>2, <1>4 DEF PathTypeOK, Unchanged
    <2>4. LeaseRefsExact'
      BY <1>1, <1>2, <1>4 DEF LeaseRefsExact, Unchanged
    <2> QED BY <1>3, <2>2, <2>3, <2>4 DEF PathInv
  <1>5. ASSUME "OK" \in LokupAnswer(call[t].who, Target(t), mode),
               refs' = Ref(refs, Target(t)), cached' = Cache(Target(t), mode),
               kept' = [kept EXCEPT ![t] = Target(t)]
        PROVE  PathInv'
    <2>1. Target(t) \in DOMAIN dirs
      BY <1>2, <1>5, LookupFinds
    <2>2. OnlyThread(t)
      BY <1>1, <1>2, <1>5 DEF OnlyThread, PathTypeOK, Unchanged
    <2>3. (\A u \in Thread : ThreadOk(u))'
      BY <1>1, <1>2, <1>3, <2>2, Finished
    <2>4. CacheOk(cached')
      BY <1>2, <1>5, <2>1, CacheType DEF CacheOk
    <2>5. Fit(refs, kept, parent) /\ refs \in [DOMAIN dirs -> Nat] /\ DOMAIN kept = Thread
      BY <1>2, FitIs, FitBoth DEF PathTypeOK
    <2>6. NULL \notin DOMAIN dirs
      BY <1>2, PathnamesAssumption DEF PathTypeOK
    <2>7. /\ Ref(refs, Target(t)) \in [DOMAIN dirs -> Nat]
          /\ Fit(Ref(refs, Target(t)), [kept EXCEPT ![t] = Target(t)], parent)
      BY <1>2, <2>1, <2>5, <2>6, FitTake
    <2>8. PathTypeOK'
      BY <1>1, <1>2, <1>5, <2>1, <2>4, <2>7 DEF PathTypeOK, Unchanged, CacheOk
    <2>9. Fit(refs', parent', kept')
      BY <1>1, <1>5, <2>7, FitBoth DEF Unchanged
    <2>10. LeaseRefsExact'
      BY <1>1, <1>5, <2>7, <2>9 DEF LeaseRefsExact, Fit, Users
    <2> QED BY <1>3, <2>3, <2>8, <2>10 DEF PathInv
  <1>6. \/ UNCHANGED <<cached, refs, kept>>
        \/ /\ "OK" \in LokupAnswer(call[t].who, Target(t), mode)
           /\ refs' = Ref(refs, Target(t)) /\ cached' = Cache(Target(t), mode)
           /\ kept' = [kept EXCEPT ![t] = Target(t)]
    BY DEF InitContext
  <1> QED BY <1>4, <1>5, <1>6

LEMMA MkdirStep ==
    ASSUME PathInv, NEW t \in Thread, NEW mode \in Mode, Mkdir(t, mode)
    PROVE  PathInv'
  <1>1. /\ stage[t] = "target" /\ stage' = [stage EXCEPT ![t] = "return"] /\ Unchanged
        /\ UNCHANGED <<files, cached, at, kept>>
    BY DEF Mkdir, Finish, Goto
  <1> DEFINE d == Target(t)
             a == [owner |-> call[t].who, mode |-> mode]
  <1>2. /\ PathTypeOK /\ DirsClosed /\ LeaseRefsExact /\ at[t] # root
        /\ d \in Seq(Seq(Char)) /\ SubSeq(d, 1, Len(d)) = d
        /\ \A m \in 0 .. Len(d) : m = Len(d) \/ SubSeq(d, 1, m) \in DOMAIN dirs
    BY <1>1, AtTarget
  <1>3. OnlyThread(t)
    BY <1>1, <1>2 DEF OnlyThread, PathTypeOK, Unchanged
  <1>4. CASE UNCHANGED <<dirs, refs>>
    <2>1. Grown /\ DirsClosed'
      BY <1>2, <1>4, SameDirs
    <2>2. (\A u \in Thread : ThreadOk(u))'
      BY <1>1, <1>2, <1>3, <2>1, Finished
    <2>3. PathTypeOK'
      BY <1>1, <1>2, <1>4 DEF PathTypeOK, Unchanged
    <2>4. LeaseRefsExact'
      BY <1>1, <1>2, <1>4 DEF LeaseRefsExact, Unchanged
    <2> QED BY <2>1, <2>2, <2>3, <2>4 DEF PathInv
  <1>5. ASSUME d \notin DOMAIN dirs, dirs' = With(dirs, d, a), refs' = With(refs, d, 0)
        PROVE  PathInv'
    <2>1. a \in [owner : User, mode : Mode \cup {AllPerms}]
      BY <1>2 DEF PathTypeOK
    <2> HIDE DEF d, a
    <2>2. /\ DOMAIN dirs' = DOMAIN dirs \cup {d} /\ dirs'[d] = a
          /\ \A e \in DOMAIN dirs : dirs'[e] = dirs[e]
      BY <1>5 DEF With
    <2>3. Grown
      BY <2>2 DEF Grown
    <2>4. DirsClosed'
      <3>1. ASSUME NEW e \in DOMAIN dirs \cup {d}, NEW m \in 0 .. Len(e)
            PROVE  SubSeq(e, 1, m) \in DOMAIN dirs \cup {d}
        BY <1>2 DEF DirsClosed
      <3> QED BY <2>2, <3>1 DEF DirsClosed
    <2>5. /\ DOMAIN refs' = DOMAIN dirs \cup {d} /\ refs'[d] = 0
          /\ \A e \in DOMAIN dirs : refs'[e] = refs[e]
      BY <1>2, <1>5 DEF With, PathTypeOK
    <2>6. refs' \in [DOMAIN dirs' -> Nat]
      <3>1. refs' = [e \in DOMAIN dirs \cup {d} |-> refs'[e]]
        BY <1>2, <1>5 DEF With, PathTypeOK
      <3>2. \A e \in DOMAIN dirs \cup {d} : refs'[e] \in Nat
        <4>1. refs \in [DOMAIN dirs -> Nat]
          BY <1>2 DEF PathTypeOK
        <4> QED BY <2>5, <4>1
      <3> QED BY <2>2, <3>1, <3>2
    <2>7. (\A u \in Thread : ThreadOk(u))'
      BY <1>1, <1>2, <1>3, <2>3, Finished
    <2>8. PathTypeOK'
      <3>1. /\ root \in DOMAIN dirs /\ \A e \in DOMAIN dirs : e \in Seq(Seq(Char))
            /\ \A e \in DOMAIN dirs : dirs[e] \in [owner : User, mode : Mode \cup {AllPerms}]
            /\ DOMAIN cached \subseteq DOMAIN dirs
            /\ parent \in [Thread -> DOMAIN dirs \cup {NULL}]
            /\ kept \in [Thread -> DOMAIN dirs \cup {NULL}]
        BY <1>2 DEF PathTypeOK
      <3>2. /\ root \in DOMAIN dirs' /\ \A e \in DOMAIN dirs' : e \in Seq(Seq(Char))
            /\ \A e \in DOMAIN dirs' : dirs'[e] \in [owner : User, mode : Mode \cup {AllPerms}]
            /\ DOMAIN cached \subseteq DOMAIN dirs'
        BY <1>2, <2>1, <2>2, <3>1
      <3>3. /\ parent \in [Thread -> DOMAIN dirs' \cup {NULL}]
            /\ kept \in [Thread -> DOMAIN dirs' \cup {NULL}]
        BY <2>2, <3>1
      <3>4. stage' \in [Thread -> {"idle", "start", "walk", "target", "failed", "return"}]
        BY <1>1, <1>2 DEF PathTypeOK
      <3> QED BY <1>1, <1>2, <2>6, <3>2, <3>3, <3>4 DEF PathTypeOK, Unchanged
    <2>9. LeaseRefsExact'
      <3>1. d # NULL
        BY <1>2, PathnamesAssumption
      <3>2. \A u \in Thread : parent[u] # d /\ kept[u] # d
        <4>1. /\ parent \in [Thread -> DOMAIN dirs \cup {NULL}]
              /\ kept \in [Thread -> DOMAIN dirs \cup {NULL}]
          BY <1>2 DEF PathTypeOK
        <4> QED BY <1>5, <3>1, <4>1
      <3>3. {u \in Thread : parent[u] = d} = {} /\ {u \in Thread : kept[u] = d} = {}
        BY <3>2
      <3>4. 0 = Cardinality({u \in Thread : parent[u] = d}) + Cardinality({u \in Thread : kept[u] = d})
        BY <3>3, FS_EmptySet
      <3>5. \A e \in DOMAIN dirs \ {root} :
               refs[e] = Cardinality({u \in Thread : parent[u] = e})
                         + Cardinality({u \in Thread : kept[u] = e})
        BY <1>2 DEF LeaseRefsExact
      <3>6. parent' = parent /\ kept' = kept
        BY <1>1 DEF Unchanged
      <3>7. \A e \in (DOMAIN dirs \cup {d}) \ {root} :
               refs'[e] = Cardinality({u \in Thread : parent[u] = e})
                          + Cardinality({u \in Thread : kept[u] = e})
        BY <2>5, <3>4, <3>5
      <3> QED BY <2>2, <3>6, <3>7 DEF LeaseRefsExact
    <2> QED BY <2>4, <2>7, <2>8, <2>9 DEF PathInv
  <1>6. \/ UNCHANGED <<dirs, refs>>
        \/ d \notin DOMAIN dirs /\ dirs' = With(dirs, d, a) /\ refs' = With(refs, d, 0)
    BY DEF Mkdir, Mkdir1, Mkdir2, Entries
  <1> QED BY <1>4, <1>5, <1>6

LEMMA ReturnStep ==
    ASSUME PathInv, NEW t \in Thread, Return(t)
    PROVE  PathInv'
  <1>1. PathTypeOK /\ ThreadOk(t) /\ DirsClosed /\ LeaseRefsExact
    BY DEF PathInv
  <1>2. /\ refs' = IF parent[t] = NULL THEN refs ELSE Release(refs, parent[t])
        /\ parent' = [parent EXCEPT ![t] = NULL] /\ tgt' = [tgt EXCEPT ![t] = <<>>]
        /\ call' = [call EXCEPT ![t] = NoCall] /\ p' = [p EXCEPT ![t] = 1]
        /\ slashes' = [slashes EXCEPT ![t] = FALSE] /\ stage' = [stage EXCEPT ![t] = "idle"]
        /\ UNCHANGED <<dirs, files, cached, at, kept, calls>>
    BY DEF Return, Goto
  <1>3. Grown /\ DirsClosed'
    BY <1>1, <1>2, SameDirs
  <1>4. OnlyThread(t)
    BY <1>1, <1>2 DEF OnlyThread, PathTypeOK
  <1>5. NULL \notin DOMAIN dirs
    BY <1>1, PathnamesAssumption DEF PathTypeOK
  <1>6. refs' \in [DOMAIN dirs -> Nat] /\ Fit(refs', parent', kept)
    <2>1. Fit(refs, parent, kept) /\ refs \in [DOMAIN dirs -> Nat] /\ DOMAIN parent = Thread
      BY <1>1, FitIs DEF PathTypeOK
    <2>2. CASE parent[t] = NULL
      <3>1. parent' = parent
        BY <1>1, <1>2, <2>2 DEF PathTypeOK
      <3> QED BY <1>2, <2>1, <2>2, <3>1
    <2>3. CASE parent[t] # NULL
      <3>1. parent[t] \in DOMAIN dirs
        BY <1>1, <2>3 DEF PathTypeOK
      <3> QED BY <1>2, <1>5, <2>1, <2>3, <3>1, FitGive
    <2> QED BY <2>2, <2>3
  <1>7. LeaseRefsExact'
    BY <1>2, <1>6 DEF LeaseRefsExact, Fit, Users
  <1>8. /\ NoCall \in [op : Op, path : Path \cup {NoCall.path}, who : User,
                       at : Seq(Seq(Char)) \cup {NULL}]
        /\ NoCall.at = NULL
    BY PathnamesAssumption DEF NoCall, Op
  <1>9. <<>> \in Seq(Char)
    BY EmptySeq
  <1>10. PathTypeOK'
    <2>1. call' \in [Thread -> [op : Op, path : Path \cup {NoCall.path}, who : User,
                                at : Seq(Seq(Char)) \cup {NULL}]]
      BY <1>1, <1>2, <1>8 DEF PathTypeOK
    <2>2. /\ parent' \in [Thread -> DOMAIN dirs \cup {NULL}]
          /\ tgt' \in [Thread -> Seq(Char)] /\ p' \in [Thread -> Nat]
          /\ slashes' \in [Thread -> BOOLEAN]
          /\ stage' \in [Thread -> {"idle", "start", "walk", "target", "failed", "return"}]
      BY <1>1, <1>2, <1>9 DEF PathTypeOK
    <2> QED BY <1>1, <1>2, <1>6, <2>1, <2>2 DEF PathTypeOK
  <1>11. /\ stage'[t] = "idle" /\ call'[t] = NoCall /\ p'[t] = 1 /\ parent'[t] = NULL
         /\ at'[t] = at[t]
    BY <1>1, <1>2 DEF PathTypeOK
  <1>12. GoodPath(NoCall.path) /\ at[t] # root /\ NULL # root
    BY <1>1, GoodPaths, RootIsNotNull DEF ThreadOk, Own
  <1>13. Own(stage[t], call[t], p[t], parent[t], tgt[t], slashes[t], kept[t], at[t])'
    BY <1>8, <1>11, <1>12 DEF Own
  <1>14. Searched(call[t], parent[t])'
    BY <1>11 DEF Searched
  <1>15. ThreadOk(t)'
    BY <1>13, <1>14 DEF ThreadOk
  <1> QED BY <1>3, <1>4, <1>7, <1>10, <1>15, OtherThreads DEF PathInv

LEMMA DestroyStep ==
    ASSUME PathInv, NEW t \in Thread, Destroy(t)
    PROVE  PathInv'
  <1>1. PathTypeOK /\ ThreadOk(t) /\ DirsClosed /\ LeaseRefsExact
    BY DEF PathInv
  <1>2. /\ stage[t] = "idle" /\ kept[t] # NULL /\ refs' = Release(refs, kept[t])
        /\ kept' = [kept EXCEPT ![t] = NULL]
        /\ cached' = cached \/ cached' = Uncache(kept[t])
        /\ UNCHANGED <<dirs, files, at, stage, call, p, parent, tgt, slashes, status, calls>>
    BY DEF Destroy
  <1>3. Grown /\ DirsClosed'
    BY <1>1, <1>2, SameDirs
  <1>4. OnlyThread(t)
    BY <1>1, <1>2 DEF OnlyThread, PathTypeOK
  <1>5. NULL \notin DOMAIN dirs /\ kept[t] \in DOMAIN dirs
    BY <1>1, <1>2, PathnamesAssumption DEF PathTypeOK
  <1>6. Fit(refs, kept, parent) /\ refs \in [DOMAIN dirs -> Nat] /\ DOMAIN kept = Thread
    BY <1>1, FitIs, FitBoth DEF PathTypeOK
  <1>7. refs' \in [DOMAIN dirs -> Nat] /\ Fit(refs', kept', parent)
    BY <1>2, <1>5, <1>6, FitGive
  <1>8. LeaseRefsExact'
    <2>1. Fit(refs', parent, kept')
      BY <1>7, FitBoth
    <2> QED BY <1>2, <1>7, <2>1 DEF LeaseRefsExact, Fit, Users
  <1>9. CacheOk(cached')
    BY <1>1, <1>2, UncacheType DEF CacheOk, PathTypeOK
  <1>10. PathTypeOK'
    BY <1>1, <1>2, <1>7, <1>9 DEF PathTypeOK, CacheOk
  <1>11. Own(stage[t], call[t], p[t], parent[t], tgt[t], slashes[t], kept[t], at[t])'
    BY <1>1, <1>2 DEF ThreadOk, Own
  <1>12. Searched(call[t], parent[t])'
    BY <1>1, <1>2, <1>3, SearchedKept DEF ThreadOk
  <1>13. ThreadOk(t)'
    BY <1>11, <1>12 DEF ThreadOk
  <1> QED BY <1>3, <1>4, <1>8, <1>10, <1>13, OtherThreads DEF PathInv

\* A step that leaves everything but the cache of leases alone.
LEMMA CacheStep ==
    ASSUME PathInv, CacheOk(cached'),
           UNCHANGED <<dirs, files, refs, at, stage, call, p, parent, tgt, slashes, kept, calls>>
    PROVE  PathInv'
  <1>1. PathTypeOK'
    BY DEF PathInv, PathTypeOK, CacheOk
  <1>2. DirsClosed'
    BY DEF PathInv, DirsClosed
  <1>3. LeaseRefsExact'
    BY DEF PathInv, LeaseRefsExact
  <1>4. ASSUME NEW t \in Thread PROVE ThreadOk(t)'
    <2>1. PathTypeOK /\ DirsClosed /\ ThreadOk(t) /\ Grown
      BY DEF PathInv, Grown
    <2>2. Own(stage[t], call[t], p[t], parent[t], tgt[t], slashes[t], kept[t], at[t])'
      BY <2>1 DEF ThreadOk
    <2>3. Searched(call[t], parent[t])'
      BY <2>1, SearchedKept DEF ThreadOk
    <2> QED BY <2>2, <2>3 DEF ThreadOk
  <1> QED BY <1>1, <1>2, <1>3, <1>4 DEF PathInv

LEMMA PathStep == PathInv /\ [PathNext]_pathVars => PathInv'
  <1> SUFFICES ASSUME PathInv, [PathNext]_pathVars PROVE PathInv'
    OBVIOUS
  <1>1. ASSUME NEW t \in Thread, BatchInit(t) PROVE PathInv'
    BY <1>1, InitContextStep DEF BatchInit, LokupMode
  <1>2. ASSUME NEW t \in Thread, BulkInit(t) PROVE PathInv'
    BY <1>2, InitContextStep DEF BulkInit, LokupMode
  <1>3. ASSUME NEW d \in DOMAIN cached, Forget(d) PROVE PathInv'
    <2>1. CacheOk(cached')
      BY <1>3, UncacheType DEF Forget, CacheOk, PathInv
    <2> QED BY <1>3, <2>1, CacheStep DEF Forget
  <1>4. CASE UNCHANGED pathVars
    <2>1. CacheOk(cached')
      BY <1>4 DEF PathInv, PathTypeOK, CacheOk, pathVars
    <2> QED BY <1>4, <2>1, CacheStep DEF pathVars
  <1>5. ASSUME NEW t \in Thread, NEW op \in Op, NEW w \in Path, NEW who \in User,
               Call(t, op, w, who)
        PROVE  PathInv'
    BY <1>5, CallStep
  <1>6. ASSUME NEW t \in Thread, NEW mode \in Mode, Mkdir(t, mode) PROVE PathInv'
    BY <1>6, MkdirStep
  <1>7. ASSUME NEW t \in Thread,
               \/ Resolu(t) \/ Resolv(t) \/ Resolved(t) \/ Mkfle(t) \/ Lstat(t) \/ Atdir(t)
               \/ Return(t) \/ Destroy(t)
        PROVE  PathInv'
    BY <1>7, ResoluStep, ResolvStep, ResolvedStep, MkfleStep, LstatStep, AtdirStep,
       ReturnStep, DestroyStep
  <1> QED BY <1>1, <1>2, <1>3, <1>4, <1>5, <1>6, <1>7 DEF PathNext

LEMMA PathBegin == PathInit => PathInv
  <1> SUFFICES ASSUME PathInit PROVE PathInv
    OBVIOUS
  <1>1. root # NULL /\ root \in Seq(Seq(Char)) /\ <<>> \in Seq(Char) /\ Len(root) = 0
    BY RootIsNotNull, EmptySeq DEF root
  <1>2. /\ DOMAIN dirs = DOMAIN Existing \cup {root}
        /\ \A d \in DOMAIN dirs : dirs[d] = IF d = root THEN [owner |-> superuser, mode |-> AllPerms]
                                            ELSE Existing[d]
    BY DEF PathInit, With
  <1>3. \A d \in DOMAIN Existing : d \in Seq(Seq(Char))
    <2>1. \A d \in DOMAIN Existing : d \in Seq(Seq(Char) \ {<<>>})
      BY PathnamesAssumption
    <2> QED BY <2>1, SeqDef
  <1>4. PathTypeOK
    <2>1. \A d \in DOMAIN dirs : dirs[d] \in [owner : User, mode : Mode \cup {AllPerms}]
      BY <1>2, PathnamesAssumption
    <2>2. /\ NoCall \in [op : Op, path : Path \cup {NoCall.path}, who : User,
                         at : Seq(Seq(Char)) \cup {NULL}]
      BY PathnamesAssumption DEF NoCall, Op
    <2>3. DOMAIN cached = {}
      BY DEF PathInit
    <2>4. call \in [Thread -> [op : Op, path : Path \cup {NoCall.path}, who : User,
                               at : Seq(Seq(Char)) \cup {NULL}]]
      BY <2>2 DEF PathInit
    <2>5. calls \in 0 .. MaxCalls
      BY PathnamesAssumption DEF PathInit
    <2>6. \A d \in DOMAIN dirs : d \in Seq(Seq(Char))
      BY <1>1, <1>2, <1>3
    <2>7. refs \in [DOMAIN dirs -> Nat] /\ tgt \in [Thread -> Seq(Char)]
      BY <1>1 DEF PathInit
    <2> QED BY <1>1, <1>2, <2>1, <2>3, <2>4, <2>5, <2>6, <2>7 DEF PathInit, PathTypeOK
  <1>5. DirsClosed
    <2> SUFFICES ASSUME NEW d \in DOMAIN dirs, NEW m \in 0 .. Len(d)
                 PROVE  SubSeq(d, 1, m) \in DOMAIN dirs
      BY DEF DirsClosed
    <2>0. d \in Seq(Seq(Char))
      BY <1>1, <1>2, <1>3
    <2>1. d \in Seq(Seq(Char)) /\ Len(d) \in Nat
      BY <2>0
    <2>2. CASE m = 0
      <3>1. SubSeq(d, 1, 0) = <<>>
        BY <2>1, SubSeqEmpty
      <3> QED BY <1>2, <2>2, <3>1 DEF root
    <2>3. CASE m # 0
      <3>1. d # root /\ m \in 1 .. Len(d)
        BY <1>1, <2>1, <2>3
      <3> QED BY <1>2, <3>1, PathnamesAssumption
    <2> QED BY <2>2, <2>3
  <1>6. LeaseRefsExact
    <2>1. ASSUME NEW d \in DOMAIN dirs
          PROVE  /\ {t \in Thread : parent[t] = d} = {} /\ {t \in Thread : kept[t] = d} = {}
                 /\ refs[d] = 0
      <3>1. d # NULL
        BY <1>4, PathnamesAssumption DEF PathTypeOK
      <3> QED BY <3>1 DEF PathInit
    <2>2. Cardinality({}) = 0
      BY FS_EmptySet
    <2> QED BY <2>1, <2>2 DEF LeaseRefsExact
  <1>7. ASSUME NEW t \in Thread PROVE ThreadOk(t)
    <2>1. /\ stage[t] = "idle" /\ call[t] = NoCall /\ p[t] = 1 /\ parent[t] = NULL
          /\ at[t] = NULL
      BY DEF PathInit
    <2>2. GoodPath(NoCall.path) /\ NoCall.at = NULL
      BY GoodPaths DEF NoCall
    <2>3. Own(stage[t], call[t], p[t], parent[t], tgt[t], slashes[t], kept[t], at[t])
      BY <1>1, <2>1, <2>2 DEF Own
    <2>4. Searched(call[t], parent[t])
      BY <2>1 DEF Searched
    <2> QED BY <2>3, <2>4 DEF ThreadOk
  <1> QED BY <1>4, <1>5, <1>6, <1>7 DEF PathInv

LEMMA PathAlways == PathSpec => []PathInv
  BY PathBegin, PathStep, PTL DEF PathSpec

\* The variables of path resolution keep their types, and what a thread holds as
\* parent, or keeps for a context, is always a directory that exists (fscli.cc 447-605).
THEOREM PathTypes == PathSpec => []PathTypeOK
  <1>1. PathInv => PathTypeOK
    BY DEF PathInv
  <1> QED BY <1>1, PathAlways, PTL

\* For every set of paths and whatever other threads do to the namespace meanwhile,
\* Resolv stops at the directory and the name the path denotes (fscli.cc 537-605).
THEOREM ResolvesRightTheorem == PathSpec => []ResolvesRight
  BY PathInvImplies, PathAlways, PTL

\* References to leases are exactly those of walks and open contexts (fscli.cc 447-605).
THEOREM LeaseRefsExactTheorem == PathSpec => []LeaseRefsExact
  <1>1. PathInv => LeaseRefsExact
    BY DEF PathInv
  <1> QED BY <1>1, PathAlways, PTL

\* A walk has only come beneath directories its user may search (fscli.cc 608-700).
THEOREM WalkPermittedTheorem == PathSpec => []WalkPermitted
  BY PathInvImplies, PathAlways, PTL
-----------------------------------------------------------------------------
(***************************************************************************)
(* Partitions.  What the cache does is taken from LRUCacheProofs.          *)
(***************************************************************************)
PL == INSTANCE LRUCacheProofs WITH Entry <- Part, Charge <- {1},
          capacity <- partition_lru_size, MaxHeld <- MaxLookups,
          cache <- plru, held <- [e \in Part |-> 0], open <- ~closed

LEMMA PartFacts ==
    /\ NULL \notin Part /\ IsFiniteSet(Part) /\ Key # {} /\ DirOf \in [Key -> Dir]
    /\ partition_lru_size \in Nat
  BY PartitionsAssumption, FS_Interval DEF Part

LEMMA SamePartFinite == ASSUME NEW S, IsFiniteSet(S) PROVE PL!IsFiniteSet(S)
  BY DEF IsFiniteSet, PL!IsFiniteSet

LEMMA PartCacheAssumption == PL!LRUCacheAssumption
  BY SamePartFinite, PartFacts, PartitionsAssumption DEF PL!LRUCacheAssumption

LEMMA SameUnref == \A c, e : lru!Unref(c, e) = PL!Unref(c, e)
  <1> SUFFICES ASSUME NEW c, NEW e PROVE lru!Unref(c, e) = PL!Unref(c, e)
    OBVIOUS
  <1> QED BY Zenon DEF PL!Unref, lru!Unref, PL!LRU_Remove, lru!LRU_Remove, PL!Range, lru!Range

LEMMA SameAddRef == \A c, e : lru!AddRef(c, e) = PL!AddRef(c, e)
  <1> SUFFICES ASSUME NEW c, NEW e PROVE lru!AddRef(c, e) = PL!AddRef(c, e)
    OBVIOUS
  <1> QED BY Zenon DEF PL!AddRef, lru!AddRef, PL!LRU_Remove, lru!LRU_Remove, PL!Range, lru!Range

LEMMA SameRemoveKey == \A c, k : lru!RemoveKey(c, k) = PL!RemoveKey(c, k)
  <1>1. \A c, e : lru!RemoveEntry(c, e) = PL!RemoveEntry(c, e)
    BY SameUnref, Zenon DEF PL!RemoveEntry, lru!RemoveEntry
  <1> QED BY <1>1, Zenon DEF PL!RemoveKey, lru!RemoveKey

LEMMA SameNewEntry == \A c, k, e, ch : lru!NewEntry(c, k, e, ch) = PL!NewEntry(c, k, e, ch)
  BY Zenon DEF PL!NewEntry, lru!NewEntry

LEMMA SameAddEntry ==
    ASSUME NEW c, NEW k, NEW e, c.table[k] = NULL
    PROVE  lru!AddEntry(c, k, e) = PL!AddEntry(c, k, e)
  BY Zenon DEF lru!AddEntry, PL!AddEntry
-----------------------------------------------------------------------------
(***************************************************************************)
(* Steps of the cache.  h counts the threads that have each partition.     *)
(***************************************************************************)
Holders == [Part -> Nat]
OneMore(h, e) == [h EXCEPT ![e] = @ + 1]
OneLess(h, e) == [h EXCEPT ![e] = @ - 1]

\* What the proofs below use of a cache.
Seen(c, h) ==
    /\ c.key \in [Part -> Key] /\ c.refs \in [Part -> Nat] /\ c.in_cache \in SUBSET Part
    /\ c.table \in [Key -> Part \cup {NULL}] /\ c.usage \in Int
    /\ \A e \in Part : c.refs[e] = h[e] + (IF e \in c.in_cache THEN 1 ELSE 0)
    /\ \A k \in Key : c.table[k] # NULL => c.table[k] \in c.in_cache /\ c.key[c.table[k]] = k
    /\ \A e \in c.in_cache : c.table[c.key[e]] = e
    /\ {c.lru[i] : i \in DOMAIN c.lru} = {e \in c.in_cache : h[e] = 0}
    /\ c.lru # <<>> => Head(c.lru) \in c.in_cache /\ h[Head(c.lru)] = 0
    /\ c.in_cache = {} => c.usage = 0

LEMMA CacheSeen == ASSUME NEW c, NEW h \in Holders, PL!Good(c, h) PROVE Seen(c, h)
  <1>1. /\ c \in PL!IntState /\ PL!Lists(c, h) /\ PL!TableHas(c, c.in_cache) /\ PL!Usage(c)
    BY Zenon DEF PL!Good
  <1>2. /\ c.key \in [Part -> Key] /\ c.refs \in [Part -> Nat] /\ c.in_cache \in SUBSET Part
        /\ c.table \in [Key -> Part \cup {NULL}] /\ c.usage \in Int
    BY <1>1 DEF PL!IntState
  <1>3. \A e \in Part : c.refs[e] = h[e] + (IF e \in c.in_cache THEN 1 ELSE 0)
    BY <1>1 DEF PL!Lists
  <1>4. /\ \A k \in Key : c.table[k] # NULL => c.table[k] \in c.in_cache /\ c.key[c.table[k]] = k
        /\ \A e \in c.in_cache : c.table[c.key[e]] = e
    BY <1>1 DEF PL!TableHas
  <1>5. PL!List(c.lru) /\ PL!Range(c.lru) = {e \in c.in_cache : h[e] = 0}
    BY <1>1 DEF PL!Lists
  <1>6. {c.lru[i] : i \in DOMAIN c.lru} = {e \in c.in_cache : h[e] = 0}
    BY <1>5 DEF PL!Range
  <1>7. c.lru # <<>> => Head(c.lru) \in PL!Range(c.lru)
    BY <1>5, PL!ListFacts, PartCacheAssumption
  <1>8. c.lru # <<>> => Head(c.lru) \in c.in_cache /\ h[Head(c.lru)] = 0
    BY <1>5, <1>7
  <1>9. c.in_cache = {} => c.usage = 0
    BY <1>1, PL!NoSum, PartCacheAssumption DEF PL!Usage
  <1> QED BY <1>2, <1>3, <1>4, <1>6, <1>8, <1>9 DEF Seen

\* d is c with other references.
Stays(c, d) == d.key = c.key /\ d.in_cache = c.in_cache

LEMMA RefPart ==
    ASSUME NEW c, NEW h \in Holders, PL!Good(c, h), NEW e \in Part, c.refs[e] > 0
    PROVE  /\ PL!Good(lru!AddRef(c, e), OneMore(h, e)) /\ Stays(c, lru!AddRef(c, e))
           /\ OneMore(h, e) \in Holders /\ lru!AddRef(c, e).refs = [c.refs EXCEPT ![e] = @ + 1]
  <1> DEFINE d == PL!AddRef(c, e)
  <1>1. h \in PL!Holding
    BY DEF Holders, PL!Holding
  <1>2. /\ PL!Good(d, PL!More(h, e)) /\ d.key = c.key /\ d.in_cache = c.in_cache
        /\ d.refs = [c.refs EXCEPT ![e] = @ + 1]
    BY <1>1, PL!AddRefOk, PartCacheAssumption
  <1> HIDE DEF d
  <1>3. PL!Good(d, OneMore(h, e)) /\ Stays(c, d) /\ d.refs = [c.refs EXCEPT ![e] = @ + 1]
    BY <1>2 DEF OneMore, PL!More, Stays
  <1>4. OneMore(h, e) \in Holders
    BY DEF OneMore, Holders
  <1> QED BY <1>3, <1>4, SameAddRef DEF d

LEMMA UnrefPart ==
    ASSUME NEW c, NEW h \in Holders, PL!Good(c, h), NEW e \in Part, h[e] > 0
    PROVE  /\ PL!Good(lru!Unref(c, e), OneLess(h, e)) /\ Stays(c, lru!Unref(c, e))
           /\ OneLess(h, e) \in Holders /\ lru!Unref(c, e).refs = [c.refs EXCEPT ![e] = @ - 1]
  <1> DEFINE d == PL!Unref(c, e)
  <1>1. h \in PL!Holding
    BY DEF Holders, PL!Holding
  <1>2. PL!Released(c, h, e, d)
    BY <1>1, PL!ReleaseOk, PartCacheAssumption
  <1> HIDE DEF d
  <1>3. PL!Good(d, OneLess(h, e)) /\ Stays(c, d) /\ d.refs = [c.refs EXCEPT ![e] = @ - 1]
    BY <1>2 DEF OneLess, PL!Released, PL!Less, Stays
  <1>4. OneLess(h, e) \in Holders
    BY DEF OneLess, Holders
  <1> QED BY <1>3, <1>4, SameUnref DEF d

LEMMA RemovePart ==
    ASSUME NEW c, NEW h \in Holders, PL!Good(c, h), NEW k \in Key, c.table[k] # NULL
    PROVE  LET d == lru!RemoveKey(c, k) IN
           PL!Good(d, h) /\ d.key = c.key /\ d.in_cache = c.in_cache \ {c.table[k]}
  <1> DEFINE d == PL!RemoveKey(c, k)
  <1>1. h \in PL!Holding
    BY DEF Holders, PL!Holding
  <1>2. PL!KeyRemoved(c, h, k, d)
    BY <1>1, PL!RemoveKeyOk, PartCacheAssumption
  <1> HIDE DEF d
  <1>3. PL!Good(d, h) /\ d.key = c.key /\ d.in_cache = c.in_cache \ {c.table[k]}
    BY <1>2 DEF PL!KeyRemoved
  <1> QED BY <1>3, SameRemoveKey DEF d

LEMMA NewPart ==
    ASSUME NEW c, NEW h \in Holders, PL!Good(c, h), NEW k \in Key, NEW e \in Part, c.refs[e] = 0
    PROVE  LET d == lru!NewEntry(c, k, e, 1) IN
           /\ PL!Good(d, OneMore(h, e)) /\ d.key = [c.key EXCEPT ![e] = k]
           /\ d.in_cache = c.in_cache /\ e \notin c.in_cache /\ d.table = c.table
           /\ OneMore(h, e) \in Holders
  <1> DEFINE ch == 1
             d == PL!NewEntry(c, k, e, ch)
  <1>1. h \in PL!Holding /\ ch \in Nat
    BY DEF Holders, PL!Holding
  <1> HIDE DEF ch
  <1>2. PL!MadeNew(c, h, k, e, ch, d)
    BY <1>1, PL!NewEntryOk, PartCacheAssumption
  <1> HIDE DEF d
  <1>3. /\ PL!Good(d, OneMore(h, e)) /\ d.key = [c.key EXCEPT ![e] = k]
        /\ d.in_cache = c.in_cache /\ e \notin c.in_cache /\ d.table = c.table
    BY <1>2 DEF OneMore, PL!More, PL!MadeNew
  <1>4. OneMore(h, e) \in Holders
    BY DEF OneMore, Holders
  <1> QED BY <1>3, <1>4, SameNewEntry DEF d, ch

AddedTo(c, h, e, d) == PL!Good(d, h) /\ d.key = c.key /\ d.in_cache = c.in_cache \cup {e}

LEMMA AddPart ==
    ASSUME NEW c, NEW h \in Holders, PL!Good(c, h), NEW k \in Key, NEW e \in Part,
           e \notin c.in_cache, h[e] > 0, c.key[e] = k, c.table[k] = NULL
    PROVE  AddedTo(c, h, e, lru!AddEntry(c, k, e))
  <1> DEFINE d == PL!AddEntry(c, k, e)
  <1>1. h \in PL!Holding
    BY DEF Holders, PL!Holding
  <1>2. PL!Added(c, h, k, e, d)
    BY <1>1, PL!AddEntryOk, PartCacheAssumption
  <1> HIDE DEF d
  <1>3. AddedTo(c, h, e, d)
    BY <1>2 DEF PL!Added, AddedTo
  <1> QED BY <1>3, SameAddEntry DEF d
-----------------------------------------------------------------------------
(***************************************************************************)
(* The invariant, as long as every handle that is used is set: T is pars_, *)
(* ph, pt and vi are phase, part and victim.                               *)
(***************************************************************************)
Hold(pt) == [e \in Part |-> Users(pt, e)]

\* pars_ has exactly the partitions that have references.
TablesAgree(c, T) ==
    /\ \A k \in Key : T[k] # NULL => c.refs[T[k]] > 0 /\ c.key[T[k]] = k
    /\ \A e \in Part : c.refs[e] > 0 => T[c.key[e]] = e

\* What is deleted has no reference left, and is deleted once.
VictimsOk(c, vi) ==
    /\ \A t \in Thread : vi[t] # NULL => c.refs[vi[t]] = 0
    /\ \A t, u \in Thread : vi[t] # NULL /\ vi[t] = vi[u] => t = u

CacheOff(c) == partition_lru_size = 0 => c.in_cache = {}

\* A thread that evicts has put a partition of its own into the cache.
EvictingOk(ph, pt, c) ==
    /\ \A t \in Thread : ph[t] = "evict" => pt[t] \in c.in_cache
    /\ \A t, u \in Thread : ph[t] = "evict" /\ ph[u] = "evict" /\ pt[t] = pt[u] => t = u

PhasesOk(ph, pt, vi) ==
    \A t \in Thread :
        /\ ph[t] \in {"evict", "lokup", "held"} <=> pt[t] # NULL
        /\ ph[t] \in {"evict", "drop", "free"} <=> vi[t] # NULL

\* References to a directory: of the partitions that are in memory and of the calls.
Tally(S, f, d) == Cardinality({x \in S : f[x] = d})
AllocIn(c, vi) == {e \in Part : c.refs[e] > 0 \/ \E t \in Thread : vi[t] = e}
Counting == {"fetch", "evict", "lokup", "drop"}
CountedIn(ph) == {t \in Thread : ph[t] \in Counting}
PartDir(c) == [e \in Part |-> DirOf[c.key[e]]]
CallDir(ky) == [t \in Thread |-> DirOf[ky[t]]]
DirsCounted(dr, A, f, B, g) == \A d \in Dir : dr[d] = Tally(A, f, d) + Tally(B, g, d)

PhaseName == {"idle", "fetch", "evict", "lokup", "drop", "held", "free", "undefined"}

PartTyped ==
    /\ pars \in [Key -> Part \cup {NULL}] /\ drefs \in [Dir -> Nat]
    /\ phase \in [Thread -> {"idle", "fetch", "evict", "lokup", "drop", "held", "free",
                             "undefined"}]
    /\ key \in [Thread -> Key]
    /\ part \in [Thread -> Part \cup {NULL}] /\ victim \in [Thread -> Part \cup {NULL}]

CacheFine(c, T, ph, pt, vi) ==
    /\ PL!Good(c, Hold(pt)) /\ TablesAgree(c, T) /\ VictimsOk(c, vi) /\ CacheOff(c)
    /\ EvictingOk(ph, pt, c) /\ PhasesOk(ph, pt, vi)

OpenInv ==
    /\ PartTyped /\ CacheFine(plru, pars, phase, part, victim)
    /\ DirsCounted(drefs, AllocIn(plru, victim), PartDir(plru), CountedIn(phase), CallDir(key))

\* Once it is closed, the client is at rest.
ClosedInv ==
    /\ \A t \in Thread : phase[t] = "idle"
    /\ OnePartitionPerKey /\ RefsExact

PartInv ==
    /\ phase \in [Thread -> PhaseName]
    /\ HandleSet => IF closed THEN ClosedInv ELSE OpenInv
-----------------------------------------------------------------------------
(* Counting. *)
LEMMA TallyType ==
    ASSUME NEW S, IsFiniteSet(S), NEW f, NEW d
    PROVE  /\ Tally(S, f, d) \in Nat /\ IsFiniteSet({x \in S : f[x] = d})
           /\ \A x \in S : f[x] = d => Tally(S, f, d) > 0
  <1> DEFINE U == {x \in S : f[x] = d}
  <1>1. U \subseteq S /\ \A x \in S : f[x] = d => U # {}
    OBVIOUS
  <1> HIDE DEF U
  <1>2. IsFiniteSet(U)
    BY <1>1, FS_Subset
  <1>3. Cardinality(U) \in Nat /\ (Cardinality(U) = 0 => U = {})
    BY <1>2, FS_CardinalityType, FS_EmptySet
  <1> QED BY <1>1, <1>2, <1>3 DEF Tally, U

LEMMA TallySame ==
    ASSUME NEW S, NEW f, NEW g, \A x \in S : f[x] = g[x], NEW d
    PROVE  Tally(S, f, d) = Tally(S, g, d)
  <1>1. {x \in S : f[x] = d} = {x \in S : g[x] = d}
    OBVIOUS
  <1> QED BY <1>1 DEF Tally

LEMMA TallyMore ==
    ASSUME NEW S, IsFiniteSet(S), NEW y, y \notin S, NEW f, NEW g, \A x \in S : f[x] = g[x], NEW d
    PROVE  Tally(S \cup {y}, g, d) = Tally(S, f, d) + (IF g[y] = d THEN 1 ELSE 0)
  <1> DEFINE U == {x \in S : f[x] = d}
             V == {x \in S \cup {y} : g[x] = d}
  <1>0. U \subseteq S
    OBVIOUS
  <1>1. IsFiniteSet(U)
    BY <1>0, FS_Subset, Zenon
  <1>2. y \notin U /\ (g[y] = d => V = U \cup {y}) /\ (g[y] # d => V = U)
    OBVIOUS
  <1> HIDE DEF U, V
  <1>3. Cardinality(U \cup {y}) = Cardinality(U) + 1 /\ Cardinality(U) \in Nat
    BY <1>1, <1>2, FS_AddElement, FS_CardinalityType
  <1>4. Cardinality(V) = Cardinality(U) + (IF g[y] = d THEN 1 ELSE 0)
    <2>1. CASE g[y] = d
      BY <1>2, <1>3, <2>1
    <2>2. CASE g[y] # d
      BY <1>2, <1>3, <2>2
    <2> QED BY <2>1, <2>2
  <1> QED BY <1>4 DEF Tally, U, V

LEMMA TallyLess ==
    ASSUME NEW S, IsFiniteSet(S), NEW y \in S, NEW f, NEW g, \A x \in S \ {y} : f[x] = g[x], NEW d
    PROVE  Tally(S \ {y}, g, d) = Tally(S, f, d) - (IF f[y] = d THEN 1 ELSE 0)
  <1> DEFINE R == S \ {y}
  <1>1. IsFiniteSet(R) /\ y \notin R /\ R \cup {y} = S
    BY FS_Subset
  <1>2. \A x \in R : g[x] = f[x]
    OBVIOUS
  <1> HIDE DEF R
  <1>3. Tally(R \cup {y}, f, d) = Tally(R, g, d) + (IF f[y] = d THEN 1 ELSE 0)
    BY <1>1, <1>2, TallyMore
  <1>4. Tally(R, g, d) \in Nat
    BY <1>1, TallyType
  <1>5. Tally(R, g, d) = Tally(R \cup {y}, f, d) - (IF f[y] = d THEN 1 ELSE 0)
    BY <1>3, <1>4
  <1> QED BY <1>1, <1>5 DEF R

LEMMA FiniteSets2 == \A c, vi, ph : IsFiniteSet(AllocIn(c, vi)) /\ IsFiniteSet(CountedIn(ph))
  <1> SUFFICES ASSUME NEW c, NEW vi, NEW ph
               PROVE  IsFiniteSet(AllocIn(c, vi)) /\ IsFiniteSet(CountedIn(ph))
    OBVIOUS
  <1>1. AllocIn(c, vi) \subseteq Part /\ CountedIn(ph) \subseteq Thread
    BY DEF AllocIn, CountedIn
  <1> QED BY <1>1, FS_Subset, PartFacts, ClientAssumption

Plus(A, y, C) == C = A \cup {y} /\ y \notin A

Alike(A, f, q) == \A x \in A : f[x] = q[x]
MoreFor(dr, d, C, q, B, g) ==
    LET up == [dr EXCEPT ![d] = @ + 1] IN up \in [Dir -> Nat] /\ DirsCounted(up, C, q, B, g)

\* One more partition, or one more call: the directory gets a reference.
LEMMA DirsMore ==
    ASSUME NEW dr \in [Dir -> Nat], NEW A, IsFiniteSet(A), NEW f, NEW B, IsFiniteSet(B), NEW g,
           DirsCounted(dr, A, f, B, g), NEW y, NEW C, Plus(A, y, C),
           NEW q, Alike(A, f, q), q[y] \in Dir
    PROVE  MoreFor(dr, q[y], C, q, B, g)
  <1>0. \A d : Tally(A \cup {y}, q, d) = Tally(A, f, d) + (IF q[y] = d THEN 1 ELSE 0)
    <2>1. y \notin A /\ \A x \in A : f[x] = q[x]
      BY DEF Plus, Alike
    <2> QED BY <2>1, TallyMore
  <1> DEFINE up == [dr EXCEPT ![q[y]] = @ + 1]
  <1>1. up \in [Dir -> Nat]
    OBVIOUS
  <1>2. ASSUME NEW d \in Dir PROVE up[d] = Tally(C, q, d) + Tally(B, g, d)
    <2>1. dr[d] = Tally(A, f, d) + Tally(B, g, d)
      BY DEF DirsCounted
    <2>2. Tally(A, f, d) \in Nat /\ Tally(B, g, d) \in Nat
      BY TallyType
    <2>3. Tally(C, q, d) = Tally(A, f, d) + (IF q[y] = d THEN 1 ELSE 0)
      BY <1>0 DEF Plus
    <2>4. up[d] = dr[d] + (IF q[y] = d THEN 1 ELSE 0)
      OBVIOUS
    <2> HIDE DEF up
    <2> QED BY <2>1, <2>2, <2>3, <2>4
  <1> QED BY <1>1, <1>2 DEF DirsCounted, MoreFor

LEMMA DirsLess ==
    ASSUME NEW dr \in [Dir -> Nat], NEW A, IsFiniteSet(A), NEW f, NEW B, IsFiniteSet(B), NEW g,
           DirsCounted(dr, A, f, B, g), NEW y \in A, NEW q, \A x \in A \ {y} : f[x] = q[x],
           f[y] \in Dir
    PROVE  LET down == [dr EXCEPT ![f[y]] = @ - 1] IN
           /\ down \in [Dir -> Nat] /\ DirsCounted(down, A \ {y}, q, B, g)
  <1> DEFINE down == [dr EXCEPT ![f[y]] = @ - 1]
  <1>1. down \in [Dir -> Nat]
    <2>1. dr[f[y]] = Tally(A, f, f[y]) + Tally(B, g, f[y])
      BY DEF DirsCounted
    <2>2. Tally(A, f, f[y]) > 0 /\ Tally(A, f, f[y]) \in Nat /\ Tally(B, g, f[y]) \in Nat
      BY TallyType
    <2>3. dr[f[y]] - 1 \in Nat
      BY <2>1, <2>2
    <2> QED BY <2>3
  <1>2. ASSUME NEW d \in Dir PROVE down[d] = Tally(A \ {y}, q, d) + Tally(B, g, d)
    <2>1. dr[d] = Tally(A, f, d) + Tally(B, g, d)
      BY DEF DirsCounted
    <2>2. Tally(A, f, d) \in Nat /\ Tally(B, g, d) \in Nat
      BY TallyType
    <2>3. Tally(A \ {y}, q, d) = Tally(A, f, d) - (IF f[y] = d THEN 1 ELSE 0)
      BY TallyLess
    <2>4. down[d] = dr[d] - (IF f[y] = d THEN 1 ELSE 0)
      OBVIOUS
    <2> HIDE DEF down
    <2> QED BY <2>1, <2>2, <2>3, <2>4
  <1> QED BY <1>1, <1>2 DEF DirsCounted

LEMMA DirsSwap ==
    ASSUME NEW dr, NEW A, IsFiniteSet(A), NEW f, NEW B, IsFiniteSet(B), NEW g
    PROVE  DirsCounted(dr, A, f, B, g) <=> DirsCounted(dr, B, g, A, f)
  <1>1. ASSUME NEW d PROVE Tally(A, f, d) + Tally(B, g, d) = Tally(B, g, d) + Tally(A, f, d)
    <2>1. Tally(A, f, d) \in Nat /\ Tally(B, g, d) \in Nat
      BY TallyType
    <2> QED BY <2>1
  <1> QED BY <1>1 DEF DirsCounted

LEMMA DirsSame ==
    ASSUME NEW dr, NEW A, NEW f, NEW B, NEW g, DirsCounted(dr, A, f, B, g),
           NEW q, \A x \in A : f[x] = q[x]
    PROVE  DirsCounted(dr, A, q, B, g)
  <1>1. ASSUME NEW d \in Dir PROVE Tally(A, f, d) = Tally(A, q, d)
    BY TallySame
  <1> QED BY <1>1 DEF DirsCounted
-----------------------------------------------------------------------------
(* The threads that have a partition. *)
LEMMA HoldFacts ==
    ASSUME NEW pt
    PROVE  /\ Hold(pt) \in Holders /\ \A e \in Part : Hold(pt)[e] = Users(pt, e)
           /\ \A t \in Thread : pt[t] \in Part => Hold(pt)[pt[t]] > 0
  <1>1. \A e : Users(pt, e) \in Nat
    BY UsersType
  <1>2. \A e \in Part : Hold(pt)[e] = Users(pt, e)
    BY DEF Hold
  <1>3. Hold(pt) \in Holders
    BY <1>1 DEF Hold, Holders
  <1>4. ASSUME NEW t \in Thread, pt[t] \in Part PROVE Hold(pt)[pt[t]] > 0
    <2>1. Users(pt, pt[t]) > 0
      BY UsersType
    <2> QED BY <1>2, <1>4, <2>1
  <1> QED BY <1>2, <1>3, <1>4

LEMMA HoldMore ==
    ASSUME NEW pt, DOMAIN pt = Thread, NEW t \in Thread, pt[t] = NULL, NEW e \in Part
    PROVE  Hold([pt EXCEPT ![t] = e]) = OneMore(Hold(pt), e)
  <1> DEFINE b == [pt EXCEPT ![t] = e]
  <1>1. ASSUME NEW x \in Part PROVE Users(b, x) = IF x = e THEN Users(pt, x) + 1 ELSE Users(pt, x)
    <2>1. pt[t] # x
      BY PartFacts
    <2>2. CASE x = e
      BY <2>1, <2>2, UsersMore
    <2>3. CASE x # e
      BY <2>1, <2>3, UsersSame
    <2> QED BY <2>2, <2>3
  <1> HIDE DEF b
  <1>2. Hold(b) = OneMore(Hold(pt), e)
    BY <1>1 DEF Hold, OneMore
  <1> QED BY <1>2 DEF b

LEMMA HoldLess ==
    ASSUME NEW pt, DOMAIN pt = Thread, NEW t \in Thread, pt[t] \in Part
    PROVE  Hold([pt EXCEPT ![t] = NULL]) = OneLess(Hold(pt), pt[t])
  <1> DEFINE b == [pt EXCEPT ![t] = NULL]
             e == pt[t]
  <1>1. ASSUME NEW x \in Part PROVE Users(b, x) = IF x = e THEN Users(pt, x) - 1 ELSE Users(pt, x)
    <2>1. NULL # x
      BY PartFacts
    <2>2. CASE x = e
      BY <2>1, <2>2, UsersLess
    <2>3. CASE x # e
      BY <2>1, <2>3, UsersSame
    <2> QED BY <2>2, <2>3
  <1>0. e \in Part
    OBVIOUS
  <1> HIDE DEF b, e
  <1>2. Hold(b) = OneLess(Hold(pt), e)
    BY <1>0, <1>1 DEF Hold, OneLess
  <1> QED BY <1>2 DEF b, e
-----------------------------------------------------------------------------
(* Steps. *)
\* The outcome of InsertPart for thread t with its partition e, of cache c and table T.
InsertedFor(t, c, h, e, T, d, U, w, ph) ==
    /\ PL!Good(d, h) /\ U \in [Key -> Part \cup {NULL}] /\ TablesAgree(d, U)
    /\ w \in [Thread -> Part \cup {NULL}] /\ VictimsOk(d, w) /\ CacheOff(d) /\ d.key = c.key
    /\ AllocIn(d, w) = AllocIn(c, [victim EXCEPT ![t] = NULL])
    /\ \A u \in Thread \ {t} : w[u] = victim[u]
    /\ \/ ph = [phase EXCEPT ![t] = "evict"] /\ w[t] # NULL /\ e \in d.in_cache
       \/ ph = [phase EXCEPT ![t] = "lokup"] /\ w[t] = NULL
    /\ \A x \in c.in_cache \ {e} : h[x] > 0 => x \in d.in_cache

LEMMA InsertPartOk ==
    ASSUME NEW t \in Thread, NEW c, NEW h \in Holders, PL!Good(c, h), NEW e \in Part, h[e] > 0,
           NEW T \in [Key -> Part \cup {NULL}], NEW dr, TablesAgree(c, T), CacheOff(c),
           VictimsOk(c, [victim EXCEPT ![t] = NULL]),
           victim \in [Thread -> Part \cup {NULL}], phase \in [Thread -> PhaseName],
           c.usage > partition_lru_size => e \in c.in_cache,
           InsertPart(t, c, e, T, dr)
    PROVE  InsertedFor(t, c, h, e, T, plru', pars', victim', phase')
  <1> DEFINE w == [victim EXCEPT ![t] = NULL]
  <1>1. Seen(c, h)
    BY CacheSeen
  <1>2. /\ c.key \in [Part -> Key] /\ c.refs \in [Part -> Nat] /\ c.in_cache \in SUBSET Part
        /\ \A x \in Part : c.refs[x] = h[x] + (IF x \in c.in_cache THEN 1 ELSE 0)
        /\ \A x \in c.in_cache : c.table[c.key[x]] = x
        /\ c.lru # <<>> => Head(c.lru) \in c.in_cache /\ h[Head(c.lru)] = 0
        /\ h \in [Part -> Nat] /\ NULL \notin Part
    BY <1>1, PartFacts DEF Seen, Holders
  <1>3. w \in [Thread -> Part \cup {NULL}] /\ w[t] = NULL /\ \A u \in Thread \ {t} : w[u] = victim[u]
    OBVIOUS
  <1>4. CASE c.usage > partition_lru_size /\ c.lru # <<>>
    <2> DEFINE v == Head(c.lru)
               k == c.key[v]
               d == lru!RemoveKey(c, k)
    <2>1. v \in Part /\ v \in c.in_cache /\ h[v] = 0 /\ k \in Key /\ c.table[k] = v /\ v # e
      BY <1>2, <1>4
    <2>2. /\ plru' = d /\ pars' = [T EXCEPT ![k] = NULL] /\ victim' = [victim EXCEPT ![t] = v]
          /\ phase' = [phase EXCEPT ![t] = "evict"]
      BY <1>4, Zenon DEF InsertPart, Enter
    <2>3. c.table[k] # NULL
      BY <1>2, <2>1
    <2>4. PL!Good(d, h) /\ d.key = c.key /\ d.in_cache = c.in_cache \ {v}
      BY <2>1, <2>3, RemovePart
    <2>k. k = c.key[v]
      OBVIOUS
    <2> HIDE DEF d, v, k
    <2>5. Seen(d, h)
      BY <2>4, CacheSeen
    <2>6. \A x \in Part : d.refs[x] = h[x] + (IF x \in d.in_cache THEN 1 ELSE 0)
      BY <2>5 DEF Seen
    <2>7. /\ c.refs[v] = 1 /\ d.refs[v] = 0
          /\ \A x \in Part \ {v} : d.refs[x] = c.refs[x]
      <3>1. c.refs[v] = h[v] + 1 /\ d.refs[v] = h[v] + 0
        BY <1>2, <2>1, <2>4, <2>6
      <3>2. ASSUME NEW x \in Part \ {v} PROVE d.refs[x] = c.refs[x]
        <4>1. x \in d.in_cache <=> x \in c.in_cache
          BY <2>4
        <4> QED BY <1>2, <2>6, <4>1
      <3> QED BY <2>1, <3>1, <3>2
    <2>8. pars' \in [Key -> Part \cup {NULL}]
      BY <2>1, <2>2
    <2>9. T[k] = v
      BY <2>1, <2>7, <2>k DEF TablesAgree
    <2>10. TablesAgree(d, pars')
      <3>1. ASSUME NEW y \in Key, pars'[y] # NULL PROVE d.refs[pars'[y]] > 0 /\ d.key[pars'[y]] = y
        <4>1. y # k /\ pars'[y] = T[y]
          BY <2>1, <2>2, <3>1
        <4>2. T[y] \in Part /\ c.key[T[y]] = y /\ c.refs[T[y]] > 0
          BY <3>1, <4>1 DEF TablesAgree
        <4>3. T[y] # v
          BY <2>k, <4>1, <4>2
        <4> QED BY <2>4, <2>7, <4>1, <4>2, <4>3
      <3>2. ASSUME NEW x \in Part, d.refs[x] > 0 PROVE pars'[d.key[x]] = x
        <4>1. x # v /\ c.refs[x] > 0
          BY <2>7, <3>2
        <4>2. T[c.key[x]] = x /\ c.key[x] \in Key
          BY <1>2, <4>1 DEF TablesAgree
        <4>3. c.key[x] # k
          BY <2>9, <4>1, <4>2
        <4> QED BY <2>2, <2>4, <4>2, <4>3
      <3> QED BY <3>1, <3>2 DEF TablesAgree
    <2>11. victim' \in [Thread -> Part \cup {NULL}] /\ victim'[t] = v
           /\ \A u \in Thread \ {t} : victim'[u] = victim[u]
      BY <2>1, <2>2
    <2>12. ASSUME NEW u \in Thread \ {t}, victim[u] # NULL PROVE c.refs[victim[u]] = 0 /\ victim[u] \in Part
      BY <1>3, <2>12 DEF VictimsOk
    <2>13. VictimsOk(d, victim')
      <3>1. ASSUME NEW u \in Thread, victim'[u] # NULL PROVE d.refs[victim'[u]] = 0
        <4>1. CASE u = t
          BY <2>7, <2>11, <4>1
        <4>2. CASE u # t
          <5>1. victim[u] # v
            BY <2>7, <2>11, <2>12, <3>1, <4>2
          <5> QED BY <2>7, <2>11, <2>12, <3>1, <4>2, <5>1
        <4> QED BY <4>1, <4>2
      <3>2. ASSUME NEW a \in Thread, NEW u \in Thread, victim'[a] # NULL, victim'[a] = victim'[u]
            PROVE  a = u
        <4>1. a # t => victim'[a] # v
          BY <2>7, <2>11, <2>12, <3>2
        <4>2. u # t => victim'[u] # v
          BY <2>7, <2>11, <2>12, <3>2
        <4>3. CASE a # t /\ u # t
          <5>1. w[a] = victim'[a] /\ w[u] = victim'[u]
            BY <1>3, <2>11, <4>3
          <5> QED BY <3>2, <5>1 DEF VictimsOk
        <4> QED BY <2>11, <3>2, <4>1, <4>2, <4>3
      <3> QED BY <3>1, <3>2 DEF VictimsOk
    <2>14. AllocIn(d, victim') = AllocIn(c, w)
      <3>1. ASSUME NEW x \in Part
            PROVE  (d.refs[x] > 0 \/ \E u \in Thread : victim'[u] = x)
                    <=> (c.refs[x] > 0 \/ \E u \in Thread : w[u] = x)
        <4>1. CASE x = v
          BY <2>7, <2>11, <4>1
        <4>2. CASE x # v
          <5>1. \A u \in Thread : victim'[u] = x <=> w[u] = x
            BY <1>2, <1>3, <2>11, <4>2
          <5> QED BY <2>7, <4>2, <5>1
        <4> QED BY <4>1, <4>2
      <3> QED BY <3>1 DEF AllocIn
    <2>15. CacheOff(d) /\ (\A x \in c.in_cache \ {e} : h[x] > 0 => x \in d.in_cache)
      BY <2>1, <2>4 DEF CacheOff
    <2>16. e \in d.in_cache /\ victim'[t] # NULL
      BY <1>2, <1>4, <2>1, <2>4, <2>11
    <2> QED BY <2>2, <2>4, <2>8, <2>10, <2>11, <2>13, <2>14, <2>15, <2>16 DEF InsertedFor
  <1>5. CASE ~(c.usage > partition_lru_size /\ c.lru # <<>>)
    <2> DEFINE k == c.key[e]
               d == lru!RemoveKey(c, k)
    <2>1. /\ plru' = (IF c.usage > partition_lru_size THEN d ELSE c) /\ pars' = T
          /\ victim' = w /\ phase' = [phase EXCEPT ![t] = "lokup"]
      BY <1>5, Zenon DEF InsertPart, Enter
    <2>2. /\ PL!Good(plru', h) /\ plru'.key = c.key /\ plru'.in_cache \subseteq c.in_cache
          /\ c.in_cache \ {e} \subseteq plru'.in_cache
      <3>1. CASE c.usage > partition_lru_size
        <4>1. k \in Key /\ c.table[k] = e /\ c.table[k] # NULL
          BY <1>2, <3>1
        <4>2. PL!Good(d, h) /\ d.key = c.key /\ d.in_cache = c.in_cache \ {c.table[k]}
          BY <4>1, RemovePart
        <4> HIDE DEF d, k
        <4> QED BY <2>1, <3>1, <4>1, <4>2
      <3>2. CASE ~(c.usage > partition_lru_size)
        BY <2>1, <3>2
      <3> QED BY <3>1, <3>2
    <2> HIDE DEF d, k, w
    <2>3. Seen(plru', h)
      BY <2>2, CacheSeen
    <2>4. /\ \A x \in Part : plru'.refs[x] = h[x] + (IF x \in plru'.in_cache THEN 1 ELSE 0)
          /\ plru'.refs \in [Part -> Nat]
      BY <2>3 DEF Seen
    <2>5. \A x \in Part : plru'.refs[x] > 0 <=> c.refs[x] > 0
      <3> TAKE x \in Part
      <3>1. CASE x = e
        <4>1. /\ c.refs[e] = h[e] + (IF e \in c.in_cache THEN 1 ELSE 0)
              /\ plru'.refs[e] = h[e] + (IF e \in plru'.in_cache THEN 1 ELSE 0)
              /\ h[e] \in Nat
          BY <1>2, <2>4
        <4> QED BY <3>1, <4>1
      <3>2. CASE x # e
        <4>1. x \in plru'.in_cache <=> x \in c.in_cache
          BY <2>2, <3>2
        <4> QED BY <1>2, <2>4, <4>1
      <3> QED BY <3>1, <3>2
    <2>6. TablesAgree(plru', pars')
      <3>1. \A y \in Key : T[y] # NULL => T[y] \in Part
        OBVIOUS
      <3> QED BY <2>1, <2>2, <2>5, <3>1 DEF TablesAgree
    <2>7. VictimsOk(plru', w)
      <3>1. \A u \in Thread : w[u] # NULL => w[u] \in Part /\ c.refs[w[u]] = 0
        BY <1>3 DEF VictimsOk, w
      <3>2. \A u \in Thread : w[u] # NULL => plru'.refs[w[u]] = 0
        BY <1>2, <2>4, <2>5, <3>1
      <3> QED BY <3>2 DEF VictimsOk, w
    <2>8. AllocIn(plru', w) = AllocIn(c, w)
      BY <2>5 DEF AllocIn
    <2>9. CacheOff(plru')
      BY <2>2 DEF CacheOff
    <2> QED BY <1>3, <2>1, <2>2, <2>6, <2>7, <2>8, <2>9 DEF InsertedFor, w
  <1> QED BY <1>4, <1>5

\* A cache in which the same partitions have references.
LEMMA SameAlive ==
    ASSUME NEW c, NEW d, d.key = c.key, c.refs \in [Part -> Nat], d.refs \in [Part -> Nat],
           \A x \in Part : d.refs[x] > 0 <=> c.refs[x] > 0,
           NEW T \in [Key -> Part \cup {NULL}], NEW vi \in [Thread -> Part \cup {NULL}],
           TablesAgree(c, T), VictimsOk(c, vi)
    PROVE  TablesAgree(d, T) /\ VictimsOk(d, vi) /\ AllocIn(d, vi) = AllocIn(c, vi)
  <1>1. TablesAgree(d, T)
    <2>1. \A k \in Key : T[k] # NULL => T[k] \in Part
      OBVIOUS
    <2> QED BY <2>1 DEF TablesAgree
  <1>2. VictimsOk(d, vi)
    <2>1. \A x \in Part : c.refs[x] = 0 => d.refs[x] = 0
      OBVIOUS
    <2>2. \A t \in Thread : vi[t] # NULL => vi[t] \in Part
      OBVIOUS
    <2> QED BY <2>1, <2>2 DEF VictimsOk
  <1>3. AllocIn(d, vi) = AllocIn(c, vi)
    BY DEF AllocIn
  <1> QED BY <1>1, <1>2, <1>3

LEMMA SamePartDir ==
    ASSUME NEW dr, NEW A \in SUBSET Part, NEW c, NEW d, \A e \in A : d.key[e] = c.key[e],
           NEW B, NEW g, DirsCounted(dr, A, PartDir(c), B, g)
    PROVE  DirsCounted(dr, A, PartDir(d), B, g)
  <1>1. \A e \in A : PartDir(c)[e] = PartDir(d)[e]
    BY DEF PartDir
  <1> QED BY <1>1, DirsSame

\* The calls that count for their directory, when thread t enters phase x.
LEMMA CountedStep ==
    ASSUME NEW ph, DOMAIN ph = Thread, NEW t \in Thread, NEW x
    PROVE  LET b == [ph EXCEPT ![t] = x] IN
           /\ (ph[t] \in Counting <=> x \in Counting) => CountedIn(b) = CountedIn(ph)
           /\ ph[t] \notin Counting /\ x \in Counting =>
                 CountedIn(b) = CountedIn(ph) \cup {t} /\ t \notin CountedIn(ph)
           /\ ph[t] \in Counting /\ x \notin Counting =>
                 CountedIn(b) = CountedIn(ph) \ {t} /\ t \in CountedIn(ph)
  <1> DEFINE b == [ph EXCEPT ![t] = x]
  <1>1. b[t] = x /\ \A u \in Thread \ {t} : b[u] = ph[u]
    OBVIOUS
  <1> HIDE DEF b
  <1>2. (ph[t] \in Counting <=> x \in Counting) => CountedIn(b) = CountedIn(ph)
    BY <1>1 DEF CountedIn
  <1>3. ph[t] \notin Counting /\ x \in Counting =>
           CountedIn(b) = CountedIn(ph) \cup {t} /\ t \notin CountedIn(ph)
    BY <1>1 DEF CountedIn
  <1>4. ph[t] \in Counting /\ x \notin Counting =>
           CountedIn(b) = CountedIn(ph) \ {t} /\ t \in CountedIn(ph)
    BY <1>1 DEF CountedIn
  <1> QED BY <1>2, <1>3, <1>4 DEF b

\* A call that no longer counts gives its reference back.
LEMMA CallGives ==
    ASSUME NEW dr \in [Dir -> Nat], NEW A, IsFiniteSet(A), NEW f, NEW ky \in [Thread -> Key],
           NEW ph, DOMAIN ph = Thread, NEW t \in Thread, ph[t] \in Counting,
           NEW x, x \notin Counting, DirsCounted(dr, A, f, CountedIn(ph), CallDir(ky))
    PROVE  LET down == [dr EXCEPT ![DirOf[ky[t]]] = @ - 1] IN
           /\ down \in [Dir -> Nat]
           /\ DirsCounted(down, A, f, CountedIn([ph EXCEPT ![t] = x]), CallDir(ky))
  <1> DEFINE B == CountedIn(ph)
             g == CallDir(ky)
             down == [dr EXCEPT ![g[t]] = @ - 1]
  <1>1. g[t] = DirOf[ky[t]] /\ g[t] \in Dir
    BY PartFacts DEF CallDir
  <1>2. IsFiniteSet(B) /\ t \in B /\ CountedIn([ph EXCEPT ![t] = x]) = B \ {t} /\ IsFiniteSet(B \ {t})
    BY FiniteSets2, CountedStep, FS_RemoveElement
  <1>3. DirsCounted(dr, B, g, A, f)
    BY <1>2, DirsSwap
  <1> HIDE DEF B, g
  <1>4. down \in [Dir -> Nat] /\ DirsCounted(down, B \ {t}, g, A, f)
    BY <1>1, <1>2, <1>3, DirsLess
  <1> HIDE DEF down
  <1>5. DirsCounted(down, A, f, B \ {t}, g)
    BY <1>2, <1>4, DirsSwap
  <1> QED BY <1>1, <1>2, <1>4, <1>5 DEF down, g

\* A call begins to count for the directory of its key.
LEMMA CallTakes ==
    ASSUME NEW dr \in [Dir -> Nat], NEW A, IsFiniteSet(A), NEW f, NEW ky \in [Thread -> Key],
           NEW ph, DOMAIN ph = Thread, NEW t \in Thread, ph[t] \notin Counting,
           NEW x \in Counting, NEW k \in Key,
           DirsCounted(dr, A, f, CountedIn(ph), CallDir(ky))
    PROVE  LET up == [dr EXCEPT ![DirOf[k]] = @ + 1] IN
           /\ up \in [Dir -> Nat]
           /\ DirsCounted(up, A, f, CountedIn([ph EXCEPT ![t] = x]), CallDir([ky EXCEPT ![t] = k]))
  <1> DEFINE B == CountedIn(ph)
             C == CountedIn([ph EXCEPT ![t] = x])
             g == CallDir(ky)
             q == CallDir([ky EXCEPT ![t] = k])
             up == [dr EXCEPT ![q[t]] = @ + 1]
  <1>1. q[t] = DirOf[k] /\ q[t] \in Dir /\ \A u \in Thread \ {t} : g[u] = q[u]
    BY PartFacts DEF CallDir
  <1>2. Plus(B, t, C)
    BY CountedStep DEF Plus
  <1>3. B \subseteq Thread
    BY DEF CountedIn
  <1>4. IsFiniteSet(B) /\ IsFiniteSet(C)
    BY FiniteSets2
  <1>5. DirsCounted(dr, B, g, A, f)
    BY <1>4, DirsSwap
  <1>6. Alike(B, g, q)
    BY <1>1, <1>2, <1>3 DEF Plus, Alike
  <1>7. q[t] \in Dir
    BY <1>1
  <1> HIDE DEF B, C, g, q
  <1>8. up \in [Dir -> Nat] /\ DirsCounted(up, C, q, A, f)
    <2>1. MoreFor(dr, q[t], C, q, A, f)
      BY <1>2, <1>4, <1>5, <1>6, <1>7, DirsMore
    <2> QED BY <2>1 DEF MoreFor
  <1> HIDE DEF up
  <1>9. DirsCounted(up, A, f, C, q)
    BY <1>4, <1>8, DirsSwap
  <1> QED BY <1>1, <1>8, <1>9 DEF up, C, q

LEMMA OpenFacts ==
    ASSUME OpenInv
    PROVE  /\ PartTyped /\ Hold(part) \in Holders /\ PL!Good(plru, Hold(part))
           /\ Seen(plru, Hold(part)) /\ TablesAgree(plru, pars) /\ VictimsOk(plru, victim)
           /\ CacheOff(plru) /\ EvictingOk(phase, part, plru) /\ PhasesOk(phase, part, victim)
           /\ plru.refs \in [Part -> Nat] /\ plru.key \in [Part -> Key]
           /\ plru.in_cache \in SUBSET Part
           /\ DirsCounted(drefs, AllocIn(plru, victim), PartDir(plru), CountedIn(phase), CallDir(key))
  <1>1. /\ PartTyped /\ PL!Good(plru, Hold(part)) /\ TablesAgree(plru, pars)
        /\ VictimsOk(plru, victim)
        /\ CacheOff(plru) /\ EvictingOk(phase, part, plru) /\ PhasesOk(phase, part, victim)
        /\ DirsCounted(drefs, AllocIn(plru, victim), PartDir(plru), CountedIn(phase), CallDir(key))
    BY DEF OpenInv, CacheFine
  <1>2. Hold(part) \in Holders
    BY HoldFacts
  <1>3. Seen(plru, Hold(part))
    BY <1>1, <1>2, CacheSeen
  <1>4. /\ plru.refs \in [Part -> Nat] /\ plru.key \in [Part -> Key] /\ plru.in_cache \in SUBSET Part
    BY <1>3 DEF Seen
  <1> QED BY <1>1, <1>2, <1>3, <1>4

LEMMA LokupCallStep ==
    ASSUME OpenInv, NEW t \in Thread, NEW k \in Key, Lokup(t, k)
    PROVE  OpenInv'
  <1>1. /\ PartTyped
        /\ DirsCounted(drefs, AllocIn(plru, victim), PartDir(plru), CountedIn(phase), CallDir(key))
    BY OpenFacts
  <1>2. /\ phase[t] = "idle" /\ key' = [key EXCEPT ![t] = k]
        /\ drefs' = [drefs EXCEPT ![DirOf[k]] = @ + 1] /\ phase' = [phase EXCEPT ![t] = "fetch"]
        /\ UNCHANGED <<plru, pars, handle, part, victim, closed>>
    BY DEF Lokup, AcquireDir, Enter
  <1>3. CacheFine(plru', pars', phase', part', victim')
    <2>1. CacheFine(plru, pars, phase, part, victim)
      BY DEF OpenInv
    <2>2. phase'[t] = "fetch" /\ \A u \in Thread \ {t} : phase'[u] = phase[u]
      BY <1>1, <1>2 DEF PartTyped
    <2>3. PhasesOk(phase', part, victim) /\ EvictingOk(phase', part, plru)
      BY <1>2, <2>1, <2>2 DEF CacheFine, PhasesOk, EvictingOk
    <2> QED BY <1>2, <2>1, <2>3 DEF CacheFine
  <1> DEFINE A == AllocIn(plru, victim)
             f == PartDir(plru)
  <1>4. /\ drefs \in [Dir -> Nat] /\ key \in [Thread -> Key] /\ DOMAIN phase = Thread
        /\ phase[t] \notin Counting /\ "fetch" \in Counting
    BY <1>1, <1>2 DEF PartTyped, Counting
  <1>5. IsFiniteSet(A)
    BY FiniteSets2
  <1> HIDE DEF A, f
  <1>6. DirsCounted(drefs, A, f, CountedIn(phase), CallDir(key))
    BY <1>1 DEF A, f
  <1>7. drefs' \in [Dir -> Nat] /\ DirsCounted(drefs', A, f, CountedIn(phase'), CallDir(key'))
    BY <1>2, <1>4, <1>5, <1>6, CallTakes
  <1>8. PartTyped'
    BY <1>1, <1>2, <1>7 DEF PartTyped
  <1>9. DirsCounted(drefs', AllocIn(plru', victim'), PartDir(plru'), CountedIn(phase'), CallDir(key'))
    BY <1>2, <1>7 DEF A, f
  <1> QED BY <1>3, <1>8, <1>9 DEF OpenInv

LEMMA ReferenceStep ==
    ASSUME OpenInv, NEW t \in Thread, phase[t] = "fetch", NEW e \in Part, plru.refs[e] > 0,
           Reference(t, e), phase'[t] # "undefined", UNCHANGED <<key, lookups, closed>>
    PROVE  OpenInv'
  <1>1. /\ PartTyped /\ Hold(part) \in Holders /\ PL!Good(plru, Hold(part))
        /\ TablesAgree(plru, pars) /\ VictimsOk(plru, victim) /\ CacheOff(plru)
        /\ EvictingOk(phase, part, plru) /\ PhasesOk(phase, part, victim)
        /\ plru.refs \in [Part -> Nat]
        /\ DirsCounted(drefs, AllocIn(plru, victim), PartDir(plru), CountedIn(phase), CallDir(key))
    BY OpenFacts
  <1>t. DOMAIN phase = Thread /\ DOMAIN part = Thread
    BY <1>1 DEF PartTyped
  <1> DEFINE d == lru!AddRef(plru, e)
             h == OneMore(Hold(part), e)
  <1>2. /\ plru' = d /\ part' = [part EXCEPT ![t] = e] /\ phase' = [phase EXCEPT ![t] = "lokup"]
        /\ UNCHANGED <<pars, handle, drefs, victim>>
    BY <1>t DEF Reference, Enter
  <1>3. part[t] = NULL /\ victim[t] = NULL
    BY <1>1 DEF PhasesOk
  <1>4. /\ PL!Good(d, h) /\ d.key = plru.key /\ d.in_cache = plru.in_cache
        /\ d.refs = [plru.refs EXCEPT ![e] = @ + 1]
    BY <1>1, RefPart DEF Stays
  <1>5. Hold(part') = h
    BY <1>t, <1>2, <1>3, HoldMore
  <1> HIDE DEF d, h
  <1>6. d.refs \in [Part -> Nat] /\ \A x \in Part : d.refs[x] > 0 <=> plru.refs[x] > 0
    BY <1>1, <1>4
  <1>7. TablesAgree(d, pars) /\ VictimsOk(d, victim) /\ AllocIn(d, victim) = AllocIn(plru, victim)
    BY <1>1, <1>4, <1>6, SameAlive DEF PartTyped
  <1>8. CacheOff(d)
    BY <1>1, <1>4 DEF CacheOff
  <1>9. /\ phase'[t] = "lokup" /\ part'[t] = e /\ e # NULL
        /\ \A u \in Thread \ {t} : phase'[u] = phase[u] /\ part'[u] = part[u]
    BY <1>t, <1>2, PartFacts
  <1>10. EvictingOk(phase', part', d) /\ PhasesOk(phase', part', victim)
    BY <1>1, <1>3, <1>4, <1>9 DEF EvictingOk, PhasesOk
  <1>11. CacheFine(plru', pars', phase', part', victim')
    BY <1>2, <1>4, <1>5, <1>7, <1>8, <1>10 DEF CacheFine
  <1>12. CountedIn(phase') = CountedIn(phase)
    <2>1. phase[t] \in Counting /\ "lokup" \in Counting
      BY DEF Counting
    <2> QED BY <1>t, <1>2, <2>1, CountedStep
  <1>13. DirsCounted(drefs', AllocIn(plru', victim'), PartDir(plru'), CountedIn(phase'), CallDir(key'))
    <2>1. PartDir(d) = PartDir(plru)
      BY <1>4 DEF PartDir
    <2> QED BY <1>1, <1>2, <1>7, <1>12, <2>1
  <1>14. PartTyped'
    BY <1>1, <1>2 DEF PartTyped
  <1> QED BY <1>11, <1>13, <1>14 DEF OpenInv

\* InsertPart at the end of an action of thread t, which has the partition e.
LEMMA PartInsertedStep ==
    ASSUME PartTyped, PhasesOk(phase, part, victim), NEW t \in Thread, phase[t] \in {"fetch", "evict"},
           NEW c, NEW e \in Part, NEW T,
           part' \in [Thread -> Part \cup {NULL}], part'[t] = e,
           \A u \in Thread \ {t} : part'[u] = part[u],
           \A u \in Thread \ {t} : phase[u] = "evict" => part[u] # e /\ part[u] \in c.in_cache,
           \A u, v \in Thread : phase[u] = "evict" /\ phase[v] = "evict" /\ part[u] = part[v] => u = v,
           InsertedFor(t, c, Hold(part'), e, T, plru', pars', victim', phase')
    PROVE  /\ CacheFine(plru', pars', phase', part', victim') /\ CountedIn(phase') = CountedIn(phase)
           /\ phase' \in [Thread -> PhaseName] /\ pars' \in [Key -> Part \cup {NULL}]
           /\ victim' \in [Thread -> Part \cup {NULL}]
  <1> DEFINE h == Hold(part')
  <1>1. /\ PL!Good(plru', h) /\ pars' \in [Key -> Part \cup {NULL}] /\ TablesAgree(plru', pars')
        /\ victim' \in [Thread -> Part \cup {NULL}] /\ VictimsOk(plru', victim')
        /\ CacheOff(plru') /\ \A u \in Thread \ {t} : victim'[u] = victim[u]
    BY DEF InsertedFor
  <1>2. /\ \/ phase' = [phase EXCEPT ![t] = "evict"] /\ victim'[t] # NULL /\ e \in plru'.in_cache
           \/ phase' = [phase EXCEPT ![t] = "lokup"] /\ victim'[t] = NULL
        /\ \A x \in c.in_cache \ {e} : h[x] > 0 => x \in plru'.in_cache
    BY DEF InsertedFor
  <1>3. phase \in [Thread -> PhaseName] /\ DOMAIN phase = Thread
    BY DEF PartTyped, PhaseName
  <1>4. /\ phase' \in [Thread -> PhaseName]
        /\ phase'[t] = "evict" => victim'[t] # NULL /\ e \in plru'.in_cache
        /\ phase'[t] \in {"evict", "lokup"} /\ (phase'[t] = "lokup" => victim'[t] = NULL)
        /\ \A u \in Thread \ {t} : phase'[u] = phase[u]
    BY <1>2, <1>3 DEF PhaseName
  <1>5. ASSUME NEW u \in Thread \ {t}, phase[u] = "evict" PROVE part[u] # e /\ part[u] \in plru'.in_cache
    <2>1. part[u] # e /\ part[u] \in c.in_cache /\ part'[u] = part[u]
      BY <1>5
    <2>2. part[u] \in Part
      <3>1. part[u] # NULL
        BY <1>5 DEF PhasesOk
      <3> QED BY <2>1, <3>1
    <2>3. h[part[u]] > 0
      BY <2>1, <2>2, HoldFacts
    <2> QED BY <1>2, <2>1, <2>3
  <1>6. EvictingOk(phase', part', plru')
    <2>1. \A u \in Thread : phase'[u] = "evict" => part'[u] \in plru'.in_cache
      BY <1>4, <1>5
    <2>2. ASSUME NEW u \in Thread, NEW v \in Thread, phase'[u] = "evict", phase'[v] = "evict",
                 part'[u] = part'[v]
          PROVE  u = v
      <3>1. CASE u # t /\ v # t
        BY <1>4, <2>2, <3>1
      <3>2. CASE u = t \/ v = t
        BY <1>4, <1>5, <2>2, <3>2
      <3> QED BY <3>1, <3>2
    <2> QED BY <2>1, <2>2 DEF EvictingOk
  <1>7. PhasesOk(phase', part', victim')
    <2>1. ASSUME NEW u \in Thread
          PROVE  /\ phase'[u] \in {"evict", "lokup", "held"} <=> part'[u] # NULL
                 /\ phase'[u] \in {"evict", "drop", "free"} <=> victim'[u] # NULL
      <3>1. CASE u = t
        BY <1>4, <3>1, PartFacts
      <3>2. CASE u # t
        BY <1>1, <1>4, <3>2 DEF PhasesOk
      <3> QED BY <3>1, <3>2
    <2> QED BY <2>1 DEF PhasesOk
  <1>8. CountedIn(phase') = CountedIn(phase)
    <2>1. phase[t] \in Counting /\ "lokup" \in Counting /\ "evict" \in Counting
      BY DEF Counting
    <2> QED BY <1>2, <1>3, <2>1, CountedStep
  <1> QED BY <1>1, <1>4, <1>6, <1>7, <1>8 DEF CacheFine

LEMMA EvictedStep ==
    ASSUME OpenInv, NEW t \in Thread, Evicted(t)
    PROVE  OpenInv'
  <1>1. /\ PartTyped /\ Hold(part) \in Holders /\ PL!Good(plru, Hold(part))
        /\ TablesAgree(plru, pars) /\ VictimsOk(plru, victim) /\ CacheOff(plru)
        /\ EvictingOk(phase, part, plru) /\ PhasesOk(phase, part, victim)
        /\ plru.refs \in [Part -> Nat] /\ plru.key \in [Part -> Key]
        /\ DirsCounted(drefs, AllocIn(plru, victim), PartDir(plru), CountedIn(phase), CallDir(key))
    BY OpenFacts
  <1> DEFINE v == victim[t]
             e == part[t]
             w == [victim EXCEPT ![t] = NULL]
             down == [drefs EXCEPT ![PartDir(plru)[v]] = @ - 1]
  <1>2. /\ phase[t] = "evict" /\ InsertPart(t, plru, e, pars, ReleaseDirOf(v))
        /\ UNCHANGED <<key, part, lookups, closed>>
    BY DEF Evicted
  <1>3. /\ v \in Part /\ e \in Part /\ e \in plru.in_cache /\ plru.refs[v] = 0
        /\ phase \in [Thread -> PhaseName] /\ victim \in [Thread -> Part \cup {NULL}]
        /\ pars \in [Key -> Part \cup {NULL}] /\ part \in [Thread -> Part \cup {NULL}]
        /\ drefs \in [Dir -> Nat]
    BY <1>1, <1>2 DEF PhasesOk, PartTyped, PhaseName, EvictingOk, VictimsOk
  <1>4. Hold(part)[e] > 0
    BY <1>3, HoldFacts
  <1>5. VictimsOk(plru, w)
    <2>1. w[t] = NULL /\ \A u \in Thread \ {t} : w[u] = victim[u]
      BY <1>3
    <2> QED BY <1>1, <2>1 DEF VictimsOk
  <1>6. InsertedFor(t, plru, Hold(part), e, pars, plru', pars', victim', phase')
    BY <1>1, <1>2, <1>3, <1>4, <1>5, InsertPartOk
  <1>7. drefs' = down
    <2>1. drefs' = ReleaseDirOf(v)
      BY <1>2 DEF InsertPart
    <2> QED BY <1>3, <2>1 DEF ReleaseDirOf, PartDir
  <1>8. AllocIn(plru', victim') = AllocIn(plru, victim) \ {v} /\ v \in AllocIn(plru, victim)
    <2>1. AllocIn(plru', victim') = AllocIn(plru, w)
      BY <1>6 DEF InsertedFor
    <2>2. ASSUME NEW x \in Part
          PROVE  (plru.refs[x] > 0 \/ \E u \in Thread : w[u] = x)
                  <=> (x # v /\ (plru.refs[x] > 0 \/ \E u \in Thread : victim[u] = x))
      <3>1. w[t] = NULL /\ \A u \in Thread \ {t} : w[u] = victim[u]
        BY <1>3
      <3>2. CASE x = v
        <4>1. \A u \in Thread \ {t} : victim[u] # v
          BY <1>1, <1>3, PartFacts DEF VictimsOk
        <4> QED BY <1>3, <3>1, <3>2, <4>1, PartFacts
      <3>3. CASE x # v
        BY <3>1, <3>3, PartFacts
      <3> QED BY <3>2, <3>3
    <2>3. AllocIn(plru, w) = AllocIn(plru, victim) \ {v}
      BY <2>2 DEF AllocIn
    <2>4. v \in AllocIn(plru, victim)
      BY <1>3 DEF AllocIn
    <2> QED BY <2>1, <2>3, <2>4
  <1>9. PartDir(plru') = PartDir(plru) /\ PartDir(plru)[v] \in Dir
    <2>1. plru'.key = plru.key
      BY <1>6 DEF InsertedFor
    <2> QED BY <1>1, <1>3, <2>1, PartFacts DEF PartDir
  <1>10. /\ CacheFine(plru', pars', phase', part', victim') /\ CountedIn(phase') = CountedIn(phase)
         /\ phase' \in [Thread -> PhaseName] /\ pars' \in [Key -> Part \cup {NULL}]
         /\ victim' \in [Thread -> Part \cup {NULL}]
    <2>1. \A u \in Thread \ {t} : phase[u] = "evict" => part[u] # e /\ part[u] \in plru.in_cache
      BY <1>1, <1>2 DEF EvictingOk
    <2>2. \A u, y \in Thread : phase[u] = "evict" /\ phase[y] = "evict" /\ part[u] = part[y] => u = y
      BY <1>1 DEF EvictingOk
    <2>3. /\ part' \in [Thread -> Part \cup {NULL}] /\ part'[t] = e
          /\ \A u \in Thread \ {t} : part'[u] = part[u]
      BY <1>2, <1>3
    <2>4. InsertedFor(t, plru, Hold(part'), e, pars, plru', pars', victim', phase')
      BY <1>2, <1>6
    <2>5. phase[t] \in {"fetch", "evict"}
      BY <1>2
    <2> HIDE DEF e
    <2> QED BY <1>1, <1>3, <2>1, <2>2, <2>3, <2>4, <2>5, PartInsertedStep
  <1> DEFINE A == AllocIn(plru, victim)
             B == CountedIn(phase)
  <1>11. IsFiniteSet(A) /\ IsFiniteSet(B)
    BY FiniteSets2
  <1>12. DirsCounted(drefs, A, PartDir(plru), B, CallDir(key)) /\ v \in A
    BY <1>1, <1>8
  <1> HIDE DEF A, B, v
  <1>13. down \in [Dir -> Nat] /\ DirsCounted(down, A \ {v}, PartDir(plru), B, CallDir(key))
    BY <1>3, <1>9, <1>11, <1>12, DirsLess
  <1>14. PartTyped'
    BY <1>1, <1>2, <1>7, <1>10, <1>13 DEF PartTyped, PhaseName
  <1>15. DirsCounted(drefs', AllocIn(plru', victim'), PartDir(plru'), CountedIn(phase'), CallDir(key'))
    BY <1>2, <1>7, <1>8, <1>9, <1>10, <1>13 DEF A, B
  <1> QED BY <1>10, <1>14, <1>15 DEF OpenInv

\* The new partition e for key k, before anything is evicted: in the cache, unless it is off.
Made(c, k, e) ==
    LET new == lru!NewEntry(c, k, e, 1)
    IN  IF partition_lru_size = 0 THEN new ELSE lru!AddEntry(new, k, e)

LEMMA MadeOk ==
    ASSUME NEW c, NEW h \in Holders, PL!Good(c, h), CacheOff(c), NEW k \in Key, NEW e \in Part,
           c.refs[e] = 0, c.table[k] = NULL
    PROVE  LET d == Made(c, k, e) IN
           /\ PL!Good(d, OneMore(h, e)) /\ OneMore(h, e) \in Holders
           /\ d.key = [c.key EXCEPT ![e] = k] /\ CacheOff(d)
           /\ d.usage > partition_lru_size => e \in d.in_cache
           /\ c.in_cache \subseteq d.in_cache /\ d.in_cache \subseteq c.in_cache \cup {e}
  <1> DEFINE new == lru!NewEntry(c, k, e, 1)
             a == lru!AddEntry(new, k, e)
             g == OneMore(h, e)
  <1>0. c.key \in [Part -> Key] /\ h \in [Part -> Nat] /\ partition_lru_size \in Nat
    BY CacheSeen, PartFacts DEF Seen, Holders
  <1>1. /\ PL!Good(new, g) /\ new.key = [c.key EXCEPT ![e] = k] /\ g \in Holders
        /\ new.in_cache = c.in_cache /\ e \notin c.in_cache /\ new.table = c.table
    BY NewPart
  <1>2. g[e] > 0
    BY <1>0 DEF OneMore
  <1> HIDE DEF new, g
  <1>3. new.key[e] = k /\ e \notin new.in_cache /\ new.table[k] = NULL
    BY <1>0, <1>1
  <1>4. PL!Good(a, g) /\ a.key = new.key /\ a.in_cache = new.in_cache \cup {e}
    <2>1. AddedTo(new, g, e, a)
      BY <1>1, <1>2, <1>3, AddPart
    <2> HIDE DEF a
    <2> QED BY <2>1 DEF AddedTo
  <1> HIDE DEF a
  <1>5. CASE partition_lru_size = 0
    <2>1. Made(c, k, e) = new
      BY <1>5 DEF Made, new
    <2>2. new.in_cache = {} /\ CacheOff(new)
      BY <1>1, <1>5 DEF CacheOff
    <2>3. new.usage = 0
      BY <1>1, <2>2, CacheSeen DEF Seen
    <2>4. ~(new.usage > partition_lru_size)
      BY <1>5, <2>3
    <2> QED BY <1>1, <2>1, <2>2, <2>4 DEF g
  <1>6. CASE partition_lru_size # 0
    <2>1. Made(c, k, e) = a
      BY <1>6 DEF Made, a, new
    <2>2. CacheOff(a)
      BY <1>6 DEF CacheOff
    <2> QED BY <1>1, <1>4, <2>1, <2>2 DEF g
  <1> QED BY <1>5, <1>6

LEMMA AcquireNewStep ==
    ASSUME OpenInv, NEW t \in Thread, phase[t] = "fetch", plru.table[key[t]] = NULL,
           pars[key[t]] = NULL, AcquireNew(t), UNCHANGED <<key, lookups, closed>>
    PROVE  OpenInv'
  <1>1. /\ PartTyped /\ Hold(part) \in Holders /\ PL!Good(plru, Hold(part))
        /\ TablesAgree(plru, pars) /\ VictimsOk(plru, victim) /\ CacheOff(plru)
        /\ EvictingOk(phase, part, plru) /\ PhasesOk(phase, part, victim)
        /\ plru.refs \in [Part -> Nat] /\ plru.key \in [Part -> Key]
        /\ DirsCounted(drefs, AllocIn(plru, victim), PartDir(plru), CountedIn(phase), CallDir(key))
    BY OpenFacts
  <1> DEFINE k == key[t]
             T(e) == [pars EXCEPT ![k] = e]
  <1>2. PICK e \in Part \ Allocated :
           /\ part' = [part EXCEPT ![t] = e]
           /\ InsertPart(t, Made(plru, k, e), e, T(e), AcquireDir(DirOf[k]))
    BY DEF AcquireNew, Made
  <1> DEFINE c == Made(plru, k, e)
             h == OneMore(Hold(part), e)
             A == AllocIn(plru, victim)
             up == [drefs EXCEPT ![DirOf[k]] = @ + 1]
  <1>3. /\ k \in Key /\ part[t] = NULL /\ victim[t] = NULL
        /\ phase \in [Thread -> PhaseName] /\ victim \in [Thread -> Part \cup {NULL}]
        /\ pars \in [Key -> Part \cup {NULL}] /\ part \in [Thread -> Part \cup {NULL}]
        /\ drefs \in [Dir -> Nat] /\ plru.table[k] = NULL /\ pars[k] = NULL
    BY <1>1 DEF PhasesOk, PartTyped, PhaseName
  <1>4. e \in Part /\ e \notin A /\ plru.refs[e] = 0 /\ \A u \in Thread : victim[u] # e
    <2>1. A = Allocated
      BY DEF AllocIn, Allocated
    <2>2. ~(plru.refs[e] > 0) /\ \A u \in Thread : victim[u] # e
      BY <1>2 DEF Allocated
    <2> QED BY <1>1, <1>2, <2>1, <2>2
  <1>5. /\ PL!Good(c, h) /\ h \in Holders /\ c.key = [plru.key EXCEPT ![e] = k] /\ CacheOff(c)
        /\ c.usage > partition_lru_size => e \in c.in_cache
        /\ plru.in_cache \subseteq c.in_cache /\ c.in_cache \subseteq plru.in_cache \cup {e}
    BY <1>1, <1>3, <1>4, MadeOk
  <1> HIDE DEF c, k
  <1>6. Hold(part') = h /\ h[e] > 0
    <2>1. Hold(part') = h
      BY <1>2, <1>3, HoldMore
    <2>2. Hold(part) \in [Part -> Nat]
      BY <1>1 DEF Holders
    <2> QED BY <2>1, <2>2 DEF OneMore
  <1>7. /\ c.refs \in [Part -> Nat] /\ c.refs[e] > 0
        /\ \A x \in Part \ {e} : c.refs[x] = plru.refs[x]
    <2>1. Seen(c, h) /\ Seen(plru, Hold(part))
      BY <1>1, <1>5, CacheSeen
    <2>2. /\ \A x \in Part : c.refs[x] = h[x] + (IF x \in c.in_cache THEN 1 ELSE 0)
          /\ \A x \in Part : plru.refs[x] = Hold(part)[x] + (IF x \in plru.in_cache THEN 1 ELSE 0)
          /\ c.refs \in [Part -> Nat]
      BY <2>1 DEF Seen
    <2>3. \A x \in Part \ {e} : h[x] = Hold(part)[x] /\ (x \in c.in_cache <=> x \in plru.in_cache)
      BY <1>1, <1>5 DEF OneMore, Holders
    <2>4. h[e] \in Nat
      BY <1>5 DEF Holders
    <2>5. c.refs[e] > 0
      BY <1>4, <1>6, <2>2, <2>4
    <2> HIDE DEF h
    <2> QED BY <2>2, <2>3, <2>5
  <1> HIDE DEF h
  <1>8. T(e) \in [Key -> Part \cup {NULL}] /\ TablesAgree(c, T(e))
    <2>1. T(e) \in [Key -> Part \cup {NULL}]
      BY <1>3, <1>4
    <2>2. T(e)[k] = e /\ \A y \in Key \ {k} : T(e)[y] = pars[y]
      BY <1>3
    <2> HIDE DEF T
    <2>3. ASSUME NEW y \in Key, T(e)[y] # NULL PROVE c.refs[T(e)[y]] > 0 /\ c.key[T(e)[y]] = y
      <3>1. CASE y = k
        BY <1>1, <1>4, <1>5, <1>7, <2>2, <3>1
      <3>2. CASE y # k
        <4>1. pars[y] \in Part /\ plru.refs[pars[y]] > 0 /\ plru.key[pars[y]] = y
          BY <1>1, <1>3, <2>2, <2>3, <3>2 DEF TablesAgree
        <4>2. pars[y] # e
          BY <1>4, <4>1
        <4> QED BY <1>1, <1>5, <1>7, <2>2, <3>2, <4>1, <4>2
      <3> QED BY <3>1, <3>2
    <2>4. ASSUME NEW x \in Part, c.refs[x] > 0 PROVE T(e)[c.key[x]] = x
      <3>1. CASE x = e
        BY <1>1, <1>4, <1>5, <2>2, <3>1
      <3>2. CASE x # e
        <4>1. plru.refs[x] > 0 /\ c.key[x] = plru.key[x] /\ plru.key[x] \in Key
          BY <1>1, <1>5, <1>7, <2>4, <3>2
        <4>2. pars[plru.key[x]] = x
          BY <1>1, <4>1 DEF TablesAgree
        <4>3. plru.key[x] # k
          BY <1>3, <4>2, PartFacts
        <4> QED BY <2>2, <4>1, <4>2, <4>3
      <3> QED BY <3>1, <3>2
    <2> QED BY <2>1, <2>3, <2>4 DEF TablesAgree
  <1>9. [victim EXCEPT ![t] = NULL] = victim
    BY <1>3
  <1>10. VictimsOk(c, victim)
    <2>1. \A u \in Thread : victim[u] # NULL => victim[u] \in Part /\ victim[u] # e
      BY <1>3, <1>4
    <2>2. \A u \in Thread : victim[u] # NULL => c.refs[victim[u]] = 0
      BY <1>1, <1>7, <2>1 DEF VictimsOk
    <2> QED BY <1>1, <2>2 DEF VictimsOk
  <1>11. InsertPart(t, c, e, T(e), AcquireDir(DirOf[k]))
    BY <1>2 DEF c
  <1>12. InsertedFor(t, c, h, e, T(e), plru', pars', victim', phase')
    <2> HIDE DEF T
    <2> QED BY <1>3, <1>4, <1>5, <1>6, <1>8, <1>9, <1>10, <1>11, InsertPartOk
  <1>13. AllocIn(plru', victim') = AllocIn(c, victim) /\ plru'.key = c.key
    BY <1>9, <1>12 DEF InsertedFor
  <1>14. Plus(A, e, AllocIn(c, victim))
    <2>1. \A x \in Part : c.refs[x] > 0 <=> x = e \/ plru.refs[x] > 0
      BY <1>7
    <2> QED BY <1>4, <2>1 DEF Plus, AllocIn
  <1>15. /\ CacheFine(plru', pars', phase', part', victim') /\ CountedIn(phase') = CountedIn(phase)
         /\ phase' \in [Thread -> PhaseName] /\ pars' \in [Key -> Part \cup {NULL}]
         /\ victim' \in [Thread -> Part \cup {NULL}]
    <2>1. ASSUME NEW u \in Thread \ {t}, phase[u] = "evict"
          PROVE  part[u] # e /\ part[u] \in c.in_cache
      <3>1. part[u] \in plru.in_cache
        BY <1>1, <2>1 DEF EvictingOk
      <3>2. part[u] # NULL
        BY <1>1, <2>1 DEF PhasesOk
      <3>3. part[u] \in Part
        BY <1>3, <3>2
      <3>4. plru.refs[part[u]] > 0
        <4>1. Seen(plru, Hold(part))
          BY <1>1, CacheSeen
        <4>2. plru.refs[part[u]] = Hold(part)[part[u]] + (IF part[u] \in plru.in_cache THEN 1 ELSE 0)
          BY <3>3, <4>1 DEF Seen
        <4>3. Hold(part)[part[u]] \in Nat
          BY <1>1, <3>3 DEF Holders
        <4> QED BY <3>1, <4>2, <4>3
      <3> QED BY <1>4, <1>5, <3>1, <3>4
    <2>2. \A u, y \in Thread : phase[u] = "evict" /\ phase[y] = "evict" /\ part[u] = part[y] => u = y
      BY <1>1 DEF EvictingOk
    <2>3. /\ part' \in [Thread -> Part \cup {NULL}] /\ part'[t] = e
          /\ \A u \in Thread \ {t} : part'[u] = part[u]
      BY <1>2, <1>3
    <2>4. InsertedFor(t, c, Hold(part'), e, T(e), plru', pars', victim', phase')
      BY <1>6, <1>12
    <2>5. phase[t] \in {"fetch", "evict"}
      OBVIOUS
    <2> HIDE DEF T
    <2> QED BY <1>1, <1>4, <2>1, <2>2, <2>3, <2>4, <2>5, PartInsertedStep
  <1> DEFINE B == CountedIn(phase)
             C == AllocIn(c, victim)
             f == PartDir(plru)
             q == PartDir(c)
             g == CallDir(key)
  <1>16. IsFiniteSet(A) /\ IsFiniteSet(B) /\ DirsCounted(drefs, A, f, B, g) /\ Plus(A, e, C)
    BY <1>1, <1>14, FiniteSets2
  <1>17. q[e] = DirOf[k] /\ q[e] \in Dir /\ \A x \in A : f[x] = q[x]
    <2>1. q[e] = DirOf[k] /\ q[e] \in Dir
      BY <1>1, <1>3, <1>4, <1>5, PartFacts DEF PartDir
    <2>2. ASSUME NEW x \in A PROVE f[x] = q[x]
      <3>1. x \in Part /\ x # e
        BY <1>4, <2>2 DEF AllocIn
      <3> QED BY <1>1, <1>4, <1>5, <3>1 DEF PartDir
    <2> QED BY <2>1, <2>2
  <1> HIDE DEF A, B, C, f, g, q
  <1>18. MoreFor(drefs, q[e], C, q, B, g)
    <2>1. drefs \in [Dir -> Nat]
      BY <1>3
    <2>2. q[e] \in Dir
      BY <1>17
    <2>3. Alike(A, f, q)
      BY <1>17 DEF Alike
    <2> QED BY <1>16, <2>1, <2>2, <2>3, DirsMore
  <1>19. drefs' = up
    BY <1>2 DEF InsertPart, AcquireDir
  <1>20. drefs' \in [Dir -> Nat] /\ DirsCounted(drefs', C, q, B, g)
    BY <1>17, <1>18, <1>19 DEF MoreFor
  <1>21. PartTyped'
    <2>1. part' \in [Thread -> Part \cup {NULL}]
      BY <1>2, <1>3
    <2> QED BY <1>1, <1>15, <1>20, <2>1 DEF PartTyped, PhaseName
  <1>22. PartDir(plru') = q
    BY <1>13 DEF PartDir, q
  <1>23. DirsCounted(drefs', AllocIn(plru', victim'), PartDir(plru'), CountedIn(phase'), CallDir(key'))
    BY <1>13, <1>15, <1>20, <1>22 DEF C, B, g
  <1> QED BY <1>15, <1>21, <1>23 DEF OpenInv

\* Release(Partition) for thread t that goes on at label x when it deletes the partition.
Released(t, x, dr) ==
    /\ CacheFine(plru', pars', phase', part', victim')
    /\ pars' \in [Key -> Part \cup {NULL}] /\ phase' \in [Thread -> PhaseName]
    /\ part' \in [Thread -> Part \cup {NULL}] /\ victim' \in [Thread -> Part \cup {NULL}]
    /\ AllocIn(plru', victim') = AllocIn(plru, victim) /\ plru'.key = plru.key
    /\ \/ phase' = [phase EXCEPT ![t] = x] /\ drefs' = drefs
       \/ phase' = [phase EXCEPT ![t] = "idle"] /\ drefs' = dr

LEMMA ReleasedOk ==
    ASSUME OpenInv, NEW t \in Thread, phase[t] \in {"lokup", "held"}, NEW x \in {"drop", "free"},
           NEW dr, ReleasePart(t, part[t], x, "idle", dr), phase'[t] # "undefined"
    PROVE  Released(t, x, dr)
  <1>1. /\ PartTyped /\ Hold(part) \in Holders /\ PL!Good(plru, Hold(part))
        /\ TablesAgree(plru, pars) /\ VictimsOk(plru, victim) /\ CacheOff(plru)
        /\ EvictingOk(phase, part, plru) /\ PhasesOk(phase, part, victim)
        /\ plru.refs \in [Part -> Nat] /\ plru.key \in [Part -> Key]
    BY OpenFacts
  <1>t. /\ phase \in [Thread -> PhaseName] /\ pars \in [Key -> Part \cup {NULL}]
        /\ part \in [Thread -> Part \cup {NULL}] /\ victim \in [Thread -> Part \cup {NULL}]
        /\ DOMAIN part = Thread /\ DOMAIN phase = Thread
    BY <1>1 DEF PartTyped, PhaseName
  <1> DEFINE e == part[t]
             d == lru!Unref(plru, e)
             h == OneLess(Hold(part), e)
  <1>2. e \in Part /\ victim[t] = NULL
    <2>1. e # NULL /\ victim[t] = NULL
      BY <1>1 DEF PhasesOk
    <2> QED BY <1>t, <2>1
  <1>3. e \in handle
    BY <1>t DEF ReleasePart, Enter
  <1>4. /\ plru' = d /\ part' = [part EXCEPT ![t] = NULL]
        /\ IF d.refs[e] = 0
           THEN /\ pars' = [pars EXCEPT ![plru.key[e]] = NULL] /\ victim' = [victim EXCEPT ![t] = e]
                /\ phase' = [phase EXCEPT ![t] = x] /\ drefs' = drefs
           ELSE /\ drefs' = dr /\ phase' = [phase EXCEPT ![t] = "idle"]
                /\ pars' = pars /\ victim' = victim
    BY <1>3, Zenon DEF ReleasePart, Enter
  <1>5. Hold(part)[e] > 0
    BY <1>2, HoldFacts
  <1>6. /\ PL!Good(d, h) /\ d.key = plru.key /\ d.in_cache = plru.in_cache
        /\ d.refs = [plru.refs EXCEPT ![e] = @ - 1] /\ h \in Holders
    BY <1>1, <1>2, <1>5, UnrefPart DEF Stays
  <1>7. Hold(part') = h
    BY <1>t, <1>2, <1>4, HoldLess
  <1> HIDE DEF d, h
  <1>8. /\ part' \in [Thread -> Part \cup {NULL}] /\ part'[t] = NULL
        /\ \A u \in Thread \ {t} : part'[u] = part[u]
    BY <1>t, <1>4
  <1>9. d.refs \in [Part -> Nat] /\ plru.refs[e] > 0 /\ d.refs[e] = plru.refs[e] - 1
        /\ \A y \in Part \ {e} : d.refs[y] = plru.refs[y]
    <2>1. Seen(d, h) /\ Seen(plru, Hold(part))
      BY <1>1, <1>6, CacheSeen
    <2>2. d.refs \in [Part -> Nat]
      BY <2>1 DEF Seen
    <2>3. plru.refs[e] = Hold(part)[e] + (IF e \in plru.in_cache THEN 1 ELSE 0)
      BY <1>2, <2>1 DEF Seen
    <2>4. Hold(part)[e] \in Nat
      BY <1>1, <1>2 DEF Holders
    <2>5. plru.refs[e] > 0
      BY <1>5, <2>3, <2>4
    <2> QED BY <1>1, <1>2, <1>6, <2>2, <2>5
  <1>10. CacheOff(d)
    BY <1>1, <1>6 DEF CacheOff
  <1>11. CASE d.refs[e] = 0
    <2> DEFINE k == plru.key[e]
    <2>1. /\ pars' = [pars EXCEPT ![k] = NULL] /\ victim' = [victim EXCEPT ![t] = e]
          /\ phase' = [phase EXCEPT ![t] = x] /\ drefs' = drefs
      BY <1>4, <1>11
    <2>2. k \in Key /\ pars[k] = e
      BY <1>1, <1>2, <1>9 DEF TablesAgree
    <2>3. /\ pars' \in [Key -> Part \cup {NULL}] /\ pars'[k] = NULL
          /\ \A y \in Key \ {k} : pars'[y] = pars[y]
      BY <1>t, <2>1, <2>2
    <2>4. /\ victim' \in [Thread -> Part \cup {NULL}] /\ victim'[t] = e
          /\ \A u \in Thread \ {t} : victim'[u] = victim[u]
      BY <1>t, <1>2, <2>1
    <2>5. /\ phase' \in [Thread -> PhaseName] /\ phase'[t] = x
          /\ \A u \in Thread \ {t} : phase'[u] = phase[u]
      BY <1>t, <2>1 DEF PhaseName
    <2>6. TablesAgree(d, pars')
      <3>1. ASSUME NEW y \in Key, pars'[y] # NULL PROVE d.refs[pars'[y]] > 0 /\ d.key[pars'[y]] = y
        <4>1. y # k /\ pars'[y] = pars[y]
          BY <2>3, <3>1
        <4>2. pars[y] \in Part /\ plru.key[pars[y]] = y /\ plru.refs[pars[y]] > 0
          BY <1>1, <1>t, <3>1, <4>1 DEF TablesAgree
        <4>3. pars[y] # e
          BY <4>1, <4>2
        <4> QED BY <1>6, <1>9, <4>1, <4>2, <4>3
      <3>2. ASSUME NEW y \in Part, d.refs[y] > 0 PROVE pars'[d.key[y]] = y
        <4>1. y # e
          BY <1>11, <3>2
        <4>2. pars[plru.key[y]] = y /\ plru.key[y] \in Key
          BY <1>1, <1>9, <3>2, <4>1 DEF TablesAgree
        <4>3. plru.key[y] # k
          BY <2>2, <4>1, <4>2
        <4> QED BY <1>6, <2>3, <4>2, <4>3
      <3> QED BY <3>1, <3>2 DEF TablesAgree
    <2>7. ASSUME NEW u \in Thread \ {t}, victim[u] # NULL
          PROVE  victim[u] \in Part /\ victim[u] # e /\ d.refs[victim[u]] = 0
      <3>1. plru.refs[victim[u]] = 0 /\ victim[u] \in Part
        BY <1>1, <1>t, <2>7 DEF VictimsOk
      <3> QED BY <1>9, <3>1
    <2>8. VictimsOk(d, victim')
      <3>1. \A u \in Thread : victim'[u] # NULL => d.refs[victim'[u]] = 0
        BY <1>11, <2>4, <2>7
      <3>2. ASSUME NEW a \in Thread, NEW u \in Thread, victim'[a] # NULL, victim'[a] = victim'[u]
            PROVE  a = u
        <4>1. CASE a # t /\ u # t
          BY <1>1, <2>4, <3>2, <4>1 DEF VictimsOk
        <4>2. CASE a = t \/ u = t
          BY <2>4, <2>7, <3>2, <4>2
        <4> QED BY <4>1, <4>2
      <3> QED BY <3>1, <3>2 DEF VictimsOk
    <2>9. AllocIn(d, victim') = AllocIn(plru, victim)
      <3>1. ASSUME NEW y \in Part
            PROVE  (d.refs[y] > 0 \/ \E u \in Thread : victim'[u] = y)
                    <=> (plru.refs[y] > 0 \/ \E u \in Thread : victim[u] = y)
        <4>1. CASE y = e
          BY <1>9, <2>4, <4>1
        <4>2. CASE y # e
          BY <1>2, <1>9, <2>4, <4>2, PartFacts
        <4> QED BY <4>1, <4>2
      <3> QED BY <3>1 DEF AllocIn
    <2>10. EvictingOk(phase', part', d)
      BY <1>1, <1>6, <1>8, <2>5 DEF EvictingOk
    <2>11. PhasesOk(phase', part', victim')
      <3>1. e # NULL
        BY <1>2, PartFacts
      <3> HIDE DEF e
      <3> QED BY <1>1, <1>8, <2>4, <2>5, <3>1 DEF PhasesOk
    <2>12. CacheFine(plru', pars', phase', part', victim')
      BY <1>4, <1>6, <1>7, <1>10, <2>6, <2>8, <2>10, <2>11 DEF CacheFine
    <2> QED BY <1>4, <1>6, <1>8, <2>1, <2>3, <2>4, <2>5, <2>9, <2>12 DEF Released
  <1>12. CASE d.refs[e] # 0
    <2>1. drefs' = dr /\ phase' = [phase EXCEPT ![t] = "idle"] /\ pars' = pars /\ victim' = victim
      BY <1>4, <1>12
    <2>2. /\ phase' \in [Thread -> PhaseName] /\ phase'[t] = "idle"
          /\ \A u \in Thread \ {t} : phase'[u] = phase[u]
      BY <1>t, <2>1 DEF PhaseName
    <2>3. \A y \in Part : d.refs[y] > 0 <=> plru.refs[y] > 0
      BY <1>1, <1>2, <1>9, <1>12
    <2>4. TablesAgree(d, pars) /\ VictimsOk(d, victim) /\ AllocIn(d, victim) = AllocIn(plru, victim)
      BY <1>1, <1>t, <1>6, <1>9, <2>3, SameAlive
    <2>5. EvictingOk(phase', part', d)
      BY <1>1, <1>6, <1>8, <2>2 DEF EvictingOk
    <2>6. PhasesOk(phase', part', victim')
      BY <1>1, <1>2, <1>8, <2>1, <2>2 DEF PhasesOk
    <2>7. CacheFine(plru', pars', phase', part', victim')
      BY <1>4, <1>6, <1>7, <1>10, <2>1, <2>4, <2>5, <2>6 DEF CacheFine
    <2> QED BY <1>t, <1>4, <1>6, <1>8, <2>1, <2>2, <2>4, <2>7 DEF Released
  <1> QED BY <1>11, <1>12

\* The directories after Released, when the call gives its reference back with it.
LEMMA LokupFailedStep ==
    ASSUME OpenInv, NEW t \in Thread, LokupFailed(t), phase'[t] # "undefined"
    PROVE  OpenInv'
  <1> DEFINE dr == [drefs EXCEPT ![DirOf[key[t]]] = @ - 1]
             A == AllocIn(plru, victim)
             f == PartDir(plru)
  <1>1. /\ PartTyped
        /\ DirsCounted(drefs, A, f, CountedIn(phase), CallDir(key))
    BY OpenFacts
  <1>2. /\ phase[t] = "lokup" /\ ReleasePart(t, part[t], "drop", "idle", dr)
        /\ UNCHANGED <<key, lookups, closed>>
    BY DEF LokupFailed, ReleaseDir
  <1>3. Released(t, "drop", dr)
    <2>1. phase[t] \in {"lokup", "held"} /\ "drop" \in {"drop", "free"}
      BY <1>2
    <2> HIDE DEF dr
    <2> QED BY <1>2, <2>1, ReleasedOk
  <1>4. /\ drefs \in [Dir -> Nat] /\ key \in [Thread -> Key] /\ DOMAIN phase = Thread
        /\ phase[t] \in Counting /\ "idle" \notin Counting /\ "drop" \in Counting
    BY <1>1, <1>2 DEF PartTyped, Counting
  <1>5. IsFiniteSet(A)
    BY FiniteSets2
  <1> HIDE DEF A, f
  <1>6. dr \in [Dir -> Nat] /\ DirsCounted(dr, A, f, CountedIn([phase EXCEPT ![t] = "idle"]), CallDir(key))
    BY <1>1, <1>4, <1>5, CallGives
  <1>7. CountedIn([phase EXCEPT ![t] = "drop"]) = CountedIn(phase)
    BY <1>4, CountedStep
  <1>8. drefs' \in [Dir -> Nat] /\ DirsCounted(drefs', A, f, CountedIn(phase'), CallDir(key))
    <2> HIDE DEF dr
    <2>1. \/ phase' = [phase EXCEPT ![t] = "drop"] /\ drefs' = drefs
          \/ phase' = [phase EXCEPT ![t] = "idle"] /\ drefs' = dr
      BY <1>3 DEF Released
    <2> QED BY <1>1, <1>4, <1>6, <1>7, <2>1
  <1>9. AllocIn(plru', victim') = A /\ PartDir(plru') = f
    BY <1>3 DEF Released, A, f, PartDir
  <1>10. PartTyped'
    BY <1>1, <1>2, <1>3, <1>8 DEF PartTyped, Released, PhaseName
  <1>11. CacheFine(plru', pars', phase', part', victim')
    BY <1>3 DEF Released
  <1> QED BY <1>2, <1>8, <1>9, <1>10, <1>11 DEF OpenInv

LEMMA ReleaseLeaseStep ==
    ASSUME OpenInv, NEW t \in Thread, ReleaseLease(t), phase'[t] # "undefined"
    PROVE  OpenInv'
  <1> DEFINE A == AllocIn(plru, victim)
             f == PartDir(plru)
  <1>1. PartTyped /\ DirsCounted(drefs, A, f, CountedIn(phase), CallDir(key))
    BY OpenFacts
  <1>2. /\ phase[t] = "held" /\ ReleasePart(t, part[t], "free", "idle", drefs)
        /\ UNCHANGED <<key, lookups, closed>>
    BY DEF ReleaseLease
  <1>3. Released(t, "free", drefs)
    <2>1. phase[t] \in {"lokup", "held"} /\ "free" \in {"drop", "free"}
      BY <1>2
    <2> QED BY <1>2, <2>1, ReleasedOk
  <1>4. /\ DOMAIN phase = Thread
        /\ phase[t] \notin Counting /\ "idle" \notin Counting /\ "free" \notin Counting
    BY <1>1, <1>2 DEF PartTyped, Counting
  <1>5. /\ CountedIn([phase EXCEPT ![t] = "free"]) = CountedIn(phase)
        /\ CountedIn([phase EXCEPT ![t] = "idle"]) = CountedIn(phase)
    <2>1. ASSUME NEW x, x \notin Counting
          PROVE  CountedIn([phase EXCEPT ![t] = x]) = CountedIn(phase)
      BY <1>4, <2>1, CountedStep
    <2> QED BY <1>4, <2>1
  <1>6. drefs' = drefs /\ CountedIn(phase') = CountedIn(phase)
    BY <1>3, <1>5 DEF Released
  <1>7. AllocIn(plru', victim') = A /\ PartDir(plru') = f
    BY <1>3 DEF Released, PartDir
  <1>8. PartTyped'
    BY <1>1, <1>2, <1>3, <1>6 DEF PartTyped, Released, PhaseName
  <1>9. CacheFine(plru', pars', phase', part', victim')
    BY <1>3 DEF Released
  <1> HIDE DEF A, f
  <1> QED BY <1>1, <1>2, <1>6, <1>7, <1>8, <1>9 DEF OpenInv

LEMMA MoreLess ==
    ASSUME NEW h \in Holders, NEW e \in Part
    PROVE  OneMore(h, e)[e] > 0 /\ OneLess(OneMore(h, e), e) = h
  <1> DEFINE g == OneMore(h, e)
             b == OneLess(g, e)
  <1>1. /\ g \in [Part -> Nat] /\ g[e] = h[e] + 1 /\ h \in [Part -> Nat]
        /\ \A x \in Part \ {e} : g[x] = h[x]
    BY DEF OneMore, Holders
  <1> HIDE DEF g
  <1>2. /\ DOMAIN b = Part /\ b[e] = g[e] - 1 /\ b = [x \in Part |-> b[x]]
        /\ \A x \in Part \ {e} : b[x] = g[x]
    BY <1>1 DEF OneLess
  <1> HIDE DEF b
  <1>3. \A x \in Part : b[x] = h[x]
    BY <1>1, <1>2
  <1>4. b = h
    BY <1>1, <1>2, <1>3
  <1> QED BY <1>1, <1>4 DEF b, g

LEMMA LokupOkStep ==
    ASSUME OpenInv, NEW t \in Thread, LokupOk(t), phase'[t] # "undefined"
    PROVE  OpenInv'
  <1>1. /\ PartTyped /\ Hold(part) \in Holders /\ PL!Good(plru, Hold(part))
        /\ TablesAgree(plru, pars) /\ VictimsOk(plru, victim) /\ CacheOff(plru)
        /\ EvictingOk(phase, part, plru) /\ PhasesOk(phase, part, victim)
        /\ plru.refs \in [Part -> Nat] /\ plru.in_cache \in SUBSET Part
        /\ DirsCounted(drefs, AllocIn(plru, victim), PartDir(plru), CountedIn(phase), CallDir(key))
        /\ Seen(plru, Hold(part))
    BY OpenFacts
  <1>t. /\ DOMAIN phase = Thread /\ part \in [Thread -> Part \cup {NULL}]
        /\ drefs \in [Dir -> Nat] /\ key \in [Thread -> Key]
        /\ victim \in [Thread -> Part \cup {NULL}] /\ pars \in [Key -> Part \cup {NULL}]
    BY <1>1 DEF PartTyped
  <1> DEFINE e == part[t]
             h == Hold(part)
             a == lru!AddRef(plru, e)
             d == lru!Unref(a, e)
             dr == [drefs EXCEPT ![DirOf[key[t]]] = @ - 1]
             A == AllocIn(plru, victim)
             f == PartDir(plru)
  <1>2. phase[t] = "lokup" /\ UNCHANGED <<pars, handle, key, part, victim, lookups, closed>>
    BY DEF LokupOk
  <1>3. plru' = d /\ drefs' = dr /\ phase' = [phase EXCEPT ![t] = "held"]
    BY <1>t DEF LokupOk, Enter, ReleaseDir
  <1>4. e \in Part
    <2>1. e # NULL
      BY <1>1, <1>2 DEF PhasesOk
    <2> QED BY <1>t, <2>1
  <1>5. h[e] > 0 /\ h \in [Part -> Nat] /\ h \in Holders
    BY <1>1, <1>4, HoldFacts DEF Holders
  <1> HIDE DEF h
  <1>6. plru.refs[e] > 0
    <2>1. plru.refs[e] = h[e] + (IF e \in plru.in_cache THEN 1 ELSE 0)
      BY <1>1, <1>4 DEF Seen, h
    <2> QED BY <1>4, <1>5, <2>1
  <1>7. /\ PL!Good(a, OneMore(h, e)) /\ a.key = plru.key /\ a.in_cache = plru.in_cache
        /\ OneMore(h, e) \in Holders /\ a.refs = [plru.refs EXCEPT ![e] = @ + 1]
    <2>1. PL!Good(plru, h)
      BY <1>1 DEF h
    <2> QED BY <1>4, <1>5, <1>6, <2>1, RefPart DEF Stays
  <1>8. OneMore(h, e)[e] > 0 /\ OneLess(OneMore(h, e), e) = h
    BY <1>4, <1>5, MoreLess
  <1> HIDE DEF a
  <1>9. /\ PL!Good(d, h) /\ d.key = plru.key /\ d.in_cache = plru.in_cache
        /\ d.refs = [a.refs EXCEPT ![e] = @ - 1]
    <2> DEFINE g == OneMore(h, e)
    <2> HIDE DEF g
    <2>1. PL!Good(a, g) /\ g \in Holders /\ g[e] > 0
      BY <1>7, <1>8 DEF g
    <2>2. PL!Good(d, OneLess(g, e)) /\ Stays(a, d) /\ d.refs = [a.refs EXCEPT ![e] = @ - 1]
      BY <1>4, <2>1, UnrefPart
    <2>3. OneLess(g, e) = h
      BY <1>8 DEF g
    <2> HIDE DEF d
    <2> QED BY <1>7, <2>2, <2>3 DEF Stays
  <1> HIDE DEF d
  <1>10. d.refs = plru.refs
    BY <1>1, <1>4, <1>7, <1>9
  <1>11. TablesAgree(d, pars) /\ VictimsOk(d, victim) /\ CacheOff(d) /\ AllocIn(d, victim) = A
    BY <1>1, <1>9, <1>10 DEF TablesAgree, VictimsOk, CacheOff, AllocIn
  <1>12. phase'[t] = "held" /\ \A u \in Thread \ {t} : phase'[u] = phase[u]
    BY <1>t, <1>3
  <1>13. EvictingOk(phase', part, d) /\ PhasesOk(phase', part, victim)
    BY <1>1, <1>2, <1>9, <1>12 DEF EvictingOk, PhasesOk
  <1>14. CacheFine(plru', pars', phase', part', victim')
    BY <1>2, <1>3, <1>9, <1>11, <1>13 DEF CacheFine, h
  <1>15. phase[t] \in Counting /\ "held" \notin Counting /\ IsFiniteSet(A)
    BY <1>2, FiniteSets2 DEF Counting
  <1>16. DirsCounted(drefs, A, f, CountedIn(phase), CallDir(key))
    BY <1>1
  <1>17. PartDir(d) = f
    BY <1>9 DEF PartDir
  <1> HIDE DEF A, f
  <1>18. dr \in [Dir -> Nat] /\ DirsCounted(dr, A, f, CountedIn([phase EXCEPT ![t] = "held"]), CallDir(key))
    BY <1>t, <1>15, <1>16, CallGives
  <1> HIDE DEF dr
  <1>19. DirsCounted(drefs', AllocIn(plru', victim'), PartDir(plru'), CountedIn(phase'), CallDir(key'))
    BY <1>2, <1>3, <1>11, <1>17, <1>18
  <1>20. PartTyped'
    BY <1>1, <1>2, <1>3, <1>18 DEF PartTyped
  <1> QED BY <1>14, <1>19, <1>20 DEF OpenInv

LEMMA FreedStep ==
    ASSUME OpenInv, NEW t \in Thread, Freed(t)
    PROVE  OpenInv'
  <1> DEFINE v == victim[t]
             w == [victim EXCEPT ![t] = NULL]
             A == AllocIn(plru, victim)
             f == PartDir(plru)
             B == CountedIn(phase)
             down == [drefs EXCEPT ![f[v]] = @ - 1]
             both == [down EXCEPT ![DirOf[key[t]]] = @ - 1]
  <1>1. /\ PartTyped /\ PL!Good(plru, Hold(part))
        /\ TablesAgree(plru, pars) /\ VictimsOk(plru, victim) /\ CacheOff(plru)
        /\ EvictingOk(phase, part, plru) /\ PhasesOk(phase, part, victim)
        /\ plru.refs \in [Part -> Nat] /\ plru.key \in [Part -> Key]
        /\ DirsCounted(drefs, A, f, B, CallDir(key))
    BY OpenFacts
  <1>2. /\ phase[t] \in {"drop", "free"} /\ victim' = w /\ phase' = [phase EXCEPT ![t] = "idle"]
        /\ UNCHANGED <<plru, pars, handle, key, part, lookups, closed>>
    BY DEF Freed, Enter
  <1>3. /\ v \in Part /\ plru.refs[v] = 0 /\ phase \in [Thread -> PhaseName]
        /\ victim \in [Thread -> Part \cup {NULL}] /\ drefs \in [Dir -> Nat]
        /\ key \in [Thread -> Key]
    BY <1>1, <1>2 DEF PhasesOk, PartTyped, PhaseName, VictimsOk
  <1>4. w \in [Thread -> Part \cup {NULL}] /\ w[t] = NULL /\ \A u \in Thread \ {t} : w[u] = victim[u]
    BY <1>3
  <1>5. AllocIn(plru, w) = A \ {v} /\ v \in A
    <2>1. ASSUME NEW x \in Part
          PROVE  (plru.refs[x] > 0 \/ \E u \in Thread : w[u] = x)
                  <=> (x # v /\ (plru.refs[x] > 0 \/ \E u \in Thread : victim[u] = x))
      <3>2. CASE x = v
        <4>1. \A u \in Thread \ {t} : victim[u] # v
          BY <1>1, <1>3, PartFacts DEF VictimsOk
        <4> QED BY <1>3, <1>4, <3>2, <4>1, PartFacts
      <3>3. CASE x # v
        BY <1>4, <3>3, PartFacts
      <3> QED BY <3>2, <3>3
    <2>2. AllocIn(plru, w) = A \ {v}
      BY <2>1 DEF AllocIn
    <2>3. v \in A
      BY <1>3 DEF AllocIn
    <2> QED BY <2>2, <2>3
  <1>6. f[v] \in Dir /\ f[v] = DirOf[plru.key[v]]
    BY <1>1, <1>3, PartFacts DEF PartDir
  <1>7. drefs' = IF phase[t] = "drop" THEN both ELSE down
    BY <1>6 DEF Freed, ReleaseDir, ReleaseDirOf
  <1>8. IsFiniteSet(A) /\ IsFiniteSet(B) /\ IsFiniteSet(A \ {v})
    BY FiniteSets2, FS_RemoveElement
  <1>9. VictimsOk(plru, w)
    BY <1>1, <1>4 DEF VictimsOk
  <1>10. phase'[t] = "idle" /\ \A u \in Thread \ {t} : phase'[u] = phase[u]
    BY <1>2, <1>3
  <1>11. EvictingOk(phase', part, plru) /\ PhasesOk(phase', part, w)
    BY <1>1, <1>2, <1>4, <1>10 DEF EvictingOk, PhasesOk
  <1> HIDE DEF w
  <1>12. CacheFine(plru', pars', phase', part', victim')
    BY <1>1, <1>2, <1>9, <1>11 DEF CacheFine
  <1> HIDE DEF A, B, v, f
  <1>13. down \in [Dir -> Nat] /\ DirsCounted(down, A \ {v}, f, B, CallDir(key))
    BY <1>1, <1>3, <1>5, <1>6, <1>8, DirsLess
  <1> HIDE DEF down
  <1>14. drefs' \in [Dir -> Nat] /\ DirsCounted(drefs', A \ {v}, f, CountedIn(phase'), CallDir(key))
    <2>1. DOMAIN phase = Thread /\ "idle" \notin Counting
      BY <1>3 DEF Counting
    <2>2. CASE phase[t] = "drop"
      <3>1. phase[t] \in Counting /\ drefs' = both
        BY <1>7, <2>2 DEF Counting
      <3> DEFINE S == A \ {v}
      <3>2. IsFiniteSet(S) /\ DirsCounted(down, S, f, CountedIn(phase), CallDir(key))
        BY <1>8, <1>13 DEF B
      <3> HIDE DEF S
      <3>3. both \in [Dir -> Nat]
            /\ DirsCounted(both, S, f, CountedIn([phase EXCEPT ![t] = "idle"]), CallDir(key))
        BY <1>3, <1>13, <2>1, <3>1, <3>2, CallGives
      <3> HIDE DEF both
      <3> QED BY <1>2, <3>1, <3>3 DEF S
    <2>3. CASE phase[t] # "drop"
      <3>1. phase[t] \notin Counting /\ drefs' = down
        BY <1>2, <1>7, <2>3 DEF Counting
      <3>2. CountedIn(phase') = B
        BY <1>2, <2>1, <3>1, CountedStep DEF B
      <3> QED BY <1>13, <3>1, <3>2
    <2> QED BY <2>2, <2>3
  <1>15. PartTyped'
    BY <1>1, <1>2, <1>4, <1>14 DEF PartTyped
  <1>16. DirsCounted(drefs', AllocIn(plru', victim'), PartDir(plru'), CountedIn(phase'), CallDir(key'))
    BY <1>2, <1>5, <1>14 DEF f
  <1> QED BY <1>12, <1>15, <1>16 DEF OpenInv

LEMMA AcquirePartitionStep ==
    ASSUME OpenInv, NEW t \in Thread, AcquirePartition(t), phase'[t] # "undefined"
    PROVE  OpenInv'
  <1> DEFINE k == key[t]
  <1>1. /\ PartTyped /\ Hold(part) \in Holders /\ Seen(plru, Hold(part)) /\ TablesAgree(plru, pars)
    BY OpenFacts
  <1>2. /\ phase[t] = "fetch" /\ UNCHANGED <<key, lookups, closed>>
        /\ IF plru.table[k] # NULL THEN Reference(t, plru.table[k])
           ELSE IF pars[k] # NULL THEN Reference(t, pars[k]) ELSE AcquireNew(t)
    BY DEF AcquirePartition
  <1>3. k \in Key /\ pars \in [Key -> Part \cup {NULL}] /\ Hold(part) \in [Part -> Nat]
    BY <1>1 DEF PartTyped, Holders
  <1>4. CASE plru.table[k] # NULL
    <2> DEFINE e == plru.table[k]
    <2>1. e \in Part /\ e \in plru.in_cache
      BY <1>1, <1>3, <1>4 DEF Seen
    <2>2. plru.refs[e] = Hold(part)[e] + 1
      BY <1>1, <2>1 DEF Seen
    <2>3. plru.refs[e] > 0
      BY <1>3, <2>1, <2>2
    <2>4. Reference(t, e)
      BY <1>2, <1>4
    <2> HIDE DEF e
    <2> QED BY <1>2, <2>1, <2>3, <2>4, ReferenceStep
  <1>5. CASE plru.table[k] = NULL /\ pars[k] # NULL
    <2>1. pars[k] \in Part /\ plru.refs[pars[k]] > 0 /\ Reference(t, pars[k])
      BY <1>1, <1>2, <1>3, <1>5 DEF TablesAgree
    <2> QED BY <1>2, <2>1, ReferenceStep
  <1>6. CASE plru.table[k] = NULL /\ pars[k] = NULL
    BY <1>2, <1>6, AcquireNewStep
  <1> QED BY <1>4, <1>5, <1>6

\* What is undefined stays so: an action moves a thread that is not.
LEMMA PhaseMoves ==
    ASSUME phase \in [Thread -> PhaseName], PartNext
    PROVE  /\ phase' \in [Thread -> PhaseName]
           /\ \A u \in Thread : phase[u] = "undefined" => phase'[u] = "undefined"
  <1>1. \/ phase' = phase
        \/ \E t \in Thread : \E x \in PhaseName :
              phase[t] # "undefined" /\ phase' = [phase EXCEPT ![t] = x]
    <2>1. ASSUME NEW t \in Thread, NEW k \in Key, Lokup(t, k)
          PROVE  phase[t] # "undefined" /\ phase' = [phase EXCEPT ![t] = "fetch"]
      BY <2>1 DEF Lokup, Enter
    <2>2. ASSUME NEW t \in Thread, NEW c, NEW e, NEW T, NEW dr, InsertPart(t, c, e, T, dr)
          PROVE  \E x \in PhaseName : phase' = [phase EXCEPT ![t] = x]
      BY <2>2, Zenon DEF InsertPart, Enter, PhaseName
    <2>3. ASSUME NEW t \in Thread, AcquirePartition(t)
          PROVE  phase[t] # "undefined" /\ \E x \in PhaseName : phase' = [phase EXCEPT ![t] = x]
      <3>1. phase[t] # "undefined"
        BY <2>3 DEF AcquirePartition
      <3>2. (\E e : Reference(t, e)) \/ AcquireNew(t)
        BY <2>3, Zenon DEF AcquirePartition
      <3>3. ASSUME NEW e, Reference(t, e) PROVE \E x \in PhaseName : phase' = [phase EXCEPT ![t] = x]
        BY <3>3, Zenon DEF Reference, Enter, PhaseName
      <3>4. ASSUME AcquireNew(t) PROVE \E x \in PhaseName : phase' = [phase EXCEPT ![t] = x]
        <4>1. \E c, e, T, dr : InsertPart(t, c, e, T, dr)
          BY <3>4, Zenon DEF AcquireNew
        <4> QED BY <2>2, <4>1
      <3> QED BY <3>1, <3>2, <3>3, <3>4
    <2>4. ASSUME NEW t \in Thread, Evicted(t)
          PROVE  phase[t] # "undefined" /\ \E x \in PhaseName : phase' = [phase EXCEPT ![t] = x]
      <3>1. phase[t] # "undefined"
        BY <2>4 DEF Evicted
      <3>2. \E c, e, T, dr : InsertPart(t, c, e, T, dr)
        BY <2>4, Zenon DEF Evicted
      <3> QED BY <2>2, <3>1, <3>2
    <2>5. ASSUME NEW t \in Thread, LokupOk(t) \/ LokupFailed(t) \/ ReleaseLease(t) \/ Freed(t)
          PROVE  phase[t] # "undefined" /\ \E x \in PhaseName : phase' = [phase EXCEPT ![t] = x]
      <3>1. phase[t] # "undefined"
        BY <2>5 DEF LokupOk, LokupFailed, ReleaseLease, Freed
      <3>2. ASSUME NEW e, NEW a \in PhaseName, NEW dr, ReleasePart(t, e, a, "idle", dr)
            PROVE  \E x \in PhaseName : phase' = [phase EXCEPT ![t] = x]
        BY <3>2, Zenon DEF ReleasePart, Enter, PhaseName
      <3>3. (LokupFailed(t) \/ ReleaseLease(t)) =>
                \E e, dr : \E a \in PhaseName : ReleasePart(t, e, a, "idle", dr)
        BY Zenon DEF LokupFailed, ReleaseLease, PhaseName
      <3>4. (LokupOk(t) \/ Freed(t)) => \E x \in PhaseName : phase' = [phase EXCEPT ![t] = x]
        BY Zenon DEF LokupOk, Freed, Enter, PhaseName
      <3> QED BY <2>5, <3>1, <3>2, <3>3, <3>4
    <2>6. "fetch" \in PhaseName
      BY DEF PhaseName
    <2>7. Close => phase' = phase
      BY DEF Close
    <2> QED BY <2>1, <2>3, <2>4, <2>5, <2>6, <2>7 DEF PartNext
  <1>2. CASE phase' = phase
    BY <1>2
  <1>3. CASE \E t \in Thread : \E x \in PhaseName :
                phase[t] # "undefined" /\ phase' = [phase EXCEPT ![t] = x]
    <2>1. PICK t \in Thread, x \in PhaseName : phase[t] # "undefined" /\ phase' = [phase EXCEPT ![t] = x]
      BY <1>3
    <2> QED BY <2>1
  <1> QED BY <1>1, <1>2, <1>3

\* What the invariant says of the references.
LEMMA OpenSafe ==
    ASSUME OpenInv, ~closed
    PROVE  OnePartitionPerKey /\ RefsExact
  <1>1. /\ PartTyped /\ Seen(plru, Hold(part)) /\ TablesAgree(plru, pars)
        /\ DirsCounted(drefs, AllocIn(plru, victim), PartDir(plru), CountedIn(phase), CallDir(key))
    BY OpenFacts
  <1>2. OnePartitionPerKey
    BY <1>1 DEF OnePartitionPerKey, TablesAgree
  <1>3. ASSUME NEW e \in Part
        PROVE  plru.refs[e] = Cardinality({t \in Thread : part[t] = e})
                              + (IF e \in plru.in_cache THEN 1 ELSE 0)
    <2>1. Hold(part)[e] = Cardinality({t \in Thread : part[t] = e})
      BY HoldFacts DEF Users
    <2> QED BY <1>1, <2>1 DEF Seen
  <1>4. ASSUME NEW d \in Dir
        PROVE  drefs[d] = Cardinality({e \in Allocated : DirOf[plru.key[e]] = d})
                          + IF closed THEN 0
                            ELSE Cardinality({t \in Thread : DirOf[key[t]] = d
                                      /\ phase[t] \in {"fetch", "evict", "lokup", "drop"}})
    <2>1. drefs[d] = Tally(AllocIn(plru, victim), PartDir(plru), d)
                     + Tally(CountedIn(phase), CallDir(key), d)
      BY <1>1 DEF DirsCounted
    <2>2. {e \in AllocIn(plru, victim) : PartDir(plru)[e] = d}
             = {e \in Allocated : DirOf[plru.key[e]] = d}
      <3>1. AllocIn(plru, victim) = Allocated /\ Allocated \subseteq Part
        BY DEF AllocIn, Allocated
      <3>2. \A e \in Part : PartDir(plru)[e] = DirOf[plru.key[e]]
        BY DEF PartDir
      <3> QED BY <3>1, <3>2
    <2>3. {t \in CountedIn(phase) : CallDir(key)[t] = d}
             = {t \in Thread : DirOf[key[t]] = d /\ phase[t] \in {"fetch", "evict", "lokup", "drop"}}
      <3>1. \A t \in Thread : CallDir(key)[t] = DirOf[key[t]]
        BY DEF CallDir
      <3> QED BY <3>1 DEF CountedIn, Counting
    <2> QED BY <2>1, <2>2, <2>3 DEF Tally
  <1> QED BY <1>2, <1>3, <1>4 DEF RefsExact

LEMMA CloseStep ==
    ASSUME OpenInv, Close
    PROVE  ClosedInv'
  <1>1. /\ PartTyped /\ Hold(part) \in Holders /\ PL!Good(plru, Hold(part))
        /\ Seen(plru, Hold(part)) /\ PhasesOk(phase, part, victim)
        /\ plru.refs \in [Part -> Nat] /\ plru.in_cache \in SUBSET Part
        /\ DirsCounted(drefs, AllocIn(plru, victim), PartDir(plru), CountedIn(phase), CallDir(key))
    BY OpenFacts
  <1> DEFINE idle == {plru.lru[i] : i \in DOMAIN plru.lru}
             R == [e \in Part |-> IF e \in idle THEN 0 ELSE plru.refs[e]]
  <1>2. /\ \A t \in Thread : phase[t] = "idle"
        /\ closed' = TRUE /\ UNCHANGED <<handle, phase, key, part, victim, lookups>>
        /\ plru' = [plru EXCEPT !.refs = R, !.in_cache = plru.in_cache \ idle, !.lru = <<>>]
        /\ drefs' = [d \in Dir |-> drefs[d] - Cardinality({e \in idle : DirOf[plru.key[e]] = d})]
    BY DEF Close
  <1>3. plru'.refs = R /\ plru'.in_cache = plru.in_cache \ idle /\ plru'.key = plru.key
    <2>1. plru \in PL!IntState
      BY <1>1, Zenon DEF PL!Good
    <2> HIDE DEF R, idle
    <2> QED BY <1>2, <2>1 DEF PL!IntState
  <1>4. \A t \in Thread : part[t] = NULL /\ victim[t] = NULL
    BY <1>1, <1>2 DEF PhasesOk
  <1>5. \A e \in Part : {t \in Thread : part[t] = e} = {} /\ {t \in Thread : victim[t] = e} = {}
    BY <1>4, PartFacts
  <1>6. \A e \in Part : Hold(part)[e] = 0 /\ Cardinality({t \in Thread : part[t] = e}) = 0
    BY <1>5, HoldFacts, FS_EmptySet DEF Users
  <1>7. idle = plru.in_cache
    BY <1>1, <1>6 DEF Seen
  <1>8. \A e \in Part : plru.refs[e] = IF e \in plru.in_cache THEN 1 ELSE 0
    <2>1. \A e \in Part : plru.refs[e] = Hold(part)[e] + (IF e \in plru.in_cache THEN 1 ELSE 0)
      BY <1>1 DEF Seen
    <2>2. ASSUME NEW e \in Part PROVE plru.refs[e] = IF e \in plru.in_cache THEN 1 ELSE 0
      <3>1. plru.refs[e] = 0 + (IF e \in plru.in_cache THEN 1 ELSE 0)
        BY <1>6, <2>1
      <3> QED BY <3>1
    <2> QED BY <2>2
  <1>9. AllocIn(plru, victim) = idle
    BY <1>1, <1>5, <1>7, <1>8 DEF AllocIn
  <1>10. CountedIn(phase) = {}
    BY <1>2 DEF CountedIn, Counting
  <1>11. ASSUME NEW d \in Dir PROVE drefs'[d] = 0
    <2> DEFINE U == {e \in idle : DirOf[plru.key[e]] = d}
    <2>1. {e \in idle : PartDir(plru)[e] = d} = U
      BY <1>1, <1>7 DEF PartDir
    <2>2. Tally(idle, PartDir(plru), d) = Cardinality(U)
      BY <2>1 DEF Tally
    <2>3. Tally({}, CallDir(key), d) = 0
      <3>1. {x \in {} : CallDir(key)[x] = d} = {}
        OBVIOUS
      <3> QED BY <3>1, FS_EmptySet DEF Tally
    <2>4. drefs[d] = Cardinality(U) + 0
      BY <1>1, <1>9, <1>10, <2>2, <2>3 DEF DirsCounted
    <2>5. drefs[d] \in Nat
      BY <1>1 DEF PartTyped
    <2>6. drefs'[d] = drefs[d] - Cardinality(U)
      BY <1>2
    <2>7. Cardinality(U) \in Nat
      <3>1. U \subseteq Part
        BY <1>1, <1>7
      <3>2. IsFiniteSet(U)
        BY <3>1, FS_Subset, PartFacts
      <3> QED BY <3>2, FS_CardinalityType
    <2> HIDE DEF U
    <2> QED BY <2>4, <2>5, <2>6, <2>7
  <1> HIDE DEF idle
  <1>12. \A e \in Part : plru'.refs[e] = 0 /\ e \notin plru'.in_cache
    BY <1>3, <1>7, <1>8
  <1>13. OnePartitionPerKey'
    BY <1>12 DEF OnePartitionPerKey
  <1>14. {e \in Part : plru'.refs[e] > 0 \/ \E t \in Thread : victim'[t] = e} = {}
    BY <1>2, <1>4, <1>12, PartFacts
  <1>15. RefsExact'
    <2>1. ASSUME NEW e \in Part
          PROVE  plru'.refs[e] = Cardinality({t \in Thread : part'[t] = e})
                                 + (IF e \in plru'.in_cache THEN 1 ELSE 0)
      <3>1. Cardinality({t \in Thread : part'[t] = e}) = 0
        BY <1>2, <1>6
      <3> QED BY <1>12, <3>1
    <2>2. ASSUME NEW d \in Dir
          PROVE  drefs'[d] = Cardinality({e \in Allocated' : DirOf[plru'.key[e]] = d}) + 0
      <3>1. Allocated' = {}
        BY <1>14 DEF Allocated
      <3>2. {e \in Allocated' : DirOf[plru'.key[e]] = d} = {}
        BY <3>1
      <3>3. Cardinality({}) = 0
        BY FS_EmptySet
      <3> QED BY <1>11, <3>2, <3>3
    <2>3. \A d \in Dir : drefs'[d] =
             Cardinality({e \in Allocated' : DirOf[plru'.key[e]] = d})
             + IF closed' THEN 0
               ELSE Cardinality({t \in Thread : DirOf[key'[t]] = d
                                     /\ phase'[t] \in {"fetch", "evict", "lokup", "drop"}})
      BY <1>2, <2>2
    <2> QED BY <2>1, <2>3 DEF RefsExact
  <1>16. \A t \in Thread : phase'[t] = "idle"
    BY <1>2
  <1> QED BY <1>13, <1>15, <1>16 DEF ClosedInv

LEMMA PartStart == PartInit => PartInv
  <1> SUFFICES ASSUME PartInit PROVE PartInv
    OBVIOUS
  <1> DEFINE none == [e \in Part |-> 0]
  <1>0. \A t \in Thread : part[t] = NULL /\ victim[t] = NULL /\ phase[t] = "idle"
    BY DEF PartInit
  <1>1. PL!Init
    BY DEF PartInit, PL!Init
  <1>2. PL!Good(plru, none)
    <2>1. PL!InvOf(plru, none, ~closed)
      BY <1>1, PL!InitOk, PartCacheAssumption DEF PL!CacheInv
    <2>2. (~closed) = TRUE
      BY DEF PartInit
    <2> QED BY <2>1, <2>2, PL!OpenGood, PartCacheAssumption
  <1>3. \A e \in Part : {t \in Thread : part[t] = e} = {} /\ ~\E t \in Thread : victim[t] = e
    BY <1>0, PartFacts
  <1>4. Hold(part) = none
    BY <1>3, FS_EmptySet DEF Hold, Users
  <1>5. PartTyped /\ phase \in [Thread -> PhaseName]
    <2>1. (CHOOSE k \in Key : TRUE) \in Key
      BY PartFacts
    <2> DEFINE k0 == CHOOSE k \in Key : TRUE
    <2>2. key = [t \in Thread |-> k0]
      BY DEF PartInit
    <2> HIDE DEF k0
    <2>3. key \in [Thread -> Key]
      BY <2>1, <2>2 DEF k0
    <2>4. /\ pars = [k \in Key |-> NULL] /\ drefs = [d \in Dir |-> 0]
          /\ phase = [t \in Thread |-> "idle"] /\ part = [t \in Thread |-> NULL]
          /\ victim = [t \in Thread |-> NULL]
      BY DEF PartInit
    <2> QED BY <2>3, <2>4 DEF PartTyped, PhaseName
  <1>6. plru.refs = none /\ plru.in_cache = {} /\ pars = [k \in Key |-> NULL] /\ ~closed
    BY DEF PartInit
  <1>7. TablesAgree(plru, pars)
    BY <1>6 DEF TablesAgree
  <1>8. VictimsOk(plru, victim) /\ EvictingOk(phase, part, plru) /\ PhasesOk(phase, part, victim)
    BY <1>0 DEF VictimsOk, EvictingOk, PhasesOk
  <1>9. CacheOff(plru)
    BY <1>6 DEF CacheOff
  <1>10. CacheFine(plru, pars, phase, part, victim)
    BY <1>2, <1>4, <1>7, <1>8, <1>9 DEF CacheFine
  <1>11. AllocIn(plru, victim) = {} /\ CountedIn(phase) = {}
    <2>1. \A e \in Part : ~(plru.refs[e] > 0)
      BY <1>6
    <2> QED BY <1>0, <1>3, <2>1 DEF AllocIn, CountedIn, Counting
  <1>12. \A f, d : Tally({}, f, d) = 0
    <2>1. \A f, d : {x \in {} : f[x] = d} = {}
      OBVIOUS
    <2> QED BY <2>1, FS_EmptySet DEF Tally
  <1>13. DirsCounted(drefs, AllocIn(plru, victim), PartDir(plru), CountedIn(phase), CallDir(key))
    <2>1. \A d \in Dir : drefs[d] = 0
      BY DEF PartInit
    <2> QED BY <1>11, <1>12, <2>1 DEF DirsCounted
  <1> QED BY <1>5, <1>6, <1>10, <1>13 DEF PartInv, OpenInv

LEMMA PartRest == ASSUME PartInv, UNCHANGED partVars PROVE PartInv'
  <1>1. /\ HandleSet' = HandleSet /\ closed' = closed /\ phase' = phase
    BY DEF partVars, HandleSet
  <1>2. ClosedInv => ClosedInv'
    BY DEF partVars, ClosedInv, OnePartitionPerKey, RefsExact, HandleSet, Allocated
  <1>3. OpenInv => OpenInv'
    BY DEF partVars, OpenInv, PartTyped
  <1> QED BY <1>1, <1>2, <1>3 DEF PartInv

LEMMA PartStep == PartInv /\ [PartNext]_partVars => PartInv'
  <1> SUFFICES ASSUME PartInv, [PartNext]_partVars PROVE PartInv'
    OBVIOUS
  <1>1. CASE UNCHANGED partVars
    BY <1>1, PartRest
  <1>2. CASE PartNext
    <2>1. phase' \in [Thread -> PhaseName] /\ (HandleSet' => HandleSet)
      <3>1. phase \in [Thread -> PhaseName]
        BY DEF PartInv
      <3> QED BY <1>2, <3>1, PhaseMoves DEF HandleSet
    <2> SUFFICES ASSUME HandleSet' PROVE IF closed' THEN ClosedInv' ELSE OpenInv'
      BY <2>1 DEF PartInv
    <2>2. \A t \in Thread : phase'[t] # "undefined"
      BY DEF HandleSet
    <2>3. CASE closed
      <3>1. \A t \in Thread : phase[t] = "idle"
        BY <2>1, <2>3 DEF PartInv, ClosedInv
      <3>2. ASSUME NEW t \in Thread
            PROVE  /\ ~AcquirePartition(t) /\ ~Evicted(t) /\ ~LokupOk(t) /\ ~LokupFailed(t)
                   /\ ~ReleaseLease(t) /\ ~Freed(t) /\ \A k \in Key : ~Lokup(t, k)
        BY <2>3, <3>1 DEF AcquirePartition, Evicted, LokupOk, LokupFailed, ReleaseLease, Freed, Lokup
      <3>3. ~Close
        BY <2>3 DEF Close
      <3> QED BY <1>2, <3>2, <3>3 DEF PartNext
    <2>4. CASE ~closed
      <3>1. OpenInv
        BY <2>1, <2>4 DEF PartInv
      <3>2. CASE Close
        <4>1. closed'
          BY <3>2 DEF Close
        <4> QED BY <3>1, <3>2, <4>1, CloseStep
      <3>3. ASSUME NEW t \in Thread,
                   \/ \E k \in Key : Lokup(t, k)
                   \/ AcquirePartition(t) \/ Evicted(t)
                   \/ LokupOk(t) \/ LokupFailed(t) \/ ReleaseLease(t) \/ Freed(t)
            PROVE  ~closed' /\ OpenInv'
        <4>1. closed' = closed
          BY <3>3 DEF AcquirePartition, Evicted, LokupOk, LokupFailed, ReleaseLease, Freed, Lokup
        <4>2. OpenInv'
          BY <2>2, <3>1, <3>3, LokupCallStep, AcquirePartitionStep, EvictedStep, LokupOkStep,
             LokupFailedStep, ReleaseLeaseStep, FreedStep
        <4> QED BY <2>4, <4>1, <4>2
      <3> QED BY <1>2, <3>2, <3>3 DEF PartNext
    <2> QED BY <2>3, <2>4
  <1> QED BY <1>1, <1>2

LEMMA PartSafe == PartInv => OnePartitionPerKey /\ RefsExact
  <1> SUFFICES ASSUME PartInv PROVE OnePartitionPerKey /\ RefsExact
    OBVIOUS
  <1>1. CASE ~HandleSet
    BY <1>1 DEF OnePartitionPerKey, RefsExact
  <1>2. CASE HandleSet /\ closed
    BY <1>2 DEF PartInv, ClosedInv
  <1>3. CASE HandleSet /\ ~closed
    BY <1>3, OpenSafe DEF PartInv
  <1> QED BY <1>1, <1>2, <1>3

LEMMA PartAlways == PartSpec => []PartInv
  BY PartStart, PartStep, PTL DEF PartSpec

\* No two partitions are ever in memory for one key, whatever is evicted while a
\* thread is between the two halves of AcquirePartition (fscli.cc:1470-1490).
THEOREM OnePartitionPerKeyTheorem == PartSpec => []OnePartitionPerKey
  BY PartAlways, PartSafe, PTL

\* Every partition and every directory has exactly the references that the calls, the
\* leases, the cache and the partitions in memory account for, so none is freed early
\* and none leaks, up to and including the end of the client (fscli.cc:1358-1371,
\* 1431-1460).
THEOREM RefsExactTheorem == PartSpec => []RefsExact
  BY PartAlways, PartSafe, PTL
-----------------------------------------------------------------------------
(***************************************************************************)
(* The directory index: HashToIndex leads to the partition that owns a     *)
(* name.                                                                   *)
(***************************************************************************)
LEMMA Quotient ==
    ASSUME NEW a \in Nat, NEW z \in Nat \ {0}
    PROVE  /\ a \div z \in Nat /\ a % z \in 0 .. z - 1
           /\ a = (a \div z) * z + (a % z)
  <1>1. a % z \in 0 .. z - 1
    OBVIOUS
  <1>2. a \div z \in Int /\ a = (a \div z) * z + (a % z)
    OBVIOUS
  <1>3. a \div z \in Nat
    OBVIOUS
  <1> QED BY <1>1, <1>2, <1>3

LEMMA SameRemainder ==
    ASSUME NEW k \in Int, NEW j \in Int, NEW z \in Nat \ {0},
           NEW r \in 0 .. z - 1, NEW x \in 0 .. z - 1, k * z + r = j * z + x
    PROVE  r = x
  OBVIOUS

LEMMA Remainder ==
    ASSUME NEW a \in Nat, NEW z \in Nat \ {0}, NEW k \in Nat, NEW r \in 0 .. z - 1,
           a = k * z + r
    PROVE  a % z = r
  <1> DEFINE j == a \div z
             x == a % z
  <1>1. j \in Nat /\ x \in 0 .. z - 1 /\ a = j * z + x
    BY Quotient
  <1> HIDE DEF j, x
  <1>2. r = x
    BY <1>1, SameRemainder
  <1> QED BY <1>2 DEF x

\* Fewer bits of a hash make a smaller index, and the same if the rest are zero.
LEMMA FewerBits ==
    ASSUME NEW h \in Nat, NEW z \in Nat \ {0}, NEW m \in Nat \ {0}
    PROVE  /\ h % z <= h % (m * z)
           /\ h % (m * z) < z => h % z = h % (m * z)
  <1> DEFINE w == m * z
             k == h \div w
             j == h % w
             a == j \div z
             b == j % z
  <1>1. w \in Nat \ {0}
    OBVIOUS
  <1>2. k \in Nat /\ j \in 0 .. w - 1 /\ h = k * w + j
    BY <1>1, Quotient
  <1> HIDE DEF w, k, j
  <1>3. a \in Nat /\ b \in 0 .. z - 1 /\ j = a * z + b
    <2>1. j \in Nat
      BY <1>1, <1>2
    <2> QED BY <2>1, Quotient
  <1> HIDE DEF a, b
  <1>4. h = (k * m + a) * z + b /\ k * m + a \in Nat
    BY <1>2, <1>3 DEF w
  <1>5. h % z = b
    BY <1>3, <1>4, Remainder
  <1>6. b <= j
    <2>1. a * z \in Nat
      BY <1>3
    <2> QED BY <1>3, <2>1
  <1>7. ASSUME j < z PROVE h % z = j
    <2>1. h = (k * m) * z + j /\ k * m \in Nat /\ j \in 0 .. z - 1
      BY <1>2, <1>7 DEF w
    <2> QED BY <2>1, Remainder
  <1> QED BY <1>5, <1>6, <1>7 DEF j, w

\* The last bit of an index is the difference to its parent.
LEMMA LastBit ==
    ASSUME NEW h \in Nat, NEW z \in Nat \ {0}, h % (2 * z) >= z
    PROVE  h % z = (h % (2 * z)) - z
  <1> DEFINE k == h \div (2 * z)
             j == h % (2 * z)
  <1>1. k \in Nat /\ j \in 0 .. 2 * z - 1 /\ h = k * (2 * z) + j
    <2> DEFINE w == 2 * z
    <2>1. w \in Nat \ {0}
      OBVIOUS
    <2> HIDE DEF w
    <2>2. h \div w \in Nat /\ h % w \in 0 .. w - 1 /\ h = (h \div w) * w + (h % w)
      BY <2>1, Quotient
    <2> QED BY <2>2 DEF w
  <1>2. j >= z
    OBVIOUS
  <1> HIDE DEF k, j
  <1>3. h = (2 * k + 1) * z + (j - z) /\ 2 * k + 1 \in Nat /\ j - z \in 0 .. z - 1
    BY <1>1, <1>2
  <1>4. h % z = j - z
    BY <1>3, Remainder
  <1> QED BY <1>4 DEF j

LEMMA Powers ==
    /\ giga!Pow2[0] = 1
    /\ \A r \in 1 .. 16 : giga!Pow2[r] = 2 * giga!Pow2[r - 1]
  <1> DEFINE P == giga!Pow2
             f == [r \in 0 .. 16 |->
                      IF r = 0 THEN 1 ELSE IF r = 1 THEN 2 ELSE IF r = 2 THEN 4
                      ELSE IF r = 3 THEN 8 ELSE IF r = 4 THEN 16 ELSE IF r = 5 THEN 32
                      ELSE IF r = 6 THEN 64 ELSE IF r = 7 THEN 128 ELSE IF r = 8 THEN 256
                      ELSE IF r = 9 THEN 512 ELSE IF r = 10 THEN 1024
                      ELSE IF r = 11 THEN 2048 ELSE IF r = 12 THEN 4096
                      ELSE IF r = 13 THEN 8192 ELSE IF r = 14 THEN 16384
                      ELSE IF r = 15 THEN 32768 ELSE 65536]
  <1>1. \A r \in 0 .. 16 : f[r] = IF r = 0 THEN 1 ELSE 2 * f[r - 1]
    OBVIOUS
  <1>2. f = [r \in 0 .. 16 |-> f[r]]
    OBVIOUS
  <1> HIDE DEF f
  <1>3. f = [r \in 0 .. 16 |-> IF r = 0 THEN 1 ELSE 2 * f[r - 1]]
    BY <1>1, <1>2
  <1>4. \E g : g = [r \in 0 .. 16 |-> IF r = 0 THEN 1 ELSE 2 * g[r - 1]]
    BY <1>3
  <1>5. P = [r \in 0 .. 16 |-> IF r = 0 THEN 1 ELSE 2 * P[r - 1]]
    BY <1>4 DEF giga!Pow2
  <1> HIDE DEF P
  <1>6. P[0] = 1 /\ \A r \in 1 .. 16 : P[r] = 2 * P[r - 1]
    BY <1>5
  <1> QED BY <1>6 DEF P

LEMMA PowerNat == \A r \in 0 .. 16 : giga!Pow2[r] \in Nat \ {0}
  <1> DEFINE P == giga!Pow2
             Bad == {x \in 0 .. 16 : P[x] \notin Nat \ {0}}
  <1>1. P[0] = 1 /\ \A x \in 1 .. 16 : P[x] = 2 * P[x - 1]
    BY Powers
  <1> HIDE DEF P
  <1>2. Bad = {}
    <2> SUFFICES ASSUME Bad # {} PROVE FALSE
      OBVIOUS
    <2>1. PICK x \in Bad : \A y \in Bad : x <= y
      <3>1. Bad \subseteq Nat
        OBVIOUS
      <3> HIDE DEF Bad
      <3> QED BY <3>1, LeastNat
    <2>2. x # 0 /\ x \in 1 .. 16
      BY <1>1
    <2>3. x - 1 \notin Bad /\ x - 1 \in 0 .. 16
      BY <2>1, <2>2
    <2>4. P[x - 1] \in Nat \ {0} /\ P[x] = 2 * P[x - 1]
      BY <1>1, <2>2, <2>3
    <2> QED BY <2>4
  <1> QED BY <1>2 DEF P

\* Every power is a multiple of the ones before it.
LEMMA PowerOf ==
    ASSUME NEW q \in 0 .. 16, NEW r \in 0 .. 16, q <= r
    PROVE  \E m \in Nat \ {0} : giga!Pow2[r] = m * giga!Pow2[q]
  <1> DEFINE P == giga!Pow2
             Odd == {x \in q .. 16 : ~ \E m \in Nat \ {0} : P[x] = m * P[q]}
  <1>1. \A x \in 1 .. 16 : P[x] = 2 * P[x - 1]
    BY Powers
  <1>2. P[q] \in Nat \ {0}
    BY PowerNat
  <1> HIDE DEF P
  <1>3. Odd = {}
    <2> SUFFICES ASSUME Odd # {} PROVE FALSE
      OBVIOUS
    <2>1. PICK x \in Odd : \A y \in Odd : x <= y
      <3>1. Odd \subseteq Nat
        OBVIOUS
      <3> HIDE DEF Odd
      <3> QED BY <3>1, LeastNat
    <2>2. x # q
      <3>1. P[q] = 1 * P[q]
        BY <1>2
      <3> QED BY <3>1
    <2>3. x - 1 \in q .. 16 /\ x \in 1 .. 16
      BY <2>2
    <2>4. x - 1 \notin Odd
      BY <2>1, <2>3
    <2>5. PICK m \in Nat \ {0} : P[x - 1] = m * P[q]
      BY <2>3, <2>4
    <2>6. P[x] = (2 * m) * P[q]
      <3>1. P[x] = 2 * (m * P[q])
        BY <1>1, <2>3, <2>5
      <3> QED BY <1>2, <3>1
    <2>7. 2 * m \in Nat \ {0}
      OBVIOUS
    <2> QED BY <2>6, <2>7
  <1> QED BY <1>3 DEF P

\* Indices with fewer bits.
LEMMA IndexOf ==
    ASSUME NEW h \in Nat, NEW r \in 0 .. 16, NEW q \in 0 .. r
    PROVE  /\ giga!Pow2[r] \in Nat \ {0}
           /\ giga!ComputeIndexFromHash(h, r) \in 0 .. giga!Pow2[r] - 1
           /\ giga!ComputeIndexFromHash(h, q) <= giga!ComputeIndexFromHash(h, r)
           /\ giga!ComputeIndexFromHash(h, r) < giga!Pow2[q]
                  => giga!ComputeIndexFromHash(h, q) = giga!ComputeIndexFromHash(h, r)
  <1> DEFINE P == giga!Pow2
  <1>1. P[q] \in Nat \ {0} /\ \E m \in Nat \ {0} : P[r] = m * P[q]
    <2>1. q \in 0 .. 16 /\ q <= r
      OBVIOUS
    <2> QED BY <2>1, PowerOf, PowerNat
  <1>2. P[r] \in Nat \ {0}
    BY PowerNat
  <1> HIDE DEF P
  <1>3. PICK m \in Nat \ {0} : P[r] = m * P[q]
    BY <1>1
  <1>4. h % P[q] <= h % P[r] /\ (h % P[r] < P[q] => h % P[q] = h % P[r])
    <2> DEFINE z == P[q]
    <2>1. z \in Nat \ {0}
      BY <1>1
    <2> HIDE DEF z
    <2>2. h % z <= h % (m * z) /\ (h % (m * z) < z => h % z = h % (m * z))
      BY <2>1, FewerBits
    <2> QED BY <1>3, <2>2 DEF z
  <1>5. h % P[r] \in 0 .. P[r] - 1
    BY <1>2, Quotient
  <1> QED BY <1>2, <1>4, <1>5 DEF P, giga!ComputeIndexFromHash

\* ToRadix is the number of bits of an index.
LEMMA RadixOf ==
    ASSUME NEW i \in Nat, i < giga!kMaxPartitions
    PROVE  /\ giga!ToRadix(i) \in 0 .. 16 /\ i < giga!Pow2[giga!ToRadix(i)]
           /\ \A q \in 0 .. 16 : i < giga!Pow2[q] => giga!ToRadix(i) <= q
  <1> DEFINE P == giga!Pow2
             S == {r \in 0 .. 16 : i < P[r]}
  <1>1. S \subseteq Nat /\ 16 \in S
    BY DEF giga!kMaxPartitions
  <1>2. \A r \in 0 .. 16 : P[r] \in Nat
    BY PowerNat
  <1> HIDE DEF P
  <1>3. PICK x \in S : \A y \in S : x <= y
    <2> HIDE DEF S
    <2> QED BY <1>1, LeastNat
  <1>4. \E r \in 0 .. 16 : i < P[r] /\ \A q \in 0 .. r - 1 : i >= P[q]
    <2>1. ASSUME NEW q \in 0 .. x - 1 PROVE i >= P[q]
      <3>1. q \in 0 .. 16 /\ q \notin S
        BY <1>3
      <3> QED BY <1>2, <3>1
    <2> QED BY <1>3, <2>1
  <1> DEFINE d == giga!ToRadix(i)
  <1>5. d \in 0 .. 16 /\ i < P[d] /\ \A q \in 0 .. d - 1 : i >= P[q]
    BY <1>4 DEF giga!ToRadix, P
  <1> HIDE DEF d
  <1>6. ASSUME NEW q \in 0 .. 16, i < P[q] PROVE d <= q
    <2>1. P[q] \in Nat
      BY <1>2
    <2> SUFFICES ASSUME ~(d <= q) PROVE FALSE
      OBVIOUS
    <2>2. q \in 0 .. d - 1
      BY <1>5
    <2> QED BY <1>5, <1>6, <2>1, <2>2
  <1> QED BY <1>5, <1>6 DEF d, P

\* The radix of a full index is the number of bits of its last partition.
LEMMA FullRadix ==
    /\ giga!SetAll.bits = giga!Partition
    /\ giga!SetAll.radix \in 0 .. 16
    /\ srvs_ <= giga!Pow2[giga!SetAll.radix]
    /\ \A i \in giga!Partition : giga!ToRadix(i) <= giga!SetAll.radix
    /\ \A q \in 0 .. 16 : q < giga!SetAll.radix => giga!Pow2[q] < srvs_
  <1> DEFINE P == giga!Pow2
             last == srvs_ - 1
             T(i) == giga!ToRadix(i)
             R == giga!SetAll.radix
             All == {T(i) : i \in giga!Partition}
  <1>1. srvs_ \in Nat \ {0} /\ srvs_ <= giga!kMaxPartitions /\ giga!kMaxPartitions \in Nat
    BY ContextAssumption, IndexAssumption, PowerNat DEF giga!kMaxPartitions
  <1>2. /\ giga!Partition = 0 .. last /\ last \in giga!Partition /\ last \in Nat
        /\ \A i \in giga!Partition : i \in Nat /\ i < giga!kMaxPartitions /\ i <= last
    BY <1>1 DEF giga!Partition
  <1>3. \A i \in giga!Partition : /\ T(i) \in 0 .. 16 /\ i < P[T(i)]
                                  /\ \A q \in 0 .. 16 : i < P[q] => T(i) <= q
    BY <1>2, RadixOf
  <1>4. \A r \in 0 .. 16 : P[r] \in Nat
    BY PowerNat
  <1>5. R = CHOOSE r \in All : \A i \in giga!Partition : T(i) <= r
    BY DEF giga!SetAll
  <1>6. giga!SetAll.bits = giga!Partition
    BY DEF giga!SetAll
  <1> HIDE DEF P, T, R, last
  <1>7. ASSUME NEW i \in giga!Partition PROVE T(i) <= T(last)
    <2>1. T(last) \in 0 .. 16 /\ last < P[T(last)] /\ P[T(last)] \in Nat
      BY <1>2, <1>3, <1>4
    <2>2. i < P[T(last)]
      BY <1>2, <2>1
    <2> QED BY <1>3, <2>1, <2>2
  <1>8. R \in All /\ \A i \in giga!Partition : T(i) <= R
    <2>1. T(last) \in All
      BY <1>2
    <2>2. \E r \in All : \A i \in giga!Partition : T(i) <= r
      BY <1>7, <2>1
    <2> HIDE DEF All
    <2> QED BY <1>5, <2>2
  <1>9. R = T(last) /\ R \in 0 .. 16
    <2>1. PICK i \in giga!Partition : R = T(i)
      BY <1>8
    <2>2. R <= T(last) /\ T(last) <= R /\ R \in 0 .. 16 /\ T(last) \in 0 .. 16
      BY <1>2, <1>3, <1>7, <1>8, <2>1
    <2> QED BY <2>2
  <1>10. srvs_ <= P[R]
    <2>1. last < P[R] /\ P[R] \in Nat
      BY <1>2, <1>3, <1>4, <1>9
    <2> QED BY <1>1, <1>2, <2>1 DEF last
  <1>11. ASSUME NEW q \in 0 .. 16, q < R PROVE P[q] < srvs_
    <2>1. ~(last < P[q])
      <3>1. ~(R <= q)
        BY <1>9, <1>11
      <3> QED BY <1>2, <1>3, <1>9, <3>1
    <2>2. P[q] \in Nat
      BY <1>4
    <2> QED BY <1>1, <2>1, <2>2 DEF last
  <1> QED BY <1>6, <1>8, <1>9, <1>10, <1>11 DEF P, T, R

\* An index of a full directory is that of a partition, or its parent is: the one that
\* the hash begins with when one bit less of it is taken.
LEMMA ParentExists ==
    ASSUME NEW h \in Nat, giga!ComputeIndexFromHash(h, giga!SetAll.radix) \notin giga!Partition
    PROVE  /\ giga!SetAll.radix - 1 \in 0 .. 16
           /\ giga!ComputeIndexFromHash(h, giga!SetAll.radix - 1) \in giga!Partition
           /\ giga!ToParentIndex(giga!ComputeIndexFromHash(h, giga!SetAll.radix))
                  = giga!ComputeIndexFromHash(h, giga!SetAll.radix - 1)
  <1> DEFINE P == giga!Pow2
             R == giga!SetAll.radix
             C(r) == giga!ComputeIndexFromHash(h, r)
             N == srvs_
  <1>1. N \in Nat \ {0} /\ N <= giga!kMaxPartitions /\ giga!Partition = 0 .. N - 1
    BY ContextAssumption, IndexAssumption DEF giga!Partition
  <1>2. /\ R \in 0 .. 16 /\ N <= P[R]
        /\ \A q \in 0 .. 16 : q < R => P[q] < N
    BY FullRadix
  <1>3. P[0] = 1 /\ \A r \in 1 .. 16 : P[r] = 2 * P[r - 1]
    BY Powers
  <1>4. \A r \in 0 .. 16 : P[r] \in Nat \ {0} /\ C(r) \in 0 .. P[r] - 1 /\ C(r) = h % P[r]
    <2> TAKE r \in 0 .. 16
    <2>1. r \in 0 .. r
      OBVIOUS
    <2>2. P[r] \in Nat \ {0} /\ C(r) \in 0 .. P[r] - 1
      BY <2>1, IndexOf
    <2>3. C(r) = h % P[r]
      BY DEF giga!ComputeIndexFromHash
    <2> QED BY <2>2, <2>3
  <1>5. giga!kMaxPartitions = P[16]
    BY DEF giga!kMaxPartitions
  <1> HIDE DEF P, R, C, N
  <1>6. C(R) \in Nat /\ C(R) >= N /\ C(R) < P[R]
    <2>1. C(R) \notin 0 .. N - 1
      BY <1>1 DEF C, R
    <2>2. P[R] \in Nat /\ C(R) \in 0 .. P[R] - 1
      BY <1>2, <1>4
    <2> QED BY <1>1, <2>1, <2>2
  <1>7. R # 0
    <2> SUFFICES ASSUME R = 0 PROVE FALSE
      OBVIOUS
    <2> QED BY <1>1, <1>3, <1>6
  <1>8. R - 1 \in 0 .. 16 /\ R \in 1 .. 16 /\ R - 1 < R
    BY <1>2, <1>7
  <1>9. P[R] = 2 * P[R - 1] /\ P[R - 1] \in Nat \ {0} /\ P[R - 1] < N
    BY <1>2, <1>3, <1>4, <1>8
  <1>10. C(R - 1) \in giga!Partition
    <2>1. C(R - 1) \in 0 .. P[R - 1] - 1
      BY <1>4, <1>8
    <2> QED BY <1>1, <1>9, <2>1
  <1>11. C(R - 1) = C(R) - P[R - 1]
    <2> DEFINE z == P[R - 1]
    <2>1. /\ C(R) = h % (2 * z) /\ C(R - 1) = h % z
          /\ z \in Nat \ {0} /\ h % (2 * z) >= z
      <3>1. C(R) = h % P[R] /\ C(R - 1) = h % z
        BY <1>2, <1>4, <1>8
      <3>2. z \in Nat \ {0} /\ C(R) >= z
        BY <1>1, <1>6, <1>9
      <3> QED BY <1>9, <3>1, <3>2
    <2> HIDE DEF z
    <2>2. h % z = (h % (2 * z)) - z
      BY <2>1, LastBit
    <2> QED BY <2>1, <2>2 DEF z
  <1>12. giga!ToRadix(C(R)) = R
    <2> DEFINE d == giga!ToRadix(C(R))
    <2>1. C(R) < P[16]
      <3>1. R <= 16 /\ P[16] \in Nat /\ P[R] \in Nat
        BY <1>2, <1>4
      <3>2. P[R] <= P[16]
        <4>1. PICK m \in Nat \ {0} : P[16] = m * P[R]
          BY <1>2, <3>1, PowerOf DEF P
        <4> QED BY <3>1, <4>1
      <3> QED BY <1>6, <3>1, <3>2
    <2>2. d \in 0 .. 16 /\ C(R) < P[d] /\ \A q \in 0 .. 16 : C(R) < P[q] => d <= q
      BY <1>5, <1>6, <2>1, RadixOf DEF P
    <2> HIDE DEF d
    <2>3. d <= R
      BY <1>2, <1>6, <2>2
    <2>4. ~(d < R)
      <3> SUFFICES ASSUME d < R PROVE FALSE
        OBVIOUS
      <3>1. P[d] < N /\ P[d] \in Nat
        BY <1>2, <1>4, <2>2
      <3> QED BY <1>1, <1>6, <2>2, <3>1
    <2> QED BY <1>2, <2>2, <2>3, <2>4 DEF d
  <1>13. giga!ToParentIndex(C(R)) = C(R) - P[R - 1]
    <2>1. C(R) # 0
      BY <1>1, <1>6
    <2> QED BY <1>12, <2>1 DEF giga!ToParentIndex, P
  <1> QED BY <1>8, <1>10, <1>11, <1>13 DEF C, R

\* HashToIndex finds the partition with the longest number that the hash begins with,
\* in at most one step up.
LEMMA SelectsOwner ==
    ASSUME NEW h \in Nat
    PROVE  giga!SelectServer(h) = giga!Owner(h) /\ giga!SelectServer(h) \in Srv
  <1> DEFINE R == giga!SetAll.radix
             B == giga!Partition
             D == 0 .. giga!Pow2[R] - 1
             C(r) == giga!ComputeIndexFromHash(h, r)
             T(i) == giga!ToRadix(i)
             up(i) == giga!ToParentIndex(i)
             begins == {i \in B : C(T(i)) = i}
             own == IF C(R) \in B THEN C(R) ELSE C(R - 1)
  <1>1. /\ R \in 0 .. 16 /\ giga!SetAll.bits = B /\ srvs_ <= giga!Pow2[R]
        /\ \A i \in B : T(i) <= R
    BY FullRadix
  <1>2. srvs_ \in Nat \ {0} /\ srvs_ <= giga!kMaxPartitions /\ B = 0 .. srvs_ - 1
    BY ContextAssumption, IndexAssumption DEF giga!Partition
  <1>3. ASSUME NEW i \in B
        PROVE  /\ T(i) \in 0 .. R /\ i < giga!Pow2[T(i)]
               /\ \A q \in 0 .. 16 : i < giga!Pow2[q] => T(i) <= q
    <2>1. giga!kMaxPartitions \in Nat
      BY PowerNat DEF giga!kMaxPartitions
    <2>2. i \in Nat /\ i < giga!kMaxPartitions
      BY <1>2, <2>1
    <2>3. /\ T(i) \in 0 .. 16 /\ i < giga!Pow2[T(i)]
          /\ \A q \in 0 .. 16 : i < giga!Pow2[q] => T(i) <= q
      BY <2>2, RadixOf
    <2> QED BY <1>1, <2>3
  <1>4. C(R) \in D
    <2>1. R \in 0 .. R
      BY <1>1
    <2> QED BY <1>1, <2>1, IndexOf
  <1>5. ASSUME NEW i \in D, i \notin B
        PROVE  up(i) \in B
    <2>1. giga!Pow2[R] \in Nat \ {0}
      BY <1>1, PowerNat
    <2>2. i \in Nat /\ giga!ComputeIndexFromHash(i, R) = i
      <3>1. i = 0 * giga!Pow2[R] + i /\ i \in Nat
        BY <2>1
      <3>2. i % giga!Pow2[R] = i
        BY <2>1, <3>1, Remainder
      <3> QED BY <3>1, <3>2 DEF giga!ComputeIndexFromHash
    <2> QED BY <1>5, <2>2, ParentExists
  <1>6. C(R) \notin B => R - 1 \in 0 .. 16 /\ C(R - 1) \in B /\ up(C(R)) = C(R - 1)
    BY ParentExists
  <1>7. giga!HashToIndex(giga!SetAll, h) = own
    <2> DEFINE f == [i \in D |-> IF i \in B THEN i ELSE up(i)]
               Loop(g) == g = [i \in D |-> IF i \in B THEN i ELSE g[up(i)]]
    <2>1. B \subseteq D
      <3>1. giga!Pow2[R] \in Nat /\ srvs_ <= giga!Pow2[R]
        BY <1>1, PowerNat
      <3> QED BY <1>2, <3>1
    <2> HIDE DEF up, B, D
    <2>2. \A i \in D : f[i] = IF i \in B THEN i ELSE f[up(i)]
      BY <1>5, <2>1
    <2>3. f = [i \in D |-> f[i]]
      OBVIOUS
    <2> HIDE DEF f
    <2>4. Loop(f)
      BY <2>2, <2>3
    <2> DEFINE g == CHOOSE g : Loop(g)
    <2>5. Loop(g)
      BY <2>4
    <2>6. giga!HashToIndex(giga!SetAll, h) = g[C(R)]
      BY <1>1 DEF giga!HashToIndex, up, B, D
    <2> HIDE DEF g, C
    <2>7. g[C(R)] = own
      <3>1. \A i \in D : g[i] = IF i \in B THEN i ELSE g[up(i)]
        BY <2>5
      <3>2. CASE C(R) \in B
        BY <1>4, <3>1, <3>2
      <3>3. CASE C(R) \notin B
        <4>1. g[C(R)] = g[C(R - 1)] /\ C(R - 1) \in B /\ C(R - 1) \in D
          BY <1>4, <1>6, <2>1, <3>1, <3>3
        <4> QED BY <3>1, <3>3, <4>1
      <3> QED BY <3>2, <3>3
    <2> QED BY <2>6, <2>7
  <1>8. own \in begins
    <2> DEFINE r == IF C(R) \in B THEN R ELSE R - 1
    <2>1. r \in 0 .. 16 /\ r <= R /\ own = C(r) /\ own \in B
      BY <1>1, <1>6
    <2> HIDE DEF r, own
    <2>2. own < giga!Pow2[r]
      <3>1. r \in 0 .. r
        BY <2>1
      <3>2. C(r) \in 0 .. giga!Pow2[r] - 1 /\ giga!Pow2[r] \in Nat
        BY <2>1, <3>1, IndexOf, PowerNat
      <3> QED BY <2>1, <3>2
    <2>3. T(own) \in 0 .. r /\ own < giga!Pow2[T(own)]
      BY <1>3, <2>1, <2>2
    <2>4. C(T(own)) = C(r)
      BY <2>1, <2>3, IndexOf
    <2> QED BY <2>1, <2>4
  <1>9. ASSUME NEW j \in begins PROVE j <= own
    <2>1. j \in B /\ T(j) \in 0 .. R /\ C(T(j)) = j
      BY <1>3
    <2>2. CASE C(R) \in B
      <3>1. C(T(j)) <= C(R)
        BY <1>1, <2>1, IndexOf
      <3> QED BY <2>1, <2>2, <3>1
    <2>3. CASE C(R) \notin B
      <3>1. T(j) # R
        BY <2>1, <2>3
      <3>2. T(j) \in 0 .. R - 1 /\ R - 1 \in 0 .. 16
        BY <1>1, <1>6, <2>1, <2>3, <3>1
      <3>3. C(T(j)) <= C(R - 1)
        BY <3>2, IndexOf
      <3> QED BY <2>1, <2>3, <3>3
    <2> QED BY <2>2, <2>3
  <1>10. \A i, j \in begins : i <= j /\ j <= i => i = j
    BY <1>2
  <1> HIDE DEF begins, own
  <1>11. (CHOOSE i \in begins : \A j \in begins : j <= i) = own
    BY <1>8, <1>9, <1>10
  <1>12. giga!Owner(h) = giga!MapIndexToServer(own)
    BY <1>11 DEF giga!Owner, begins
  <1>13. giga!SelectServer(h) = giga!MapIndexToServer(own)
    BY <1>7 DEF giga!SelectServer
  <1>14. giga!MapIndexToServer(own) \in Srv
    <2>1. own \in Nat
      BY <1>2, <1>8 DEF begins
    <2>2. own + zsrv \in Nat
      BY <2>1, ContextAssumption
    <2> QED BY <1>2, <2>2, Quotient DEF giga!MapIndexToServer, Srv
  <1> QED BY <1>12, <1>13, <1>14
-----------------------------------------------------------------------------
(***************************************************************************)
(* Batches and bulk insertions: names that were inserted before a commit   *)
(* began are stored when it succeeds.                                      *)
(***************************************************************************)
\* What the client has for server i.
Kept(i) == ToSet(namearr[i]) \cup mem[i]

\* At most one thread commits, once.
Committing(t) == pc[t] \in {"commit", "committed"}
OneCommitter ==
    /\ \A t \in Thread : Committing(t) => commit_status = 1
    /\ \A t, u \in Thread : Committing(t) /\ Committing(u) => t = u
    /\ committed => commit_status = 2

\* Only an open db has something in memory.
OpenHasMem == \A i \in Srv : db[i] # "open" => mem[i] = {}

\* What the client has, in memory or in the tables of an open db, was put there.
KeptIsPut ==
    /\ \A i \in Srv : Kept(i) \subseteq put
    /\ \A i \in Srv : db[i] = "open" => tables[i] \subseteq put

\* Until a commit begins, names whose insertion was or will be reported OK are kept or
\* stored.
Safe(x) == x \in stored \/ \E i \in Srv : x \in Kept(i)
AcceptedKept ==
    commit_status = 0 =>
        /\ \A x \in early : Safe(x)
        /\ \A t \in Thread : pc[t] = "inserted" /\ s[t] = "ok" => Safe(name[t])

\* A commit leaves no early name behind it.
EarlyAhead ==
    \A t \in Thread : pc[t] = "commit" =>
        \A x \in early : x \in stored \/ \E i \in srv[t] .. srvs_ - 1 : x \in Kept(i)

EarlyDone ==
    /\ \A t \in Thread : pc[t] = "committed" /\ s[t] = "ok" => early \subseteq stored
    /\ committed => early \subseteq stored

\* The server a thread is at.
SrvOk == \A t \in Thread : pc[t] \in {"insert", "commit"} => srv[t] \in Srv

\* A batch has no dbs, and a bulk insertion no buffers.
OneKind ==
    /\ kind = "batch" => \A i \in Srv : mem[i] = {}
    /\ kind = "bulk" => \A i \in Srv : namearr[i] = <<>>

ContextInv == /\ TypeOK /\ SrvOk /\ OneKind /\ CountCovers /\ OneCommitter /\ OpenHasMem /\ KeptIsPut
              /\ OnlyOwnNames /\ AcceptedKept /\ EarlyAhead /\ EarlyDone
-----------------------------------------------------------------------------
USE ContextAssumption

\* A name is sent to a server there is.
LEMMA SelectInSrv == \A x \in Name : giga!SelectServer(Hash[x]) \in Srv
  BY SelectsOwner

\* The server stores a part of the buffer, and all of it when it answers OK, because
\* the count it is given covers the buffer.
LEMMA Mkfls2Stores ==
    ASSUME TypeOK, CountCovers, NEW i \in Srv, NEW result \in Status, Mkfls2(i, result)
    PROVE  /\ stored \subseteq stored'
           /\ stored' \subseteq stored \cup ToSet(namearr[i])
           /\ result = "ok" => stored' = stored \cup ToSet(namearr[i])
  <1>1. PICK m \in 0 .. Len(namearr[i]) :
           /\ m <= n[i]
           /\ result = "ok" => m = n[i] \/ m = Len(namearr[i])
           /\ stored' = stored \cup ToSet(SubSeq(namearr[i], 1, m))
    BY DEF Mkfls2
  <1>2. namearr[i] \in Seq(Name) /\ n[i] \in Nat /\ Len(namearr[i]) <= n[i]
    BY DEF TypeOK, CountCovers
  <1>3. ToSet(SubSeq(namearr[i], 1, m)) \subseteq ToSet(namearr[i])
    BY <1>2 DEF ToSet
  <1>4. ASSUME result = "ok" PROVE ToSet(SubSeq(namearr[i], 1, m)) = ToSet(namearr[i])
    <2>1. m = Len(namearr[i])
      BY <1>1, <1>2, <1>4
    <2>2. SubSeq(namearr[i], 1, m) = namearr[i]
      BY <1>2, <2>1
    <2> QED BY <2>2
  <1> QED BY <1>1, <1>3, <1>4

LEMMA ToSetType == ASSUME TypeOK, NEW i \in Srv PROVE ToSet(namearr[i]) \subseteq Name
  BY DEF TypeOK, ToSet

LEMMA ToSetAppend ==
    ASSUME NEW q \in Seq(Name), NEW x \in Name
    PROVE  /\ ToSet(Append(q, x)) = ToSet(q) \cup {x}
           /\ ToSet(<<x>>) = {x}
           /\ ToSet(<< >>) = {}
  <1> DEFINE w == Append(q, x)
  <1>1. /\ w \in Seq(Name) /\ Len(w) = Len(q) + 1 /\ w[Len(q) + 1] = x
        /\ \A j \in 1 .. Len(q) : w[j] = q[j]
    OBVIOUS
  <1>2. DOMAIN w = 1 .. Len(q) + 1 /\ DOMAIN q = 1 .. Len(q) /\ Len(q) \in Nat
    BY <1>1
  <1> HIDE DEF w
  <1>3. ToSet(w) = ToSet(q) \cup {x}
    <2>1. ASSUME NEW j \in 1 .. Len(q) + 1 PROVE w[j] \in ToSet(q) \cup {x}
      <3>1. CASE j = Len(q) + 1
        BY <3>1, <1>1
      <3>2. CASE j \in 1 .. Len(q)
        BY <3>2, <1>1, <1>2 DEF ToSet
      <3> QED BY <3>1, <3>2, <1>2
    <2>2. ASSUME NEW j \in 1 .. Len(q) PROVE q[j] \in ToSet(w)
      <3>1. j \in DOMAIN w /\ w[j] = q[j]
        BY <1>1, <1>2
      <3> QED BY <3>1 DEF ToSet
    <2>3. x \in ToSet(w)
      BY <1>1, <1>2 DEF ToSet
    <2>4. ToSet(w) \subseteq ToSet(q) \cup {x}
      BY <2>1, <1>2 DEF ToSet
    <2>5. ToSet(q) \subseteq ToSet(w)
      BY <2>2, <1>2 DEF ToSet
    <2> QED BY <2>3, <2>4, <2>5
  <1>4. ToSet(<<x>>) = {x} /\ ToSet(<< >>) = {}
    BY DEF ToSet
  <1> QED BY <1>3, <1>4 DEF w

LEMMA SmallMod == \A a, b \in Nat : a < b => a % b = a
  OBVIOUS

LEMMA ContextStart == Init => ContextInv
  <1> SUFFICES ASSUME Init PROVE ContextInv
    OBVIOUS
  <1>1. TypeOK
    <2>1. n \in [Srv -> 0 .. Width - 1]
      <3>1. CASE kind = "batch"
        BY <3>1 DEF Init
      <3>2. CASE kind # "batch"
        BY <3>2 DEF Init
      <3> QED BY <3>1, <3>2
    <2>2. tables \in [Srv -> SUBSET Name]
      <3>1. PICK old \in SUBSET Name :
                tables = [i \in Srv |-> {x \in old : giga!SelectServer(Hash[x]) = i}]
        BY DEF Init
      <3> QED BY <3>1
    <2>3. name \in [Thread -> Name]
      BY DEF Init
    <2>4. namearr \in [Srv -> Seq(Name)] /\ srv \in [Thread -> 0 .. srvs_]
      BY DEF Init, Srv
    <2>5. /\ kind \in Kind
          /\ commit_status \in 0 .. 2 /\ bg_status \in Status
          /\ db \in [Srv -> {"null", "unopened", "open"}]
          /\ mem \in [Srv -> SUBSET Name]
          /\ pc \in [Thread -> {"idle", "insert", "inserted", "commit", "committed", "undefined"}]
          /\ s \in [Thread -> Status]
          /\ stored = {} /\ put = {} /\ early = {} /\ committed = FALSE
      BY DEF Init, Status
    <2> QED BY <2>1, <2>2, <2>3, <2>4, <2>5 DEF TypeOK
  <1>2. SrvOk /\ OneCommitter /\ OpenHasMem /\ OnlyOwnNames /\ AcceptedKept /\ EarlyAhead /\ EarlyDone
    BY DEF Init, SrvOk, OneCommitter, Committing, OpenHasMem, OnlyOwnNames, AcceptedKept,
           EarlyAhead, EarlyDone
  <1>3. CountCovers
    BY <1>1 DEF Init, CountCovers, TypeOK
  <1>4. KeptIsPut
    BY DEF Init, KeptIsPut, Kept, ToSet
  <1>5. OneKind
    BY DEF Init, OneKind
  <1> QED BY <1>1, <1>2, <1>3, <1>4, <1>5 DEF ContextInv
-----------------------------------------------------------------------------
(* The steps that all contexts have in common.                              *)

\* What is kept stays kept or gets stored.
KeepsAll == /\ stored \subseteq stored'
            /\ \A i \in Srv : Kept(i) \subseteq Kept(i)' \cup stored'

LEMMA InsertStep ==
    ASSUME ContextInv, NEW t \in Thread, NEW x \in Name, Insert(t, x)
    PROVE  ContextInv'
  <1>1. giga!SelectServer(Hash[x]) \in Srv
    BY SelectInSrv
  <1> DEFINE y == giga!SelectServer(Hash[x])
  <1>2. /\ pc' = [pc EXCEPT ![t] = "insert"]
        /\ name' = [name EXCEPT ![t] = x]
        /\ srv' = [srv EXCEPT ![t] = y]
        /\ UNCHANGED <<kind, commit_status, bg_status, namearr, n, db, mem, tables, stored, s,
                       put, early, committed>>
    BY DEF Insert, buffers, dbs
  <1>3. y \in Srv
    BY <1>1
  <1> HIDE DEF y
  <1>4. TypeOK'
    <2>1. y \in 0 .. srvs_
      BY <1>3 DEF Srv
    <2> QED BY <1>2, <2>1 DEF ContextInv, TypeOK
  <1>5. SrvOk' /\ OneCommitter'
    <2>1. /\ \A u \in Thread \ {t} : pc'[u] = pc[u] /\ srv'[u] = srv[u]
          /\ pc'[t] = "insert" /\ srv'[t] = y
      BY <1>2 DEF ContextInv, TypeOK
    <2>2. SrvOk'
      BY <1>3, <2>1 DEF ContextInv, SrvOk, Srv
    <2>3. OneCommitter'
      BY <1>2, <2>1 DEF ContextInv, OneCommitter, Committing
    <2> QED BY <2>2, <2>3
  <1>6. OneKind' /\ CountCovers' /\ OpenHasMem' /\ KeptIsPut' /\ OnlyOwnNames'
    BY <1>2 DEF ContextInv, OneKind, CountCovers, OpenHasMem, KeptIsPut, Kept, OnlyOwnNames, Srv
  <1>7. AcceptedKept'
    BY <1>2 DEF ContextInv, TypeOK, AcceptedKept, Safe, Kept
  <1>8. EarlyAhead' /\ EarlyDone'
    BY <1>2 DEF ContextInv, TypeOK, EarlyAhead, EarlyDone, Kept
  <1> QED BY <1>4, <1>5, <1>6, <1>7, <1>8 DEF ContextInv

LEMMA InsertedStep ==
    ASSUME ContextInv, NEW t \in Thread, Inserted(t)
    PROVE  ContextInv'
  <1>1. /\ pc[t] = "inserted" /\ pc' = [pc EXCEPT ![t] = "idle"]
        /\ bg_status' \in {bg_status, s[t]}
        /\ early' = IF s[t] = "ok" /\ commit_status = 0 THEN early \cup {name[t]} ELSE early
        /\ UNCHANGED <<kind, commit_status, namearr, n, db, mem, tables, stored, name, srv, s,
                       put, committed>>
    BY DEF Inserted, Record, buffers, dbs
  <1>4. TypeOK'
    BY <1>1 DEF ContextInv, TypeOK
  <1>5. SrvOk' /\ OneCommitter'
    BY <1>1 DEF ContextInv, TypeOK, SrvOk, OneCommitter, Committing, Srv
  <1>6. OneKind' /\ CountCovers' /\ OpenHasMem' /\ KeptIsPut' /\ OnlyOwnNames'
    BY <1>1 DEF ContextInv, OneKind, CountCovers, OpenHasMem, KeptIsPut, Kept, OnlyOwnNames, Srv
  <1>7. AcceptedKept'
    BY <1>1 DEF ContextInv, TypeOK, AcceptedKept, Safe, Kept
  <1>8. EarlyAhead' /\ EarlyDone'
    BY <1>1 DEF ContextInv, TypeOK, EarlyAhead, EarlyDone, Kept, OneCommitter, Committing
  <1> QED BY <1>4, <1>5, <1>6, <1>7, <1>8 DEF ContextInv

LEMMA CommitStep ==
    ASSUME ContextInv, NEW t \in Thread, Commit(t)
    PROVE  ContextInv'
  <1>1. /\ pc[t] = "idle" /\ pc' = [pc EXCEPT ![t] = "commit"]
        /\ commit_status = 0 /\ commit_status' = 1
        /\ srv' = [srv EXCEPT ![t] = 0]
        /\ s' = [s EXCEPT ![t] = "ok"]
        /\ UNCHANGED <<kind, bg_status, namearr, n, db, mem, tables, stored, name,
                       put, early, committed>>
    BY DEF Commit, buffers, dbs
  <1>4. TypeOK'
    BY <1>1 DEF ContextInv, TypeOK, Status
  <1>5. SrvOk' /\ OneCommitter'
    BY <1>1 DEF ContextInv, TypeOK, SrvOk, OneCommitter, Committing, Srv
  <1>6. OneKind' /\ CountCovers' /\ OpenHasMem' /\ KeptIsPut' /\ OnlyOwnNames'
    BY <1>1 DEF ContextInv, OneKind, CountCovers, OpenHasMem, KeptIsPut, Kept, OnlyOwnNames, Srv
  <1>7. AcceptedKept'
    BY <1>1 DEF AcceptedKept
  <1>8. EarlyAhead' /\ EarlyDone'
    <2>1. \A u \in Thread : ~ Committing(u)
      BY <1>1 DEF ContextInv, OneCommitter
    <2>2. \A x \in early : x \in stored \/ \E i \in 0 .. srvs_ - 1 : x \in Kept(i)
      BY <1>1 DEF ContextInv, AcceptedKept, Safe, Srv
    <2>3. \A u \in Thread : pc'[u] = "commit" => u = t /\ srv'[u] = 0
      BY <1>1, <2>1 DEF ContextInv, TypeOK, Committing
    <2>4. EarlyAhead'
      BY <1>1, <2>2, <2>3 DEF EarlyAhead, Kept
    <2>5. EarlyDone'
      BY <1>1, <2>1 DEF ContextInv, TypeOK, EarlyDone, Committing
    <2> QED BY <2>4, <2>5
  <1> QED BY <1>4, <1>5, <1>6, <1>7, <1>8 DEF ContextInv

LEMMA CommittedStep ==
    ASSUME ContextInv, NEW t \in Thread, Committed(t)
    PROVE  ContextInv'
  <1>1. /\ pc[t] = "committed" /\ pc' = [pc EXCEPT ![t] = "idle"]
        /\ commit_status' = 2
        /\ bg_status' \in {bg_status, s[t]}
        /\ committed' = (s[t] = "ok")
        /\ UNCHANGED <<kind, namearr, n, db, mem, tables, stored, name, srv, s, put, early>>
    BY DEF Committed, Record, buffers, dbs
  <1>4. TypeOK'
    BY <1>1 DEF ContextInv, TypeOK
  <1>5. SrvOk' /\ OneCommitter'
    <2>1. \A u \in Thread : ~ Committing(u)'
      BY <1>1 DEF ContextInv, TypeOK, OneCommitter, Committing
    <2> QED BY <1>1, <2>1 DEF ContextInv, TypeOK, SrvOk, OneCommitter, Srv
  <1>6. OneKind' /\ CountCovers' /\ OpenHasMem' /\ KeptIsPut' /\ OnlyOwnNames'
    BY <1>1 DEF ContextInv, OneKind, CountCovers, OpenHasMem, KeptIsPut, Kept, OnlyOwnNames, Srv
  <1>7. AcceptedKept'
    BY <1>1 DEF AcceptedKept
  <1>8. EarlyAhead' /\ EarlyDone'
    BY <1>1 DEF ContextInv, TypeOK, EarlyAhead, EarlyDone, Kept
  <1> QED BY <1>4, <1>5, <1>6, <1>7, <1>8 DEF ContextInv

\* Putting a name in a buffer or a db, with the result s'[t].
LEMMA PutStep ==
    ASSUME ContextInv, NEW t \in Thread, pc[t] = "insert",
           NEW to \in {"inserted", "undefined"}, pc' = [pc EXCEPT ![t] = to],
           NEW result \in Status, s' = [s EXCEPT ![t] = result],
           to = "inserted" /\ result = "ok" => Safe(name[t])',
           KeepsAll, UNCHANGED <<commit_status, name, srv, early, committed>>
    PROVE  SrvOk' /\ OneCommitter' /\ AcceptedKept' /\ EarlyAhead' /\ EarlyDone'
  <1>1. SrvOk' /\ OneCommitter'
    BY DEF ContextInv, TypeOK, SrvOk, OneCommitter, Committing, Srv
  <1>2. \A x : Safe(x) => Safe(x)'
    BY DEF Safe, KeepsAll
  <1>3. AcceptedKept'
    BY <1>2 DEF ContextInv, TypeOK, AcceptedKept
  <1>4. EarlyAhead'
    <2> SUFFICES ASSUME NEW u \in Thread, pc'[u] = "commit", NEW x \in early
                 PROVE  x \in stored' \/ \E i \in srv[u] .. srvs_ - 1 : x \in Kept(i)'
      BY DEF EarlyAhead
    <2>1. pc[u] = "commit" /\ srv[u] \in Srv
      BY DEF ContextInv, TypeOK, SrvOk
    <2>2. x \in stored \/ \E i \in srv[u] .. srvs_ - 1 : x \in Kept(i)
      BY <2>1 DEF ContextInv, EarlyAhead
    <2>3. \A i \in srv[u] .. srvs_ - 1 : i \in Srv
      BY <2>1 DEF Srv
    <2> QED BY <2>2, <2>3 DEF KeepsAll
  <1>5. EarlyDone'
    BY DEF ContextInv, TypeOK, EarlyDone, KeepsAll
  <1> QED BY <1>1, <1>3, <1>4, <1>5

\* A commit at one server, with the result it has there.
LEMMA ServerStep ==
    ASSUME ContextInv, NEW t \in Thread, pc[t] = "commit",
           NEW result \in Status, NextServer(t, result),
           stored \subseteq stored',
           result = "ok" => Kept(srv[t]) \subseteq stored' /\ KeepsAll,
           UNCHANGED <<commit_status, name, early, committed>>
    PROVE  /\ pc' \in [Thread -> {"idle", "insert", "inserted", "commit", "committed", "undefined"}]
           /\ srv' \in [Thread -> 0 .. srvs_] /\ s' \in [Thread -> Status]
           /\ SrvOk' /\ OneCommitter' /\ AcceptedKept' /\ EarlyAhead' /\ EarlyDone'
  <1> DEFINE to == IF result = "error" \/ srv[t] + 1 = srvs_ THEN "committed" ELSE "commit"
  <1>1. /\ pc' = [pc EXCEPT ![t] = to]
        /\ s' = [s EXCEPT ![t] = result]
        /\ srv' = [srv EXCEPT ![t] = srv[t] + 1]
    BY DEF NextServer
  <1>2. srv[t] \in Srv /\ commit_status = 1 /\ \A u \in Thread : Committing(u) => u = t
    BY DEF ContextInv, SrvOk, OneCommitter, Committing
  <1>3. to \in {"commit", "committed"}
    OBVIOUS
  <1>4. to = "commit" => result = "ok" /\ srv[t] + 1 \in Srv
    BY <1>2 DEF Srv, Status
  <1>5. to = "committed" /\ result = "ok" => srv[t] + 1 = srvs_
    OBVIOUS
  <1> HIDE DEF to
  <1>6. pc' \in [Thread -> {"idle", "insert", "inserted", "commit", "committed", "undefined"}]
    BY <1>1, <1>3 DEF ContextInv, TypeOK
  <1>7. srv' \in [Thread -> 0 .. srvs_] /\ s' \in [Thread -> Status]
    <2>1. srv[t] + 1 \in 0 .. srvs_ /\ srv \in [Thread -> 0 .. srvs_] /\ s \in [Thread -> Status]
      BY <1>2 DEF ContextInv, TypeOK, Srv
    <2> QED BY <1>1, <2>1
  <1>8. SrvOk'
    BY <1>1, <1>4, <1>3 DEF ContextInv, TypeOK, SrvOk, Srv
  <1>9. OneCommitter'
    BY <1>1, <1>2, <1>3 DEF ContextInv, TypeOK, OneCommitter, Committing
  <1>10. AcceptedKept'
    BY <1>2 DEF AcceptedKept
  <1>11. ASSUME result = "ok", NEW x \in early
         PROVE  x \in stored' \/ \E i \in srv[t] + 1 .. srvs_ - 1 : x \in Kept(i)'
    <2>1. x \in stored \/ \E i \in srv[t] .. srvs_ - 1 : x \in Kept(i)
      BY DEF ContextInv, EarlyAhead
    <2>2. CASE x \in stored
      BY <2>2
    <2>3. ASSUME NEW i \in srv[t] .. srvs_ - 1, x \in Kept(i)
          PROVE  x \in stored' \/ \E j \in srv[t] + 1 .. srvs_ - 1 : x \in Kept(j)'
      <3>1. i \in Srv /\ (i = srv[t] \/ i \in srv[t] + 1 .. srvs_ - 1)
        BY <1>2 DEF Srv
      <3> QED BY <3>1, <2>3, <1>11 DEF KeepsAll
    <2> QED BY <2>1, <2>2, <2>3
  <1>12. EarlyAhead'
    <2> SUFFICES ASSUME NEW u \in Thread, pc'[u] = "commit", NEW x \in early
                 PROVE  x \in stored' \/ \E i \in srv'[u] .. srvs_ - 1 : x \in Kept(i)'
      BY DEF EarlyAhead
    <2>1. u = t /\ to = "commit"
      BY <1>1, <1>2 DEF ContextInv, TypeOK, Committing
    <2>2. srv'[u] = srv[t] + 1
      BY <2>1, <1>1 DEF ContextInv, TypeOK
    <2> QED BY <2>1, <2>2, <1>4, <1>11
  <1>13. EarlyDone'
    <2>1. ASSUME NEW u \in Thread, pc'[u] = "committed", s'[u] = "ok"
          PROVE  early \subseteq stored'
      <3>1. u = t /\ to = "committed" /\ result = "ok"
        BY <2>1, <1>1, <1>2 DEF ContextInv, TypeOK, Committing
      <3>2. srv[t] + 1 .. srvs_ - 1 = {}
        BY <3>1, <1>5
      <3> QED BY <3>1, <3>2, <1>11
    <2> QED BY <2>1 DEF ContextInv, EarlyDone
  <1> QED BY <1>6, <1>7, <1>8, <1>9, <1>10, <1>12, <1>13
-----------------------------------------------------------------------------
(* Batches.                                                                 *)
LEMMA Mkfls1Step ==
    ASSUME ContextInv, NEW t \in Thread, Mkfls1(t)
    PROVE  ContextInv'
  <1> DEFINE i == srv[t]
             x == name[t]
  <1>1. PICK result \in Status :
           /\ s' = [s EXCEPT ![t] = result]
           /\ put' = IF result = "ok" THEN put \cup {x} ELSE put
           /\ \/ /\ n[i] < batch_size
                 /\ result = "ok"
                 /\ AppendName(i, x)
                 /\ UNCHANGED stored
              \/ /\ n[i] >= batch_size
                 /\ result = "error"
                 /\ Flush(i, result)
              \/ /\ n[i] >= batch_size
                 /\ result = "ok"
                 /\ Mkfls2(i, result)
                 /\ namearr' = [namearr EXCEPT ![i] = <<x>>]
                 /\ n' = [n EXCEPT ![i] = 1]
    BY DEF Mkfls1
  <1>2. /\ pc[t] = "insert" /\ kind = "batch" /\ pc' = [pc EXCEPT ![t] = "inserted"]
        /\ UNCHANGED <<kind, commit_status, bg_status, db, mem, tables, name, srv, early, committed>>
    BY DEF Mkfls1, dbs
  <1>3. /\ i \in Srv /\ x \in Name /\ namearr \in [Srv -> Seq(Name)] /\ n \in [Srv -> 0 .. Width - 1]
        /\ namearr[i] \in Seq(Name) /\ n[i] \in 0 .. Width - 1 /\ Len(namearr[i]) <= n[i]
        /\ ToSet(namearr[i]) \subseteq put
    BY <1>2 DEF ContextInv, TypeOK, SrvOk, CountCovers, KeptIsPut, Kept
  <1> HIDE DEF i, x
  \* The buffer keeps what it has, or all of it has been stored.
  <1>4. /\ namearr' \in [Srv -> Seq(Name)] /\ n' \in [Srv -> 0 .. Width - 1]
        /\ Len(namearr'[i]) <= n'[i]
        /\ \A j \in Srv \ {i} : namearr'[j] = namearr[j] /\ n'[j] = n[j]
        /\ stored \subseteq stored' /\ stored' \subseteq stored \cup put
        /\ ToSet(namearr'[i]) \subseteq put'
        /\ ToSet(namearr[i]) \subseteq ToSet(namearr'[i]) \cup stored'
        /\ result = "ok" => x \in ToSet(namearr'[i])
    <2>1. CASE n[i] < batch_size /\ result = "ok" /\ AppendName(i, x) /\ UNCHANGED stored
      <3>0. n[i] \in Nat /\ n[i] + 1 < Width
        BY <1>3, <2>1
      <3>1. (n[i] + 1) % Width = n[i] + 1 /\ n[i] + 1 \in 0 .. Width - 1
        BY <3>0, SmallMod
      <3>2. /\ namearr' = [namearr EXCEPT ![i] = Append(namearr[i], x)]
            /\ n' = [n EXCEPT ![i] = n[i] + 1]
        BY <2>1, <3>1 DEF AppendName
      <3>3. namearr'[i] = Append(namearr[i], x) /\ n'[i] = n[i] + 1
        BY <3>2, <1>3
      <3>4. ToSet(namearr'[i]) = ToSet(namearr[i]) \cup {x}
        BY <3>3, <1>3, ToSetAppend
      <3>5. namearr' \in [Srv -> Seq(Name)] /\ n' \in [Srv -> 0 .. Width - 1]
        BY <3>1, <3>2, <1>3
      <3>6. Len(namearr'[i]) <= n'[i]
        BY <3>3, <1>3
      <3> QED BY <3>2, <3>4, <3>5, <3>6, <2>1, <1>1, <1>3
    <2>2. CASE n[i] >= batch_size /\ result = "error" /\ Flush(i, result)
      <3>1. UNCHANGED <<namearr, n>> /\ Mkfls2(i, result)
        BY <2>2 DEF Flush, buffers
      <3>2. stored \subseteq stored' /\ stored' \subseteq stored \cup ToSet(namearr[i])
        BY <3>1, <1>3, Mkfls2Stores DEF ContextInv
      <3> QED BY <3>1, <3>2, <2>2, <1>1, <1>3
    <2>3. CASE /\ n[i] >= batch_size /\ result = "ok" /\ Mkfls2(i, result)
               /\ namearr' = [namearr EXCEPT ![i] = <<x>>]
               /\ n' = [n EXCEPT ![i] = 1]
      <3>1. stored' = stored \cup ToSet(namearr[i])
        BY <2>3, <1>3, Mkfls2Stores DEF ContextInv
      <3>2. namearr'[i] = <<x>> /\ n'[i] = 1 /\ ToSet(<<x>>) = {x}
        BY <2>3, <1>3, ToSetAppend
      <3>3. 1 \in 0 .. Width - 1 /\ Len(namearr'[i]) <= n'[i]
        BY <3>2, <2>3
      <3>4. namearr' \in [Srv -> Seq(Name)] /\ n' \in [Srv -> 0 .. Width - 1]
        BY <3>3, <2>3, <1>3
      <3> QED BY <3>1, <3>2, <3>3, <3>4, <2>3, <1>1, <1>3
    <2> QED BY <1>1, <2>1, <2>2, <2>3
  <1>5. put \subseteq put' /\ put' \subseteq Name
    BY <1>1, <1>3 DEF ContextInv, TypeOK
  <1>6. KeepsAll
    BY <1>2, <1>4 DEF KeepsAll, Kept
  <1>7. result = "ok" => Safe(name[t])'
    BY <1>2, <1>3, <1>4 DEF Safe, Kept, x
  <1>8. SrvOk' /\ OneCommitter' /\ AcceptedKept' /\ EarlyAhead' /\ EarlyDone'
    BY <1>1, <1>2, <1>6, <1>7, PutStep
  <1>9. TypeOK'
    <2>1. stored' \subseteq Name
      BY <1>4 DEF ContextInv, TypeOK
    <2>2. s' \in [Thread -> Status]
      BY <1>1 DEF ContextInv, TypeOK
    <2> QED BY <1>2, <1>4, <1>5, <2>1, <2>2 DEF ContextInv, TypeOK
  <1>10. CountCovers' /\ OneKind'
    BY <1>2, <1>4 DEF ContextInv, CountCovers, OneKind, Srv
  <1>11. KeptIsPut' /\ OnlyOwnNames' /\ OpenHasMem'
    BY <1>2, <1>4, <1>5 DEF ContextInv, KeptIsPut, Kept, OnlyOwnNames, OpenHasMem, Srv
  <1> QED BY <1>8, <1>9, <1>10, <1>11 DEF ContextInv

LEMMA CommitMkfls1Step ==
    ASSUME ContextInv, NEW t \in Thread, CommitMkfls1(t)
    PROVE  ContextInv'
  <1> DEFINE i == srv[t]
  <1>1. PICK result \in Status : Flush(i, result) /\ NextServer(t, result)
    BY DEF CommitMkfls1
  <1>2. /\ pc[t] = "commit" /\ kind = "batch"
        /\ UNCHANGED <<kind, commit_status, bg_status, db, mem, tables, name, put, early, committed>>
    BY DEF CommitMkfls1, dbs
  <1>3. /\ i \in Srv /\ namearr \in [Srv -> Seq(Name)] /\ n \in [Srv -> 0 .. Width - 1]
        /\ ToSet(namearr[i]) \subseteq put /\ mem[i] = {} /\ Len(namearr[i]) <= n[i]
    BY <1>2 DEF ContextInv, TypeOK, SrvOk, CountCovers, KeptIsPut, Kept, OneKind
  <1> HIDE DEF i
  <1>4. /\ stored \subseteq stored' /\ stored' \subseteq stored \cup ToSet(namearr[i])
        /\ result = "ok" => stored' = stored \cup ToSet(namearr[i])
    BY <1>1, <1>3, Mkfls2Stores DEF ContextInv, Flush
  <1>5. /\ namearr' \in [Srv -> Seq(Name)] /\ n' \in [Srv -> 0 .. Width - 1]
        /\ \A j \in Srv \ {i} : namearr'[j] = namearr[j] /\ n'[j] = n[j]
        /\ \/ namearr'[i] = namearr[i] /\ n'[i] = n[i]
           \/ namearr'[i] = <<>> /\ n'[i] = 0 /\ result = "ok"
    <2>1. CASE result = "ok"
      <3>1. /\ namearr' = [namearr EXCEPT ![i] = <<>>] /\ <<>> \in Seq(Name)
            /\ n' = [n EXCEPT ![i] = 0] /\ 0 \in 0 .. Width - 1
        BY <2>1, <1>1 DEF Flush
      <3> QED BY <3>1, <2>1, <1>3
    <2>2. CASE result # "ok"
      BY <2>2, <1>1, <1>3 DEF Flush, buffers
    <2> QED BY <2>1, <2>2
  <1>6. ToSet(<<>>) = {} /\ Len(<<>>) = 0
    BY DEF ToSet
  <1>7. result = "ok" => Kept(srv[t]) \subseteq stored' /\ KeepsAll
    BY <1>2, <1>3, <1>4, <1>5 DEF KeepsAll, Kept, i
  <1>8. /\ pc' \in [Thread -> {"idle", "insert", "inserted", "commit", "committed", "undefined"}]
        /\ srv' \in [Thread -> 0 .. srvs_] /\ s' \in [Thread -> Status]
        /\ SrvOk' /\ OneCommitter' /\ AcceptedKept' /\ EarlyAhead' /\ EarlyDone'
    BY <1>1, <1>2, <1>4, <1>7, ServerStep
  <1>9. TypeOK'
    <2>1. stored' \subseteq Name
      BY <1>3, <1>4 DEF ContextInv, TypeOK
    <2> QED BY <1>2, <1>5, <1>8, <2>1 DEF ContextInv, TypeOK
  <1>10. CountCovers' /\ OneKind'
    <2>1. \A j \in Srv : Len(namearr'[j]) <= n'[j]
      <3>1. \A j \in Srv : Len(namearr[j]) <= n[j]
        BY DEF ContextInv, CountCovers
      <3>2. Len(namearr'[i]) <= n'[i]
        <4>1. CASE namearr'[i] = namearr[i] /\ n'[i] = n[i]
          BY <1>3, <3>1, <4>1
        <4>2. CASE namearr'[i] = <<>> /\ n'[i] = 0
          BY <4>2
        <4> QED BY <1>5, <4>1, <4>2
      <3> QED BY <1>5, <3>1, <3>2
    <2> QED BY <1>2, <2>1 DEF ContextInv, CountCovers, OneKind, Srv
  <1>11. KeptIsPut' /\ OnlyOwnNames' /\ OpenHasMem'
    BY <1>2, <1>3, <1>4, <1>5, <1>6 DEF ContextInv, KeptIsPut, Kept, OnlyOwnNames, OpenHasMem, Srv
  <1> QED BY <1>8, <1>9, <1>10, <1>11 DEF ContextInv
-----------------------------------------------------------------------------
(* Bulk insertions.                                                         *)

\* Put or Flush on a db that was never opened.
LEMMA UnopenedStep ==
    ASSUME ContextInv, NEW t \in Thread, pc[t] \in {"insert", "commit"}, Unopened(t),
           UNCHANGED <<kind, commit_status, bg_status, buffers, name, early, committed>>
    PROVE  ContextInv'
  <1>1. /\ pc' = [pc EXCEPT ![t] = "undefined"]
        /\ UNCHANGED <<kind, commit_status, bg_status, namearr, n, db, mem, tables, stored, name,
                       srv, s, put, early, committed>>
    BY DEF Unopened, buffers, dbs
  <1>2. TypeOK' /\ SrvOk' /\ OneCommitter'
    <2>1. TypeOK'
      BY <1>1 DEF ContextInv, TypeOK
    <2>2. \A u \in Thread : u # t => pc'[u] = pc[u]
      BY <1>1 DEF ContextInv, TypeOK
    <2>3. pc'[t] = "undefined"
      BY <1>1 DEF ContextInv, TypeOK
    <2>4. SrvOk'
      BY <1>1, <2>2, <2>3 DEF ContextInv, SrvOk, Srv
    <2>5. OneCommitter'
      BY <1>1, <2>2, <2>3 DEF ContextInv, OneCommitter, Committing
    <2> QED BY <2>1, <2>4, <2>5
  <1>3. OneKind' /\ CountCovers' /\ OpenHasMem' /\ KeptIsPut' /\ OnlyOwnNames'
    BY <1>1 DEF ContextInv, OneKind, CountCovers, OpenHasMem, KeptIsPut, Kept, OnlyOwnNames, Srv
  <1>4. AcceptedKept'
    BY <1>1 DEF ContextInv, TypeOK, AcceptedKept, Safe, Kept
  <1>5. EarlyAhead' /\ EarlyDone'
    BY <1>1 DEF ContextInv, TypeOK, EarlyAhead, EarlyDone, Kept
  <1> QED BY <1>2, <1>3, <1>4, <1>5 DEF ContextInv

\* A db that cannot be opened has nothing, before and after.
LEMMA OpenFailsKeeps ==
    ASSUME ContextInv, NEW i \in Srv, OpenFails(i), UNCHANGED <<kind, namearr, n>>
    PROVE  /\ db' \in [Srv -> {"null", "unopened", "open"}]
           /\ mem' \in [Srv -> SUBSET Name] /\ tables' \in [Srv -> SUBSET Name]
           /\ UNCHANGED <<stored, put>>
           /\ OneKind' /\ CountCovers' /\ OpenHasMem' /\ KeptIsPut' /\ OnlyOwnNames' /\ KeepsAll
  <1>1. PICK left \in SUBSET tables[i] :
           /\ db[i] = "null" /\ db' = [db EXCEPT ![i] = "unopened"]
           /\ tables' = [tables EXCEPT ![i] = left]
           /\ UNCHANGED <<mem, stored, put>>
    BY DEF OpenFails
  <1>2. /\ db' \in [Srv -> {"null", "unopened", "open"}]
        /\ mem' \in [Srv -> SUBSET Name] /\ tables' \in [Srv -> SUBSET Name]
    BY <1>1 DEF ContextInv, TypeOK
  <1>3. OneKind' /\ CountCovers' /\ OnlyOwnNames' /\ KeepsAll
    BY <1>1 DEF ContextInv, OneKind, CountCovers, OnlyOwnNames, KeepsAll, Kept, Srv
  <1>4. OpenHasMem' /\ KeptIsPut'
    BY <1>1 DEF ContextInv, TypeOK, OpenHasMem, KeptIsPut, Kept, Srv
  <1> QED BY <1>1, <1>2, <1>3, <1>4

\* What Bukin1 finds when it has opened a db.
LEMMA AfterOpen ==
    ASSUME ContextInv, NEW i \in Srv, db[i] # "unopened"
    PROVE  /\ NamesAfterOpen(i) = mem[i] /\ mem[i] \subseteq put
           /\ TablesAfterOpen(i) \subseteq put /\ put \subseteq Name
  BY DEF ContextInv, TypeOK, OpenHasMem, KeptIsPut, Kept, NamesAfterOpen, TablesAfterOpen

LEMMA Bukin1Step ==
    ASSUME ContextInv, NEW t \in Thread, Bukin1(t)
    PROVE  ContextInv'
  <1> DEFINE i == srv[t]
             x == name[t]
  <1>1. /\ pc[t] = "insert" /\ kind = "bulk"
        /\ UNCHANGED <<kind, commit_status, bg_status, namearr, n, name, early, committed>>
    BY DEF Bukin1, buffers
  <1>2. i \in Srv /\ x \in Name
    BY <1>1 DEF ContextInv, TypeOK, SrvOk
  <1>3. CASE Unopened(t)
    BY <1>1, <1>3, UnopenedStep DEF buffers
  <1>4. CASE /\ OpenFails(i) /\ s' = [s EXCEPT ![t] = "error"]
             /\ pc' = [pc EXCEPT ![t] = "inserted"] /\ UNCHANGED srv
    <2>1. /\ db' \in [Srv -> {"null", "unopened", "open"}]
          /\ mem' \in [Srv -> SUBSET Name] /\ tables' \in [Srv -> SUBSET Name]
          /\ UNCHANGED <<stored, put>>
          /\ OneKind' /\ CountCovers' /\ OpenHasMem' /\ KeptIsPut' /\ OnlyOwnNames' /\ KeepsAll
      BY <1>1, <1>2, <1>4, OpenFailsKeeps
    <2>2. "error" \in Status
      BY DEF Status
    <2>3. SrvOk' /\ OneCommitter' /\ AcceptedKept' /\ EarlyAhead' /\ EarlyDone'
      BY <1>1, <1>4, <2>1, <2>2, PutStep
    <2>4. TypeOK'
      BY <1>1, <1>4, <2>1, <2>2 DEF ContextInv, TypeOK
    <2> QED BY <2>1, <2>3, <2>4 DEF ContextInv
  <1>5. CASE /\ db[i] # "unopened"
             /\ db' = [db EXCEPT ![i] = "open"]
             /\ tables' = [tables EXCEPT ![i] = TablesAfterOpen(i)]
             /\ \E result \in Status :
                   LET new == IF result = "ok" THEN {name[t]} ELSE {}
                   IN  /\ s' = [s EXCEPT ![t] = result]
                       /\ mem' = [mem EXCEPT ![i] = NamesAfterOpen(i) \cup new]
                       /\ put' = put \cup new
             /\ pc' = [pc EXCEPT ![t] = "inserted"]
             /\ UNCHANGED <<stored, srv>>
    <2>1. PICK result \in Status :
             LET new == IF result = "ok" THEN {x} ELSE {}
             IN  /\ s' = [s EXCEPT ![t] = result]
                 /\ mem' = [mem EXCEPT ![i] = NamesAfterOpen(i) \cup new]
                 /\ put' = put \cup new
      BY <1>5
    <2> DEFINE new == IF result = "ok" THEN {x} ELSE {}
               left == TablesAfterOpen(i)
    <2>2. NamesAfterOpen(i) = mem[i] /\ mem[i] \subseteq put /\ left \subseteq put /\ put \subseteq Name
      BY <1>2, <1>5, AfterOpen
    <2>3. /\ s' = [s EXCEPT ![t] = result]
          /\ mem' = [mem EXCEPT ![i] = mem[i] \cup new]
          /\ put' = put \cup new
          /\ db' = [db EXCEPT ![i] = "open"]
          /\ tables' = [tables EXCEPT ![i] = left]
      BY <1>5, <2>1, <2>2
    <2>4. new \subseteq Name /\ (result = "ok" => x \in new)
      BY <1>2
    <2> HIDE DEF i, x, new, left
    <2>5. TypeOK'
      BY <1>1, <1>2, <1>5, <2>2, <2>3, <2>4 DEF ContextInv, TypeOK
    <2>6. KeepsAll
      BY <1>1, <1>2, <1>5, <2>3 DEF ContextInv, TypeOK, KeepsAll, Kept
    <2>7. result = "ok" => Safe(x)'
      <3>1. mem'[i] = mem[i] \cup new
        BY <1>2, <2>3 DEF ContextInv, TypeOK
      <3>2. x' = x
        BY <1>1 DEF x
      <3> QED BY <3>1, <3>2, <1>2, <2>4 DEF Safe, Kept
    <2>8. SrvOk' /\ OneCommitter' /\ AcceptedKept' /\ EarlyAhead' /\ EarlyDone'
      BY <1>1, <1>5, <2>3, <2>6, <2>7, PutStep DEF x
    <2>9. OneKind' /\ CountCovers' /\ OpenHasMem' /\ OnlyOwnNames'
      <3>1. OneKind' /\ CountCovers'
        BY <1>1, <1>5 DEF ContextInv, OneKind, CountCovers, Srv
      <3>2. OpenHasMem'
        BY <1>1, <1>2, <2>3 DEF ContextInv, TypeOK, OpenHasMem
      <3>3. OnlyOwnNames'
        BY <1>1, <1>5, <2>3 DEF ContextInv, OnlyOwnNames
      <3> QED BY <3>1, <3>2, <3>3
    <2>10. KeptIsPut'
      BY <1>1, <1>2, <2>2, <2>3 DEF ContextInv, TypeOK, KeptIsPut, Kept
    <2> QED BY <2>5, <2>8, <2>9, <2>10 DEF ContextInv
  <1> QED BY <1>3, <1>4, <1>5 DEF Bukin1

LEMMA CommitBukin1Step ==
    ASSUME ContextInv, NEW t \in Thread, CommitBukin1(t)
    PROVE  ContextInv'
  <1> DEFINE i == srv[t]
  <1>1. /\ pc[t] = "commit" /\ kind = "bulk"
        /\ UNCHANGED <<kind, commit_status, bg_status, namearr, n, name, early, committed>>
    BY DEF CommitBukin1, buffers
  <1>2. i \in Srv
    BY <1>1 DEF ContextInv, SrvOk
  <1>3. CASE Unopened(t)
    BY <1>1, <1>3, UnopenedStep DEF buffers
  <1>4. CASE OpenFails(i) /\ NextServer(t, "error")
    <2>1. /\ db' \in [Srv -> {"null", "unopened", "open"}]
          /\ mem' \in [Srv -> SUBSET Name] /\ tables' \in [Srv -> SUBSET Name]
          /\ UNCHANGED <<stored, put>>
          /\ OneKind' /\ CountCovers' /\ OpenHasMem' /\ KeptIsPut' /\ OnlyOwnNames' /\ KeepsAll
      BY <1>1, <1>2, <1>4, OpenFailsKeeps
    <2>2. "error" \in Status
      BY DEF Status
    <2>3. /\ pc' \in [Thread -> {"idle", "insert", "inserted", "commit", "committed", "undefined"}]
          /\ srv' \in [Thread -> 0 .. srvs_] /\ s' \in [Thread -> Status]
          /\ SrvOk' /\ OneCommitter' /\ AcceptedKept' /\ EarlyAhead' /\ EarlyDone'
      BY <1>1, <1>4, <2>1, <2>2, ServerStep
    <2>4. TypeOK'
      BY <1>1, <2>1, <2>3 DEF ContextInv, TypeOK
    <2> QED BY <2>1, <2>3, <2>4 DEF ContextInv
  <1>5. CASE /\ db[i] # "unopened"
             /\ \E result \in Status : BukinFlush(i, result) /\ NextServer(t, result)
             /\ UNCHANGED put
    <2>1. PICK result \in Status : BukinFlush(i, result) /\ NextServer(t, result)
      BY <1>5
    <2> DEFINE all == TablesAfterOpen(i) \cup NamesAfterOpen(i)
    <2>2. /\ NamesAfterOpen(i) = mem[i] /\ mem[i] \subseteq put
          /\ TablesAfterOpen(i) \subseteq put /\ put \subseteq Name
      BY <1>2, <1>5, AfterOpen
    <2> HIDE DEF i
    <2>3. /\ db' \in [Srv -> {"null", "unopened", "open"}]
          /\ mem' \in [Srv -> SUBSET Name] /\ tables' \in [Srv -> SUBSET Name]
          /\ \A j \in Srv \ {i} : db'[j] = db[j] /\ mem'[j] = mem[j] /\ tables'[j] = tables[j]
          /\ mem'[i] \subseteq mem[i] /\ (db'[i] # "open" => mem'[i] = {})
          /\ db'[i] = "open" => tables'[i] \subseteq put
          /\ stored \subseteq stored' /\ stored' \subseteq stored \cup put
          /\ result = "ok" => mem[i] \subseteq stored'
      <3>1. CASE /\ result = "error"
                 /\ db' = [db EXCEPT ![i] = "open"]
                 /\ mem' = [mem EXCEPT ![i] = NamesAfterOpen(i)]
                 /\ tables' = [tables EXCEPT ![i] = TablesAfterOpen(i)]
                 /\ UNCHANGED stored
        BY <3>1, <2>2, <1>2 DEF ContextInv, TypeOK
      <3>2. CASE /\ db' = [db EXCEPT ![i] = "null"]
                 /\ mem' = [mem EXCEPT ![i] = {}]
                 /\ Bukin2(i, all, result)
        <4>1. \E left \in SUBSET Name : tables' = [tables EXCEPT ![i] = left]
          <5>1. CASE bulk_use_copy
            BY <5>1, <3>2, <2>2 DEF Bukin2
          <5>2. CASE ~ bulk_use_copy
            BY <5>2, <3>2, <2>2 DEF Bukin2
          <5> QED BY <5>1, <5>2
        <4>2. \/ stored' = stored \cup all
              \/ stored' = stored /\ result = "error"
          BY <3>2 DEF Bukin2
        <4>3. /\ tables' \in [Srv -> SUBSET Name]
              /\ \A j \in Srv \ {i} : tables'[j] = tables[j]
          BY <4>1, <1>2 DEF ContextInv, TypeOK
        <4>4. /\ db' \in [Srv -> {"null", "unopened", "open"}] /\ mem' \in [Srv -> SUBSET Name]
              /\ db'[i] = "null" /\ mem'[i] = {}
              /\ \A j \in Srv \ {i} : db'[j] = db[j] /\ mem'[j] = mem[j]
          BY <3>2, <1>2 DEF ContextInv, TypeOK
        <4> QED BY <4>2, <4>3, <4>4, <2>2
      <3> QED BY <3>1, <3>2, <2>1 DEF BukinFlush
    <2>4. result = "ok" => Kept(srv[t]) \subseteq stored' /\ KeepsAll
      <3>1. \A j \in Srv : ToSet(namearr[j]) = {}
        BY <1>1 DEF ContextInv, OneKind, ToSet
      <3> QED BY <1>1, <1>2, <2>3, <3>1 DEF KeepsAll, Kept, i
    <2>5. /\ pc' \in [Thread -> {"idle", "insert", "inserted", "commit", "committed", "undefined"}]
          /\ srv' \in [Thread -> 0 .. srvs_] /\ s' \in [Thread -> Status]
          /\ SrvOk' /\ OneCommitter' /\ AcceptedKept' /\ EarlyAhead' /\ EarlyDone'
      BY <1>1, <2>1, <2>3, <2>4, ServerStep
    <2>6. TypeOK'
      <3>1. stored' \subseteq Name
        BY <2>2, <2>3 DEF ContextInv, TypeOK
      <3> QED BY <1>1, <1>5, <2>3, <2>5, <3>1 DEF ContextInv, TypeOK
    <2>7. OneKind' /\ CountCovers' /\ OnlyOwnNames'
      BY <1>1, <1>5, <2>3 DEF ContextInv, OneKind, CountCovers, OnlyOwnNames, Srv
    <2>8. OpenHasMem' /\ KeptIsPut'
      BY <1>1, <1>5, <2>3 DEF ContextInv, OpenHasMem, KeptIsPut, Kept, Srv
    <2> QED BY <2>5, <2>6, <2>7, <2>8 DEF ContextInv
  <1> QED BY <1>3, <1>4, <1>5 DEF CommitBukin1
-----------------------------------------------------------------------------
LEMMA ContextStep == ContextInv /\ [Next]_vars => ContextInv'
  <1> SUFFICES ASSUME ContextInv, [Next]_vars PROVE ContextInv'
    OBVIOUS
  <1>1. CASE UNCHANGED vars
    <2>1. UNCHANGED <<kind, commit_status, bg_status, namearr, n, db, mem, tables, stored, pc, name,
                      srv, s, put, early, committed>>
      BY <1>1 DEF vars, buffers, dbs
    <2> QED BY <2>1 DEF ContextInv, TypeOK, SrvOk, OneKind, CountCovers, OneCommitter, Committing,
                        OpenHasMem, KeptIsPut, Kept, OnlyOwnNames, AcceptedKept, Safe, EarlyAhead,
                        EarlyDone, Srv
  <1>2. ASSUME NEW t \in Thread, NEW x \in Name, BatchInsert(t, x) \/ BulkInsert(t, x)
        PROVE  ContextInv'
    BY <1>2, InsertStep DEF BatchInsert, BulkInsert
  <1>3. ASSUME NEW t \in Thread, BatchInserted(t) \/ BulkInserted(t) PROVE ContextInv'
    BY <1>3, InsertedStep DEF BatchInserted, BulkInserted
  <1>4. ASSUME NEW t \in Thread, BatchCommit(t) \/ BulkCommit(t) PROVE ContextInv'
    BY <1>4, CommitStep DEF BatchCommit, BulkCommit
  <1>5. ASSUME NEW t \in Thread, BatchCommitted(t) \/ BulkCommitted(t) PROVE ContextInv'
    BY <1>5, CommittedStep DEF BatchCommitted, BulkCommitted
  <1> QED BY <1>1, <1>2, <1>3, <1>4, <1>5, Mkfls1Step, CommitMkfls1Step, Bukin1Step,
             CommitBukin1Step DEF Next

LEMMA ContextInvariant == Spec => []ContextInv
  BY ContextStart, ContextStep, PTL DEF Spec

\* The types of a context, for any number of threads, names and servers: in particular
\* the count of a buffer stays a uint32_t and a commit stays within the servers.
THEOREM ContextTypes == Spec => []TypeOK
  <1>1. ContextInv => TypeOK
    BY DEF ContextInv
  <1> QED BY <1>1, ContextInvariant, PTL

\* No write buffer ever holds more names than the count that is sent with it
\* (Mkfls1, fscli.cc), whatever the count holds when the batch is made.
THEOREM CountCoversTheorem == Spec => []CountCovers
  <1>1. ContextInv => CountCovers
    BY DEF ContextInv
  <1> QED BY <1>1, ContextInvariant, PTL

\* A server only gets names that were put in this context, whatever an earlier one has
\* left at its dbloc (Bukin1, fscli.cc).
THEOREM OnlyOwnNamesTheorem == Spec => []OnlyOwnNames
  <1>1. ContextInv => OnlyOwnNames
    BY DEF ContextInv
  <1> QED BY <1>1, ContextInvariant, PTL

\* After a commit that was reported OK (BatchCommit, BulkCommit), the servers have every
\* name whose insertion had been reported OK before it began.
THEOREM EarlyNamesStoredTheorem == Spec => []EarlyNamesStored
  <1>1. ContextInv => EarlyNamesStored
    BY DEF ContextInv, EarlyDone, EarlyNamesStored
  <1> QED BY <1>1, ContextInvariant, PTL
-----------------------------------------------------------------------------
(* Where names go: to the server that SelectServer has chosen.              *)
Selected(x) == giga!SelectServer(Hash[x])
SelectedServer ==
    /\ \A t \in Thread : pc[t] = "insert" => srv[t] = Selected(name[t])
    /\ \A i \in Srv : \A x \in Kept(i) \cup tables[i] : Selected(x) = i

\* A step of thread t that moves no name to a server it was not selected for.
Moves(t) ==
    /\ \A u \in Thread \ {t} : pc'[u] = pc[u] /\ srv'[u] = srv[u] /\ name'[u] = name[u]
    /\ pc'[t] = "insert" => srv'[t] = Selected(name'[t])
    /\ \A i \in Srv : \A x \in Kept(i)' \cup tables'[i] :
          x \in Kept(i) \cup tables[i] \/ Selected(x) = i

LEMMA MovesOk == ASSUME SelectedServer, NEW t \in Thread, Moves(t) PROVE SelectedServer'
  BY DEF SelectedServer, Moves

LEMMA CallMoves ==
    ASSUME TypeOK, NEW t \in Thread,
           (\E x \in Name : Insert(t, x)) \/ Inserted(t) \/ Commit(t) \/ Committed(t)
    PROVE  Moves(t)
  <1>1. UNCHANGED <<namearr, mem, tables>>
    BY DEF Insert, Inserted, Commit, Committed, buffers, dbs
  <1>2. \A i \in Srv : \A x \in Kept(i)' \cup tables'[i] : x \in Kept(i) \cup tables[i]
    BY <1>1 DEF Kept
  <1>3. CASE \E x \in Name : Insert(t, x)
    <2>1. PICK x \in Name : Insert(t, x)
      BY <1>3
    <2>2. /\ pc' = [pc EXCEPT ![t] = "insert"] /\ name' = [name EXCEPT ![t] = x]
          /\ srv' = [srv EXCEPT ![t] = Selected(x)]
      BY <2>1 DEF Insert, Selected
    <2>3. srv'[t] = Selected(name'[t])
      BY <2>2 DEF TypeOK
    <2> QED BY <1>2, <2>2, <2>3 DEF Moves, TypeOK
  <1>4. CASE Inserted(t) \/ Commit(t) \/ Committed(t)
    <2>1. /\ name' = name /\ (srv' = srv \/ srv' = [srv EXCEPT ![t] = 0])
          /\ \E l \in {"idle", "commit"} : pc' = [pc EXCEPT ![t] = l]
      BY <1>4 DEF Inserted, Commit, Committed
    <2> QED BY <1>2, <2>1 DEF Moves, TypeOK
  <1> QED BY <1>3, <1>4

LEMMA CommitMoves ==
    ASSUME TypeOK, NEW t \in Thread, NEW result, NextServer(t, result), UNCHANGED name,
           \A i \in Srv : \A x \in Kept(i)' \cup tables'[i] : x \in Kept(i) \cup tables[i]
    PROVE  Moves(t)
  <1>1. /\ \A u \in Thread \ {t} : pc'[u] = pc[u] /\ srv'[u] = srv[u]
        /\ pc'[t] # "insert"
    BY DEF NextServer, TypeOK
  <1> QED BY <1>1 DEF Moves

LEMMA BatchMoves ==
    ASSUME ContextInv, SelectedServer, NEW t \in Thread, Mkfls1(t) \/ CommitMkfls1(t)
    PROVE  Moves(t)
  <1> DEFINE i == srv[t]
  <1>1. TypeOK /\ i \in Srv /\ UNCHANGED <<name, mem, tables>>
    BY DEF ContextInv, SrvOk, Mkfls1, CommitMkfls1, dbs
  <1>2. \A j \in Srv \ {i} : namearr'[j] = namearr[j]
    BY <1>1 DEF Mkfls1, CommitMkfls1, Flush, AppendName, TypeOK, buffers
  <1>3. CASE Mkfls1(t)
    <2>1. /\ pc[t] = "insert" /\ pc' = [pc EXCEPT ![t] = "inserted"] /\ srv' = srv
      BY <1>3 DEF Mkfls1
    <2>2. Selected(name[t]) = i /\ name[t] \in Name /\ namearr[i] \in Seq(Name)
      BY <1>1, <2>1 DEF SelectedServer, TypeOK
    <2>3. \/ namearr' = [namearr EXCEPT ![i] = Append(@, name[t])]
          \/ namearr' = namearr
          \/ namearr' = [namearr EXCEPT ![i] = <<name[t]>>]
      BY <1>3 DEF Mkfls1, Flush, AppendName, buffers
    <2>4. ToSet(namearr'[i]) \subseteq ToSet(namearr[i]) \cup {name[t]}
      <3>1. \/ namearr'[i] = Append(namearr[i], name[t]) \/ namearr'[i] = namearr[i]
            \/ namearr'[i] = <<name[t]>>
        BY <1>1, <2>3 DEF TypeOK
      <3> HIDE DEF i
      <3> QED BY <2>2, <3>1, ToSetAppend
    <2>5. ASSUME NEW j \in Srv, NEW x \in Kept(j)' \cup tables'[j]
          PROVE  x \in Kept(j) \cup tables[j] \/ Selected(x) = j
      <3> HIDE DEF i
      <3>1. CASE j = i
        BY <1>1, <2>2, <2>4, <2>5, <3>1 DEF Kept
      <3>2. CASE j # i
        BY <1>1, <1>2, <2>5, <3>2 DEF Kept
      <3> QED BY <3>1, <3>2
    <2> QED BY <1>1, <2>1, <2>5 DEF Moves, TypeOK
  <1>4. CASE CommitMkfls1(t)
    <2>1. PICK result \in Status : Flush(i, result) /\ NextServer(t, result)
      BY <1>4 DEF CommitMkfls1
    <2>2. namearr'[i] = namearr[i] \/ namearr'[i] = << >>
      BY <1>1, <2>1 DEF Flush, buffers, TypeOK
    <2>3. ToSet(namearr'[i]) \subseteq ToSet(namearr[i])
      BY <2>2 DEF ToSet
    <2>4. \A j \in Srv : \A x \in Kept(j)' \cup tables'[j] : x \in Kept(j) \cup tables[j]
      BY <1>1, <1>2, <2>3 DEF Kept
    <2> QED BY <1>1, <2>1, <2>4, CommitMoves
  <1> QED BY <1>3, <1>4

LEMMA BulkMoves ==
    ASSUME ContextInv, SelectedServer, NEW t \in Thread, Bukin1(t) \/ CommitBukin1(t)
    PROVE  Moves(t)
  <1> DEFINE i == srv[t]
             all == mem[i] \cup tables[i]
  <1>1. TypeOK /\ i \in Srv /\ UNCHANGED <<name, namearr>>
    BY DEF ContextInv, SrvOk, Bukin1, CommitBukin1, buffers
  <1>2. NamesAfterOpen(i) \subseteq mem[i] /\ TablesAfterOpen(i) \subseteq tables[i]
    BY DEF NamesAfterOpen, TablesAfterOpen
  <1>3. ASSUME NEW M, NEW T, mem' = [mem EXCEPT ![i] = M], tables' = [tables EXCEPT ![i] = T],
               \A x \in M : x \in all \/ Selected(x) = i, \A x \in T : x \in all
        PROVE  \A j \in Srv : \A x \in Kept(j)' \cup tables'[j] :
                  x \in Kept(j) \cup tables[j] \/ Selected(x) = j
    <2>1. /\ mem'[i] = M /\ tables'[i] = T
          /\ \A j \in Srv \ {i} : mem'[j] = mem[j] /\ tables'[j] = tables[j]
      BY <1>1, <1>3 DEF TypeOK
    <2> HIDE DEF i
    <2> QED BY <1>1, <1>3, <2>1 DEF Kept, all
  <1>4. UNCHANGED <<mem, tables>> =>
           \A j \in Srv : \A x \in Kept(j)' \cup tables'[j] : x \in Kept(j) \cup tables[j]
    BY <1>1 DEF Kept
  <1>5. CASE Unopened(t)
    <2>1. UNCHANGED <<mem, tables>> /\ pc' = [pc EXCEPT ![t] = "undefined"] /\ srv' = srv
      BY <1>5 DEF Unopened, dbs
    <2> QED BY <1>1, <1>4, <2>1 DEF Moves, TypeOK
  <1>6. OpenFails(i) => \A j \in Srv : \A x \in Kept(j)' \cup tables'[j] : x \in Kept(j) \cup tables[j]
    <2> SUFFICES ASSUME OpenFails(i)
                 PROVE  \A j \in Srv : \A x \in Kept(j)' \cup tables'[j] : x \in Kept(j) \cup tables[j]
      OBVIOUS
    <2>1. mem' = mem /\ \A j \in Srv : tables'[j] \subseteq tables[j]
      BY <1>1 DEF OpenFails, TypeOK
    <2> QED BY <1>1, <2>1 DEF Kept
  <1>7. CASE Bukin1(t) /\ ~Unopened(t)
    <2>1. pc[t] = "insert" /\ pc' = [pc EXCEPT ![t] = "inserted"] /\ srv' = srv
      BY <1>7 DEF Bukin1
    <2>2. Selected(name[t]) = i
      BY <2>1 DEF SelectedServer
    <2>3. \A j \in Srv : \A x \in Kept(j)' \cup tables'[j] :
             x \in Kept(j) \cup tables[j] \/ Selected(x) = j
      <3>1. CASE OpenFails(i)
        BY <1>6, <3>1
      <3>2. CASE ~OpenFails(i)
        <4>1. PICK result \in Status :
                 LET new == IF result = "ok" THEN {name[t]} ELSE {}
                 IN  /\ tables' = [tables EXCEPT ![i] = TablesAfterOpen(i)]
                     /\ mem' = [mem EXCEPT ![i] = NamesAfterOpen(i) \cup new]
          BY <1>7, <3>2, Zenon DEF Bukin1
        <4> DEFINE new == IF result = "ok" THEN {name[t]} ELSE {}
                   M == NamesAfterOpen(i) \cup new
                   T == TablesAfterOpen(i)
        <4>2. \A x \in M : x \in all \/ Selected(x) = i
          BY <1>2, <2>2
        <4>3. \A x \in T : x \in all
          BY <1>2
        <4>4. mem' = [mem EXCEPT ![i] = M] /\ tables' = [tables EXCEPT ![i] = T]
          BY <4>1
        <4> HIDE DEF new, M, T, all
        <4> QED BY <1>3, <4>2, <4>3, <4>4
      <3> QED BY <3>1, <3>2
    <2> QED BY <1>1, <2>1, <2>3 DEF Moves, TypeOK
  <1>8. CASE CommitBukin1(t) /\ ~Unopened(t)
    <2>1. CASE OpenFails(i) /\ NextServer(t, "error")
      BY <1>1, <1>6, <2>1, CommitMoves
    <2>2. CASE \E result \in Status : BukinFlush(i, result) /\ NextServer(t, result)
      <3>1. PICK result \in Status : BukinFlush(i, result) /\ NextServer(t, result)
        BY <2>2
      <3>2. PICK M, T : /\ mem' = [mem EXCEPT ![i] = M] /\ tables' = [tables EXCEPT ![i] = T]
                        /\ M \subseteq mem[i] /\ T \subseteq all
        <4>1. CASE /\ mem' = [mem EXCEPT ![i] = NamesAfterOpen(i)]
                   /\ tables' = [tables EXCEPT ![i] = TablesAfterOpen(i)]
          BY <1>2, <4>1
        <4>2. CASE /\ mem' = [mem EXCEPT ![i] = {}]
                   /\ Bukin2(i, TablesAfterOpen(i) \cup NamesAfterOpen(i), result)
          <5>1. PICK T : tables' = [tables EXCEPT ![i] = T]
                         /\ T \subseteq TablesAfterOpen(i) \cup NamesAfterOpen(i)
            BY <4>2 DEF Bukin2
          <5> DEFINE none == {}
          <5>2. T \subseteq all /\ none \subseteq mem[i] /\ mem' = [mem EXCEPT ![i] = none]
            BY <1>2, <4>2, <5>1
          <5> HIDE DEF all, none
          <5> QED BY <5>1, <5>2, Zenon
        <4> QED BY <3>1, <4>1, <4>2 DEF BukinFlush
      <3>3. \A j \in Srv : \A x \in Kept(j)' \cup tables'[j] : x \in Kept(j) \cup tables[j]
        <4>1. /\ mem'[i] = M /\ tables'[i] = T
              /\ \A j \in Srv \ {i} : mem'[j] = mem[j] /\ tables'[j] = tables[j]
          BY <1>1, <3>2 DEF TypeOK
        <4> HIDE DEF i
        <4> QED BY <1>1, <3>2, <4>1 DEF Kept, all
      <3> QED BY <1>1, <3>1, <3>3, CommitMoves
    <2> QED BY <1>8, <2>1, <2>2 DEF CommitBukin1
  <1> QED BY <1>5, <1>7, <1>8

LEMMA SelectedStep ==
    ContextInv /\ SelectedServer /\ [Next]_vars => SelectedServer'
  <1> SUFFICES ASSUME ContextInv, SelectedServer, [Next]_vars PROVE SelectedServer'
    OBVIOUS
  <1>0. TypeOK
    BY DEF ContextInv
  <1>1. CASE UNCHANGED vars
    BY <1>1 DEF vars, buffers, dbs, SelectedServer, Kept
  <1>2. CASE Next
    <2>1. PICK t \in Thread :
             \/ (\E x \in Name : Insert(t, x)) \/ Inserted(t) \/ Commit(t) \/ Committed(t)
             \/ Mkfls1(t) \/ CommitMkfls1(t) \/ Bukin1(t) \/ CommitBukin1(t)
      BY <1>2 DEF Next, BatchInsert, BulkInsert, BatchInserted, BulkInserted, BatchCommit,
                  BulkCommit, BatchCommitted, BulkCommitted
    <2>2. Moves(t)
      BY <1>0, <2>1, CallMoves, BatchMoves, BulkMoves
    <2> QED BY <2>2, MovesOk
  <1> QED BY <1>1, <1>2

LEMMA SelectedStart == Init => SelectedServer
  <1> SUFFICES ASSUME Init PROVE SelectedServer
    OBVIOUS
  <1>1. \A t \in Thread : pc[t] = "idle"
    BY DEF Init
  <1>2. \A i \in Srv : Kept(i) = {}
    BY DEF Init, Kept, ToSet
  <1>3. PICK old : tables = [i \in Srv |-> {x \in old : giga!SelectServer(Hash[x]) = i}]
    BY DEF Init
  <1>4. \A i \in Srv : \A x \in tables[i] : Selected(x) = i
    BY <1>3 DEF Selected
  <1> QED BY <1>1, <1>2, <1>4 DEF SelectedServer

\* A name is only kept for, and sent to, the server that SelectServer gives for its hash
\* (fscli.cc), through all that threads insert, send early, commit, clear and open.
THEOREM SelectedServerTheorem == Spec => []SelectedServer
  BY ContextInvariant, SelectedStart, SelectedStep, PTL DEF Spec

\* A name only ever goes to the server that owns its partition (DirIndex::SelectServer,
\* gigaplus.cc:544-560, of a build without assertions), for every number of servers that
\* an index may have and every hash.
THEOREM SentToOwnerTheorem == Spec => []SentToOwner
  <1>1. TypeOK /\ SelectedServer => SentToOwner
    <2> SUFFICES ASSUME TypeOK, SelectedServer, NEW i \in Srv,
                        NEW x \in ToSet(namearr[i]) \cup mem[i] \cup tables[i]
                 PROVE  giga!Owner(Hash[x]) = i
      BY DEF SentToOwner
    <2>1. x \in Name
      BY ToSetType DEF TypeOK
    <2>2. Selected(x) = i
      BY DEF SelectedServer, Kept
    <2>3. giga!SelectServer(Hash[x]) = giga!Owner(Hash[x])
      BY <2>1, SelectsOwner
    <2> QED BY <2>2, <2>3 DEF Selected
  <1> QED BY <1>1, ContextTypes, SelectedServerTheorem, PTL
=============================================================================
