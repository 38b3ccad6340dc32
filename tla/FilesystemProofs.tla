-------------------------- MODULE FilesystemProofs --------------------------
(***************************************************************************)
(* Proofs about Filesystem for any number of threads, directories, names,  *)
(* name subsets and control blocks, and any size of the cache.             *)
(***************************************************************************)
EXTENDS Filesystem, FiniteSetTheorems, TLAPS

(***************************************************************************)
(* What a thread's place in the code says about its call.                  *)
(***************************************************************************)
Control ==
    \A t \in Thread :
        /\ InCall(t) <=> cb[t] \in Block
        /\ InCall(t) => startino[t] > 0
        /\ m[t] <= Len(req[t].names)
        /\ pc[t] \in {"enter", "wait", "retry"} => m[t] = 0
        /\ pc[t] = "enter" => way[t] = 0
        /\ pc[t] \in {"wait", "retry"} => req[t].op \notin Reads
        /\ pc[t] \in {"check", "put"} => /\ req[t].op \in Creates
                                         /\ m[t] < Len(req[t].names)
                                         /\ way[t] = kWays
        /\ pc[t] = "bulk" => req[t].op = "Bukin" /\ way[t] = kWays
        /\ pc[t] = "read" => req[t].op \in Reads
        /\ pc[t] = "finish" => req[t].op \in Reads \/ way[t] = kWays

(***************************************************************************)
(* The table, the cache and the references agree.                          *)
(***************************************************************************)
RightBlock == \A t \in Thread : InCall(t) => id[cb[t]] = req[t].dir

TableExact ==
    /\ \A b \in Block : refs[b] > 0 => dirs[id[b]] = b
    /\ \A d \in DirId : dirs[d] \in Block => refs[dirs[d]] > 0 /\ id[dirs[d]] = d

Quiet == ~open => cached = {} /\ \A t \in Thread : ~InCall(t)

Blocks == RightBlock /\ TableExact /\ RefsExact /\ Quiet

Room == IsFiniteSet(cached) /\ CacheBounded

BlockInv == TypeOK /\ Control /\ Blocks

USE FilesystemAssumption

(***************************************************************************)
(* Facts about the definitions.                                            *)
(***************************************************************************)
LEMMA CallFacts ==
    ASSUME NEW r \in Request
    PROVE  /\ r \in Call
           /\ r.op \in Ops /\ r.dir \in DirId /\ r.names \in Seq(Name)
           /\ r.lease \in Verdict
           /\ Len(r.names) \in Nat
           /\ r.op \in SingleCreates \cup Reads => Len(r.names) = 1
           /\ \A i \in 1 .. Len(r.names) : r.names[i] \in Name /\ SlotOf(r, i) \in Slot
           /\ InoCount(r) \in Nat
  <1>1. r \in Call /\ (r.op \in SingleCreates \cup Reads => Len(r.names) = 1)
    OBVIOUS
  <1>2. r.op \in Ops /\ r.dir \in DirId /\ r.names \in Seq(Name) /\ r.lease \in Verdict
    BY <1>1 DEF Call
  <1>3. Len(r.names) \in Nat /\ \A i \in 1 .. Len(r.names) : r.names[i] \in Name
    BY <1>2
  <1>4. \A i \in 1 .. Len(r.names) : SlotOf(r, i) \in Slot
    BY <1>2, <1>3 DEF SlotOf, Slot
  <1>5. InoCount(r) \in Nat
    BY <1>3 DEF InoCount
  <1> QED BY <1>1, <1>2, <1>3, <1>4, <1>5

LEMMA NeedType == ASSUME NEW r \in Request PROVE Need(r) \subseteq Ways
  <1>1. r.op \in SingleCreates => WayOf[r.names[1]] \in Ways
    BY CallFacts
  <1> QED BY <1>1 DEF Need

\* The Cardinality that RefCache sees is the one seen here.
LEMMA SameCardinality == \A S : dlru!Cardinality(S) = Cardinality(S)
  BY DEF dlru!Cardinality, Cardinality, dlru!IsFiniteSet, IsFiniteSet

LEMMA UsersFinite == \A b : IsFiniteSet(Users(b)) /\ Cardinality(Users(b)) \in Nat
  <1> TAKE b
  <1>1. Users(b) \subseteq Thread
    BY DEF Users
  <1> QED BY <1>1, FS_Subset, FS_CardinalityType

\* A thread that uses a block keeps it alive.
LEMMA UserKeepsAlive ==
    ASSUME TypeOK, RefsExact, NEW t \in Thread, cb[t] \in Block
    PROVE  /\ refs[cb[t]] > 0
           /\ cb[t] \in cached => refs[cb[t]] > 1
  <1>1. t \in Users(cb[t])
    BY DEF Users
  <1>2. Cardinality(Users(cb[t])) > 0
    BY <1>1, UsersFinite, FS_EmptySet
  <1> QED BY <1>2, UsersFinite DEF RefsExact, TypeOK

\* Taking a reference adds a user to one block and to no other.
LEMMA UsersAdd ==
    ASSUME TypeOK, Control, NEW t \in Thread, pc[t] = "idle",
           NEW b \in Block, cb' = [cb EXCEPT ![t] = b], NEW x \in Block
    PROVE  Cardinality(Users(x))' = Cardinality(Users(x)) + (IF x = b THEN 1 ELSE 0)
  <1>1. t \notin Users(x)
    BY DEF Users, Control, InCall
  <1>2. Users(x)' = IF x = b THEN Users(x) \cup {t} ELSE Users(x)
    BY <1>1 DEF Users, TypeOK
  <1>3. Cardinality(Users(x) \cup {t}) = Cardinality(Users(x)) + 1
    BY <1>1, UsersFinite, FS_AddElement
  <1>4. Cardinality(Users(x)) \in Nat
    BY UsersFinite
  <1> QED BY <1>2, <1>3, <1>4

\* Giving it back removes that user.
LEMMA UsersRemove ==
    ASSUME TypeOK, NEW t \in Thread, cb[t] \in Block,
           cb' = [cb EXCEPT ![t] = NULL], NEW x \in Block
    PROVE  Cardinality(Users(x))' = Cardinality(Users(x)) - (IF x = cb[t] THEN 1 ELSE 0)
  <1>1. Users(x)' = IF x = cb[t] THEN Users(x) \ {t} ELSE Users(x)
    BY DEF Users, TypeOK
  <1>2. x = cb[t] => Cardinality(Users(x) \ {t}) = Cardinality(Users(x)) - 1
    <2> SUFFICES ASSUME x = cb[t] PROVE Cardinality(Users(x) \ {t}) = Cardinality(Users(x)) - 1
      OBVIOUS
    <2>1. t \in Users(x)
      BY DEF Users
    <2> QED BY <2>1, UsersFinite, FS_RemoveElement
  <1>3. Cardinality(Users(x)) \in Nat
    BY UsersFinite
  <1> QED BY <1>1, <1>2, <1>3

\* A block that goes leaves the table, one that stays stays in it.
LEMMA DeleteDirExact ==
    ASSUME TypeOK, TableExact, id' = id, dirs' = DeleteDir(Freed),
           refs' \in [Block -> Nat], \A x \in Block : refs'[x] > 0 => refs[x] > 0
    PROVE  TableExact'
  BY DEF TypeOK, TableExact, DeleteDir, Freed

\* Steps that leave the cache and the references alone.
LEMMA BlocksKept ==
    ASSUME Blocks, UNCHANGED <<cacheVars, cb, req, open>>,
           \A t \in Thread : InCall(t)' <=> InCall(t)
    PROVE  Blocks'
  <1>1. RightBlock'
    BY DEF Blocks, RightBlock, cacheVars
  <1>2. TableExact'
    BY DEF Blocks, TableExact, cacheVars
  <1>3. RefsExact'
    BY DEF Blocks, RefsExact, Users, cacheVars
  <1>4. Quiet'
    BY DEF Blocks, Quiet, cacheVars
  <1> QED BY <1>1, <1>2, <1>3, <1>4 DEF Blocks

(***************************************************************************)
(* The table, the cache and the references agree in every state.           *)
(***************************************************************************)

\* Init is a state of the invariant.
LEMMA BlockInit == Init => BlockInv /\ Room
  <1> SUFFICES ASSUME Init PROVE BlockInv /\ Room
    OBVIOUS
  <1>1. (CHOOSE r \in Request : TRUE) \in Request
    OBVIOUS
  <1>2. TypeOK
    BY <1>1 DEF Init, TypeOK, dlru!Init, PC, Code, NoEnt
  <1>3. Control
    BY <1>1, <1>2, CallFacts DEF Init, Control, InCall, TypeOK
  <1>4. \A b \in Block : Users(b) = {}
    BY DEF Init, Users
  <1>5. RefsExact
    <2>1. \A b \in Block : Cardinality(Users(b)) = 0
      BY <1>4, FS_EmptySet
    <2> QED BY <2>1 DEF Init, dlru!Init, RefsExact
  <1>6. RightBlock /\ TableExact /\ Quiet
    BY DEF Init, dlru!Init, RightBlock, TableExact, Quiet, InCall
  <1>7. Room
    BY FS_EmptySet DEF Init, dlru!Init, Room, CacheBounded
  <1> QED BY <1>2, <1>3, <1>5, <1>6, <1>7 DEF BlockInv, Blocks

\* What AcquireDir does to the cache, whichever way it finds the block.
Acquired(d, b) ==
    /\ dirs' \in [DirId -> Block \cup {NULL}]
    /\ id' \in [Block -> DirId]
    /\ refs' \in [Block -> Nat]
    /\ cached' \in SUBSET Block
    /\ fetched' \in SUBSET Block
    /\ busy' \in [Block -> SUBSET Ways]
    /\ id'[b] = d
    /\ \A x \in Block : refs[x] > 0 => id'[x] = id[x]
    /\ \A x \in Block \ {b} : refs'[x] > 0 => refs[x] > 0
    /\ \/ refs[b] > 0 /\ UNCHANGED busy
       \/ refs[b] = 0 /\ busy' = [busy EXCEPT ![b] = {}]
    /\ TableExact' /\ RefsExact' /\ Room'

LEMMA AcquireDirExact ==
    ASSUME BlockInv, Room, NEW t \in Thread, pc[t] = "idle", NEW d \in DirId,
           NEW b \in Block, AcquireDir(d, b), cb' = [cb EXCEPT ![t] = b]
    PROVE  Acquired(d, b)
  <1> USE DEF BlockInv, Blocks
  <1>0. /\ \A x \in Block : Cardinality(Users(x)) \in Nat
        /\ \A x \in Block : Cardinality(Users(x))'
                              = Cardinality(Users(x)) + (IF x = b THEN 1 ELSE 0)
    BY UsersFinite, UsersAdd
  <1>1. CASE AcquireCached(d, b) \/ AcquireInUse(d, b)
    <2>1. /\ UNCHANGED <<id, cached, dirs, fetched, busy>>
          /\ refs' = [refs EXCEPT ![b] = @ + 1]
      BY <1>1 DEF AcquireCached, AcquireInUse, dlru!Lookup, dlru!Ref, blockVars
    <2>2. refs[b] > 0 /\ id[b] = d
      <3>1. CASE AcquireCached(d, b)
        BY <3>1, <1>0 DEF AcquireCached, dlru!Lookup, RefsExact, TypeOK
      <3>2. CASE AcquireInUse(d, b)
        BY <3>2 DEF AcquireInUse, TableExact
      <3> QED BY <1>1, <3>1, <3>2
    <2>3. TableExact'
      BY <2>1, <2>2 DEF TableExact, TypeOK
    <2>4. RefsExact'
      BY <2>1, <1>0 DEF RefsExact, TypeOK
    <2> QED BY <2>1, <2>2, <2>3, <2>4 DEF Room, CacheBounded, TypeOK, Acquired
  <1>2. CASE AcquireNew(d, b)
    <2>1. /\ dlru!Miss(d) /\ dirs[d] = NULL /\ refs[b] = 0
          /\ id' = [id EXCEPT ![b] = d]
          /\ dirs' = [DeleteDir(Freed) EXCEPT ![d] = b]
          /\ fetched' = fetched \ {b}
          /\ busy' = [busy EXCEPT ![b] = {}]
      BY <1>2 DEF AcquireNew, dlru!Insert
    <2>2. b \notin cached /\ Cardinality(Users(b)) = 0
      BY <2>1, <1>0 DEF RefsExact, TypeOK
    <2>3. /\ refs' \in [Block -> Nat]
          /\ \/ /\ Cardinality(cached) < DirLruSize
                /\ cached' = cached \cup {b}
                /\ \A x \in Block : refs'[x] = IF x = b THEN 2 ELSE refs[x]
             \/ \E v \in cached :
                /\ refs[v] = 1
                /\ cached' = (cached \ {v}) \cup {b}
                /\ \A x \in Block : refs'[x] = IF x = b THEN 2
                                              ELSE IF x = v THEN 0 ELSE refs[x]
             \/ /\ cached' = cached
                /\ \A x \in Block : refs'[x] = IF x = b THEN 1 ELSE refs[x]
      <3>1. {x \in cached : id[x] = d} = {} /\ cached \ {} = cached
        BY <2>1 DEF dlru!Miss
      <3>2. \/ /\ Cardinality(cached) < DirLruSize
               /\ cached' = cached \cup {b}
               /\ refs' = [dlru!Dropped({}) EXCEPT ![b] = 2]
            \/ \E v \in cached :
               /\ refs[v] = 1
               /\ cached' = (cached \ {v}) \cup {b}
               /\ refs' = [dlru!Dropped({} \cup {v}) EXCEPT ![b] = 2]
            \/ /\ cached' = cached
               /\ refs' = [dlru!Dropped({}) EXCEPT ![b] = 1]
        <4> DEFINE old == {x \in cached : id[x] = d}
                   kept == cached \ old
        <4>1. \/ /\ Cardinality(kept) < DirLruSize
                 /\ cached' = kept \cup {b}
                 /\ refs' = [dlru!Dropped(old) EXCEPT ![b] = 2]
              \/ \E v \in kept \cap dlru!Idle :
                 /\ cached' = (kept \ {v}) \cup {b}
                 /\ refs' = [dlru!Dropped(old \cup {v}) EXCEPT ![b] = 2]
              \/ /\ cached' = kept
                 /\ refs' = [dlru!Dropped(old) EXCEPT ![b] = 1]
          BY <1>2, SameCardinality DEF AcquireNew, dlru!Insert, dlru!HasRoom
        <4>2. old = {} /\ kept = cached
          BY <3>1
        <4> HIDE DEF old, kept
        <4> QED BY <4>1, <4>2 DEF dlru!Idle
      <3>3. ASSUME NEW n \in {1, 2}, refs' = [dlru!Dropped({}) EXCEPT ![b] = n]
            PROVE  /\ refs' \in [Block -> Nat]
                   /\ \A x \in Block : refs'[x] = IF x = b THEN n ELSE refs[x]
        BY <3>3 DEF dlru!Dropped, TypeOK
      <3>4. ASSUME NEW v \in cached, refs[v] = 1,
                   refs' = [dlru!Dropped({} \cup {v}) EXCEPT ![b] = 2]
            PROVE  /\ refs' \in [Block -> Nat]
                   /\ \A x \in Block : refs'[x] = IF x = b THEN 2
                                                 ELSE IF x = v THEN 0 ELSE refs[x]
        BY <3>4 DEF dlru!Dropped, TypeOK
      <3> QED BY <3>2, <3>3, <3>4
    <2>4. /\ refs' \in [Block -> Nat] /\ refs'[b] > 0
          /\ cached' \in SUBSET Block
          /\ \A x \in Block \ {b} : refs'[x] > 0 => refs[x] > 0
      BY <2>3 DEF TypeOK
    <2>5. TableExact'
      <3>1. \A e \in DirId : dirs'[e] = IF e = d THEN b
                                       ELSE IF dirs[e] \in Freed THEN NULL
                                       ELSE dirs[e]
        BY <2>1 DEF DeleteDir
      <3>2. \A x \in Block : x \in Freed <=> refs[x] > 0 /\ refs'[x] = 0
        BY DEF Freed
      <3>3. \A x \in Block : refs'[x] > 0 => dirs'[id'[x]] = x
        <4> SUFFICES ASSUME NEW x \in Block, refs'[x] > 0 PROVE dirs'[id'[x]] = x
          OBVIOUS
        <4>1. CASE x = b
          BY <4>1, <3>1, <2>1 DEF TypeOK
        <4>2. CASE x # b
          BY <4>2, <3>1, <3>2, <2>1, <2>4 DEF TypeOK, TableExact
        <4> QED BY <4>1, <4>2
      <3>4. \A e \in DirId : dirs'[e] \in Block => refs'[dirs'[e]] > 0 /\ id'[dirs'[e]] = e
        <4> SUFFICES ASSUME NEW e \in DirId, dirs'[e] \in Block
                     PROVE  refs'[dirs'[e]] > 0 /\ id'[dirs'[e]] = e
          OBVIOUS
        <4>1. CASE e = d
          BY <4>1, <3>1, <2>1, <2>4 DEF TypeOK
        <4>2. CASE e # d
          <5>1. dirs'[e] = dirs[e] /\ dirs[e] \in Block /\ dirs[e] \notin Freed
            BY <4>2, <3>1
          <5>2. refs[dirs[e]] > 0 /\ id[dirs[e]] = e
            BY <5>1 DEF TableExact
          <5>3. refs'[dirs[e]] > 0
            BY <5>1, <5>2, <3>2, <2>4
          <5> QED BY <5>1, <5>2, <5>3, <2>1 DEF TypeOK
        <4> QED BY <4>1, <4>2
      <3> QED BY <3>3, <3>4 DEF TableExact
    <2>6. RefsExact'
      <3>1. \A x \in Block \ {b} :
               /\ refs[x] = Cardinality(Users(x)) + (IF x \in cached THEN 1 ELSE 0)
               /\ Cardinality(Users(x))' = Cardinality(Users(x))
        BY <1>0 DEF RefsExact
      <3>2. Cardinality(Users(b))' = 1
        BY <1>0, <2>2
      <3>3. \A x \in Block \ {b} :
               refs'[x] = Cardinality(Users(x)) + (IF x \in cached' THEN 1 ELSE 0)
        BY <2>3, <3>1, <1>0 DEF TypeOK
      <3>4. refs'[b] = 1 + (IF b \in cached' THEN 1 ELSE 0)
        BY <2>3, <2>2 DEF TypeOK
      <3> QED BY <3>1, <3>2, <3>3, <3>4 DEF RefsExact
    <2>7. Room'
      <3>1. CASE Cardinality(cached) < DirLruSize /\ cached' = cached \cup {b}
        <4>1. Cardinality(cached) \in Nat
          BY FS_CardinalityType DEF Room
        <4>2. IsFiniteSet(cached') /\ Cardinality(cached') = Cardinality(cached) + 1
          BY <3>1, <2>2, FS_AddElement DEF Room
        <4> QED BY <3>1, <4>1, <4>2 DEF Room, CacheBounded
      <3>2. ASSUME NEW v \in cached, cached' = (cached \ {v}) \cup {b}
            PROVE  Room'
        <4>1. /\ IsFiniteSet(cached \ {v})
              /\ Cardinality(cached \ {v}) = Cardinality(cached) - 1
          BY FS_RemoveElement DEF Room
        <4>2. /\ IsFiniteSet(cached')
              /\ Cardinality(cached') = Cardinality(cached \ {v}) + 1
          BY <3>2, <4>1, <2>2, FS_AddElement
        <4> QED BY <4>1, <4>2, FS_CardinalityType DEF Room, CacheBounded
      <3> QED BY <2>3, <3>1, <3>2 DEF Room, CacheBounded
    <2>8. \A x \in Block : refs[x] > 0 => id'[x] = id[x]
      BY <2>1 DEF TypeOK
    <2> QED BY <2>1, <2>4, <2>5, <2>6, <2>7, <2>8 DEF TypeOK, DeleteDir, Acquired
  <1> QED BY <1>1, <1>2 DEF AcquireDir

\* How far a thread gets in the loop that locks name subsets.
LEMMA LockWaysStep ==
    ASSUME TypeOK, NEW t \in Thread, cb[t] \in Block, LockWays(t)
    PROVE  /\ busy' \in [Block -> SUBSET Ways]
           /\ way' \in [Thread -> 0 .. kWays]
           /\ pc' \in [Thread -> PC]
           /\ code' \in [Thread -> Code]
           /\ \A u \in Thread \ {t} : pc'[u] = pc[u] /\ way'[u] = way[u]
           /\ \/ pc'[t] = "wait"
              \/ pc'[t] = Locked(req[t]) /\ way'[t] = kWays
  <1> DEFINE todo == {w \in Need(req[t]) : w >= way[t]}
             held == todo \cap busy[cb[t]]
  <1>1. todo \subseteq Ways
    BY NeedType DEF TypeOK
  <1>2. CASE /\ busy' = [busy EXCEPT ![cb[t]] = @ \cup todo]
             /\ way' = [way EXCEPT ![t] = kWays]
             /\ pc' = [pc EXCEPT ![t] = Locked(req[t])]
             /\ code' = [code EXCEPT ![t] =
                            IF Locked(req[t]) = "finish" THEN "OK" ELSE @]
    <2>1. Locked(req[t]) \in PC
      BY DEF Locked, PC
    <2> HIDE DEF todo
    <2> QED BY <1>1, <1>2, <2>1 DEF TypeOK, Code
  <1>3. ASSUME NEW w \in held,
               busy' = [busy EXCEPT ![cb[t]] = @ \cup {x \in todo : x < w}],
               way' = [way EXCEPT ![t] = w],
               pc' = [pc EXCEPT ![t] = "wait"],
               UNCHANGED code
        PROVE  /\ busy' \in [Block -> SUBSET Ways]
               /\ way' \in [Thread -> 0 .. kWays]
               /\ pc' \in [Thread -> PC]
               /\ code' \in [Thread -> Code]
               /\ \A u \in Thread \ {t} : pc'[u] = pc[u] /\ way'[u] = way[u]
               /\ pc'[t] = "wait"
    <2>1. w \in 0 .. kWays
      BY <1>1 DEF Ways
    <2> HIDE DEF todo
    <2> QED BY <1>1, <1>3, <2>1 DEF TypeOK, PC
  <1> QED BY <1>2, <1>3 DEF LockWays

\* A thread that starts to lock, or goes on, keeps to its place in the code.
LEMMA LockWaysControl ==
    ASSUME TypeOK, Control, NEW t \in Thread, pc[t] \in {"enter", "retry"},
           req[t].op \notin Reads, LockWays(t), UNCHANGED <<callVars, m>>
    PROVE  Control'
  <1>1. cb[t] \in Block /\ m[t] = 0
    BY DEF Control, InCall
  <1>2. /\ \A u \in Thread \ {t} : pc'[u] = pc[u] /\ way'[u] = way[u]
        /\ \/ pc'[t] = "wait"
           \/ pc'[t] = Locked(req[t]) /\ way'[t] = kWays
    BY <1>1, LockWaysStep
  <1>3. req[t].op \in Ops /\ (req[t].names # <<>> => Len(req[t].names) > 0)
        /\ req[t].names \in Seq(Name)
    BY CallFacts DEF TypeOK
  <1> SUFFICES ASSUME NEW u \in Thread
               PROVE  Control!(u)'
    BY DEF Control
  <1>4. CASE u # t
    BY <1>2, <1>4 DEF Control, InCall, callVars
  <1>5. CASE u = t
    BY <1>1, <1>2, <1>3, <1>5 DEF Control, InCall, callVars, Locked, Ops, Creates, Reads
  <1> QED BY <1>4, <1>5

\* A call starts.
LEMMA BlockBegin ==
    ASSUME BlockInv, Room, NEW t \in Thread, NEW r \in Request, Begin(t, r)
    PROVE  BlockInv' /\ Room'
  <1> USE DEF BlockInv, Blocks
  <1>1. PICK b \in Block : AcquireDir(r.dir, b) /\ cb' = [cb EXCEPT ![t] = b]
    BY DEF Begin
  <1>2. r.dir \in DirId /\ InoCount(r) \in Nat /\ Len(r.names) \in Nat
    BY CallFacts
  <1>3. pc[t] = "idle"
    BY DEF Begin
  <1>4. Acquired(r.dir, b)
    BY <1>1, <1>2, <1>3, AcquireDirExact
  <1>5. TypeOK'
    <2>1. calls' \in 0 .. MaxCalls
      BY DEF Begin, TypeOK
    <2>2. inoq' \in Nat /\ startino' \in [Thread -> Nat]
      BY <1>2 DEF Begin, TypeOK
    <2> QED BY <1>1, <1>4, <2>1, <2>2 DEF Begin, Acquired, TypeOK, PC, Code
  <1>6. Control'
    BY <1>1, <1>2 DEF Begin, Control, InCall, TypeOK
  <1>7. RightBlock'
    <2> SUFFICES ASSUME NEW u \in Thread, InCall(u)' PROVE id'[cb'[u]] = req'[u].dir
      BY DEF RightBlock
    <2>1. CASE u = t
      BY <2>1, <1>1, <1>4 DEF Begin, Acquired, TypeOK
    <2>2. CASE u # t
      <3>1. InCall(u) /\ cb'[u] = cb[u] /\ req'[u] = req[u] /\ cb[u] \in Block
        BY <2>2, <1>1 DEF Begin, InCall, Control, TypeOK
      <3>2. refs[cb[u]] > 0
        BY <3>1, UserKeepsAlive
      <3> QED BY <3>1, <3>2, <1>4 DEF Acquired, RightBlock
    <2> QED BY <2>1, <2>2
  <1>8. Quiet'
    BY DEF Begin, Quiet
  <1> QED BY <1>4, <1>5, <1>6, <1>7, <1>8 DEF Acquired

\* A call returns.
LEMMA BlockReturn ==
    ASSUME BlockInv, Room, NEW t \in Thread, Return(t)
    PROVE  BlockInv' /\ Room'
  <1> USE DEF BlockInv, Blocks
  <1>1. cb[t] \in Block /\ InCall(t)
    BY DEF Return, Control, InCall
  <1>2. refs[cb[t]] > 0 /\ (cb[t] \in cached => refs[cb[t]] > 1)
    BY <1>1, UserKeepsAlive
  <1>3. /\ refs' = [refs EXCEPT ![cb[t]] = @ - 1]
        /\ UNCHANGED <<id, cached, fetched, busy>>
        /\ dirs' = DeleteDir(Freed)
    BY DEF Return, ReleaseDir, dlru!Release, blockVars
  <1>4. refs' \in [Block -> Nat] /\ \A x \in Block : refs'[x] > 0 => refs[x] > 0
    BY <1>1, <1>2, <1>3 DEF TypeOK
  <1>5. TableExact'
    BY <1>3, <1>4, DeleteDirExact
  <1>6. RefsExact'
    <2>1. cb' = [cb EXCEPT ![t] = NULL]
      BY DEF Return
    <2>2. \A x \in Block : /\ Cardinality(Users(x)) \in Nat
                           /\ Cardinality(Users(x))'
                                = Cardinality(Users(x)) - (IF x = cb[t] THEN 1 ELSE 0)
      BY <1>1, <2>1, UsersFinite, UsersRemove
    <2> QED BY <1>1, <1>3, <2>2 DEF RefsExact, TypeOK
  <1>7. inoq' \in Nat
    <2>1. /\ InoCount(req[t]) \in Nat
          /\ req[t].op \in Creates => InoCount(req[t]) = Len(req[t].names)
      BY CallFacts DEF TypeOK, InoCount
    <2>2. startino[t] > 0 /\ m[t] <= Len(req[t].names) /\ m[t] \in Nat
      BY <1>1 DEF Control, TypeOK
    <2> QED BY <2>1, <2>2 DEF Return, TryReuseIno, LastIno, Unused, TypeOK
  <1>8. TypeOK'
    <2>1. dirs' \in [DirId -> Block \cup {NULL}]
      BY <1>3 DEF DeleteDir, TypeOK
    <2> QED BY <1>3, <1>4, <1>7, <2>1 DEF Return, TypeOK, PC
  <1>9. Control'
    BY <1>1 DEF Return, Control, InCall, TypeOK
  <1>10. RightBlock'
    BY <1>3 DEF Return, RightBlock, InCall, TypeOK
  <1>11. Quiet' /\ Room'
    BY <1>1, <1>3 DEF Return, Quiet, InCall, Room, CacheBounded, TypeOK
  <1> QED BY <1>5, <1>6, <1>8, <1>9, <1>10, <1>11

\* The destructor runs.
LEMMA BlockClose ==
    ASSUME BlockInv, Room, Close
    PROVE  BlockInv' /\ Room'
  <1> USE DEF BlockInv, Blocks
  <1>1. \A b \in Block : Cardinality(Users(b)) = 0
    <2>1. \A b \in Block : Users(b) = {}
      BY DEF Close, Control, InCall, Users
    <2> QED BY <2>1, FS_EmptySet
  <1>2. dlru!Idle = cached
    BY <1>1 DEF RefsExact, dlru!Idle, TypeOK
  <1>3. cached' = {} /\ UNCHANGED <<id, fetched, busy>> /\ dirs' = DeleteDir(Freed)
    BY <1>2 DEF Close, dlru!Evict, blockVars
  <1>4. refs' \in [Block -> Nat] /\ \A b \in Block : refs'[b] = 0
    BY <1>1, <1>2 DEF Close, dlru!Evict, dlru!Dropped, RefsExact, TypeOK
  <1>5. TableExact'
    BY <1>3, <1>4, DeleteDirExact
  <1>6. RefsExact'
    BY <1>1, <1>3, <1>4 DEF Close, RefsExact, Users, callVars
  <1>7. TypeOK'
    <2>1. dirs' \in [DirId -> Block \cup {NULL}]
      BY <1>3 DEF DeleteDir, TypeOK
    <2> QED BY <1>3, <1>4, <2>1 DEF Close, TypeOK, callVars
  <1>8. Control' /\ RightBlock' /\ Quiet'
    BY <1>3 DEF Close, Control, RightBlock, Quiet, InCall, callVars
  <1>9. Room'
    BY <1>3, FS_EmptySet DEF Room, CacheBounded
  <1> QED BY <1>5, <1>6, <1>7, <1>8, <1>9

\* The steps between the first section under mutex_ and the last.
Inner(t) == \/ Reject(t) \/ Enter(t) \/ Wakeup(t) \/ Retry(t) \/ Check(t) \/ Put(t)
            \/ BulkPut(t) \/ Read(t) \/ Finish(t)

\* They move one thread within its call and leave the cache alone.
LEMMA InnerKeeps ==
    ASSUME TypeOK, Control, NEW t \in Thread, Inner(t)
    PROVE  /\ UNCHANGED <<cacheVars, callVars, inoq, calls, open>>
           /\ \A u \in Thread : InCall(u)' <=> InCall(u)
  <1>1. UNCHANGED <<cacheVars, callVars, inoq, calls, open>>
    BY DEF Inner, Reject, Enter, Wakeup, Retry, Check, Put, BulkPut, Read, Finish
  <1>2. CASE Reject(t)
    BY <1>2 DEF Reject, Fail, InCall, TypeOK
  <1>3. CASE (Enter(t) \/ Retry(t)) /\ LockWays(t)
    <2>1. cb[t] \in Block
      BY <1>3 DEF Enter, Retry, Control, InCall
    <2>2. /\ \A u \in Thread \ {t} : pc'[u] = pc[u]
          /\ pc'[t] \in {"wait", Locked(req[t])}
      BY <1>3, <2>1, LockWaysStep
    <2>3. pc'[t] # "idle"
      BY <2>2 DEF Locked
    <2> QED BY <1>3, <2>2, <2>3 DEF Enter, Retry, InCall
  <1>4. CASE Enter(t) /\ ~LockWays(t)
    BY <1>4 DEF Enter, Fail, InCall, TypeOK
  <1>5. CASE Wakeup(t) \/ Check(t) \/ Put(t)
    BY <1>5 DEF Wakeup, Check, Put, Done, InCall, TypeOK
  <1>6. CASE BulkPut(t) \/ Read(t)
    BY <1>6 DEF BulkPut, Read, Done, InCall, TypeOK
  <1>7. CASE Finish(t)
    BY <1>7 DEF Finish, SignalAll, InCall, TypeOK
  <1>8. Retry(t) => LockWays(t)
    BY DEF Retry
  <1> QED BY <1>1, <1>2, <1>3, <1>4, <1>5, <1>6, <1>7, <1>8 DEF Inner

LEMMA InnerTypeOK ==
    ASSUME TypeOK, Control, NEW t \in Thread, Inner(t)
    PROVE  TypeOK'
  <1> USE DEF TypeOK, cacheVars, blockVars, callVars
  <1>1. cb[t] \in Block
    BY DEF Inner, Control, InCall, Reject, Enter, Wakeup, Retry, Check, Put, BulkPut,
           Read, Finish
  <1>2. CASE Reject(t)
    BY <1>2 DEF Reject, Fail, PC, Code
  <1>3. CASE Enter(t)
    <2>1. fetched' \in SUBSET Block
      BY <1>1, <1>3 DEF Enter
    <2>2. CASE LockWays(t)
      <3>1. /\ busy' \in [Block -> SUBSET Ways]
            /\ way' \in [Thread -> 0 .. kWays]
            /\ pc' \in [Thread -> PC]
            /\ code' \in [Thread -> Code]
        BY <2>2, <1>1, LockWaysStep
      <3>2. UNCHANGED <<db, inoq, cacheVars, callVars, m, stat, calls, open>>
        BY <1>3 DEF Enter
      <3> QED BY <2>1, <3>1, <3>2
    <2>3. CASE ~LockWays(t)
      BY <1>1, <1>3, <2>1, <2>3 DEF Enter, Fail, PC, Code
    <2> QED BY <2>2, <2>3
  <1>4. CASE Retry(t)
    <2>1. LockWays(t)
      BY <1>4 DEF Retry
    <2>2. /\ busy' \in [Block -> SUBSET Ways]
          /\ way' \in [Thread -> 0 .. kWays]
          /\ pc' \in [Thread -> PC]
          /\ code' \in [Thread -> Code]
      BY <2>1, <1>1, LockWaysStep
    <2> QED BY <1>4, <2>2 DEF Retry
  <1>5. CASE Wakeup(t) \/ Check(t)
    BY <1>5 DEF Wakeup, Check, Done, PC, Code
  <1>6. CASE Put(t)
    <2>1. NewStat(t) \in Stat
      BY DEF NewStat, Stat, Kind
    <2>2. db' \in [Slot -> Stat \cup {NoEnt}]
      <3>1. db' = db \/ db' = [db EXCEPT ![SlotOf(req[t], m[t] + 1)] = NewStat(t)]
        BY <1>6 DEF Put
      <3> QED BY <2>1, <3>1
    <2>3. m' \in [Thread -> Nat]
      <3>1. m' = m \/ m' = [m EXCEPT ![t] = @ + 1]
        BY <1>6 DEF Put
      <3> QED BY <3>1
    <2>4. pc' \in [Thread -> PC] /\ code' \in [Thread -> Code]
      BY <1>6 DEF Put, Done, PC, Code
    <2>5. UNCHANGED <<inoq, cacheVars, blockVars, callVars, way, stat, calls, open>>
      BY <1>6 DEF Put
    <2> QED BY <2>2, <2>3, <2>4, <2>5
  <1>7. CASE BulkPut(t)
    <2>1. BulkStat \in Stat
      BY DEF BulkStat, Stat, Kind
    <2>2. db' \in [Slot -> Stat \cup {NoEnt}]
      BY <1>7, <2>1 DEF BulkPut
    <2>3. pc' \in [Thread -> PC] /\ code' \in [Thread -> Code]
      BY <1>7 DEF BulkPut, Done, PC, Code
    <2>4. UNCHANGED <<inoq, cacheVars, blockVars, callVars, way, m, stat, calls, open>>
      BY <1>7 DEF BulkPut
    <2> QED BY <2>2, <2>3, <2>4
  <1>8. CASE Read(t)
    <2>1. SlotOf(req[t], 1) \in Slot
      <3>1. req[t] \in Request /\ req[t].op \in Reads
        BY <1>8 DEF Read, Control
      <3>2. Len(req[t].names) = 1
        BY <3>1, CallFacts
      <3>3. \A i \in 1 .. Len(req[t].names) : SlotOf(req[t], i) \in Slot
        BY <3>1, CallFacts
      <3> QED BY <3>2, <3>3
    <2>2. DbGet(SlotOf(req[t], 1)) \in Stat \cup {NoEnt}
      BY <2>1 DEF DbGet
    <2> QED BY <1>8, <2>2 DEF Read, Done, PC, Code
  <1>9. CASE Finish(t)
    BY <1>9, <1>1 DEF Finish, SignalAll, PC
  <1> QED BY <1>2, <1>3, <1>4, <1>5, <1>6, <1>7, <1>8, <1>9 DEF Inner

LEMMA InnerControl ==
    ASSUME TypeOK, Control, NEW t \in Thread, Inner(t)
    PROVE  Control'
  <1> USE DEF TypeOK, InCall, callVars
  <1>1. CASE Reject(t)
    BY <1>1 DEF Reject, Fail, Control
  <1>2. CASE Enter(t)
    <2>1. CASE req[t].op \notin Reads /\ LockWays(t)
      BY <1>2, <2>1, LockWaysControl DEF Enter
    <2>2. CASE ~(req[t].op \notin Reads /\ LockWays(t))
      BY <1>2, <2>2 DEF Enter, Fail, Control
    <2> QED BY <2>1, <2>2
  <1>3. CASE Retry(t)
    BY <1>3, LockWaysControl DEF Retry, Control
  <1>4. CASE Wakeup(t)
    BY <1>4 DEF Wakeup, Control
  <1>5. CASE Check(t)
    BY <1>5 DEF Check, Done, Control
  <1>6. CASE Put(t)
    <2>1. Len(req[t].names) \in Nat
      BY CallFacts
    <2> QED BY <1>6, <2>1 DEF Put, Done, Control
  <1>7. CASE BulkPut(t)
    BY <1>7 DEF BulkPut, Done, Control
  <1>8. CASE Read(t)
    BY <1>8 DEF Read, Done, Control
  <1>9. CASE Finish(t)
    BY <1>9 DEF Finish, SignalAll, Control
  <1> QED BY <1>1, <1>2, <1>3, <1>4, <1>5, <1>6, <1>7, <1>8, <1>9 DEF Inner

\* The invariant is kept by every step.
LEMMA BlockNext == BlockInv /\ Room /\ [Next]_vars => BlockInv' /\ Room'
  <1> SUFFICES ASSUME BlockInv, Room, [Next]_vars PROVE BlockInv' /\ Room'
    OBVIOUS
  <1>1. ASSUME NEW t \in Thread, NEW r \in Request, Begin(t, r) PROVE BlockInv' /\ Room'
    BY <1>1, BlockBegin
  <1>2. ASSUME NEW t \in Thread, Inner(t) PROVE BlockInv' /\ Room'
    <2>1. TypeOK' /\ Control'
      BY <1>2, InnerTypeOK, InnerControl DEF BlockInv
    <2>2. /\ UNCHANGED <<cacheVars, callVars, inoq, calls, open>>
          /\ \A u \in Thread : InCall(u)' <=> InCall(u)
      BY <1>2, InnerKeeps DEF BlockInv
    <2>3. Blocks'
      BY <2>2, BlocksKept DEF BlockInv, callVars
    <2>4. Room'
      BY <2>2 DEF Room, CacheBounded, cacheVars
    <2> QED BY <2>1, <2>3, <2>4 DEF BlockInv
  <1>3. ASSUME NEW t \in Thread, Return(t) PROVE BlockInv' /\ Room'
    BY <1>3, BlockReturn
  <1>4. CASE Close
    BY <1>4, BlockClose
  <1>5. CASE UNCHANGED vars
    <2>1. TypeOK' /\ Control' /\ Room'
      BY <1>5 DEF BlockInv, vars, cacheVars, blockVars, callVars, TypeOK, Control,
                  InCall, Room, CacheBounded
    <2>2. Blocks'
      BY <1>5, BlocksKept DEF BlockInv, vars, cacheVars, callVars, InCall
    <2> QED BY <2>1, <2>2 DEF BlockInv
  <1> QED BY <1>1, <1>2, <1>3, <1>4, <1>5 DEF Next, Step, Inner, Closed

LEMMA BlockInvariant == Spec => [](BlockInv /\ Room)
  BY BlockInit, BlockNext, PTL DEF Spec

-----------------------------------------------------------------------------
(***************************************************************************)
(* Theorems.                                                               *)
(***************************************************************************)

\* Every variable keeps its type: in particular neither a reference count nor
\* inoq_, both unsigned in the code, is ever taken below zero.
THEOREM TypeCorrect == Spec => []TypeOK
  <1>1. BlockInv => TypeOK
    BY DEF BlockInv
  <1> QED BY <1>1, BlockInvariant, PTL

\* The references on a control block are those of its users and of the cache.
THEOREM RefsAreExact == Spec => []RefsExact
  <1>1. BlockInv => RefsExact
    BY DEF BlockInv, Blocks
  <1> QED BY <1>1, BlockInvariant, PTL

\* A thread's control block is alive and is the one of its directory, whatever
\* other threads evict or release in the meantime.
THEOREM BlocksStayAlive == Spec => []NoUseAfterFree
  <1>1. BlockInv => NoUseAfterFree
    <2> SUFFICES ASSUME BlockInv, NEW t \in Thread, InCall(t)
                 PROVE  NoUseAfterFree!(t)
      BY DEF NoUseAfterFree
    <2>1. cb[t] \in Block
      BY DEF BlockInv, Control
    <2>2. refs[cb[t]] > 0
      BY <2>1, UserKeepsAlive DEF BlockInv, Blocks
    <2> QED BY <2>1, <2>2 DEF BlockInv, Blocks, RightBlock, TableExact
  <1> QED BY <1>1, BlockInvariant, PTL

\* A directory never has two control blocks in memory.
THEOREM BlocksAreUnique == Spec => []OneBlockPerDir
  <1>1. BlockInv => OneBlockPerDir
    BY DEF BlockInv, Blocks, TableExact, OneBlockPerDir, dlru!Live
  <1> QED BY <1>1, BlockInvariant, PTL

\* The cache never holds more control blocks than dir_lru_size.
THEOREM CacheStaysBounded == Spec => []CacheBounded
  <1>1. Room => CacheBounded
    BY DEF Room
  <1> QED BY <1>1, BlockInvariant, PTL

\* The destructors find nothing left: no block is in use and the table is empty.
THEOREM ShutdownIsClean == Spec => []CleanShutdown
  <1>1. BlockInv => CleanShutdown
    <2> SUFFICES ASSUME BlockInv, ~open
                 PROVE  dlru!Live = {} /\ \A d \in DirId : dirs[d] = NULL
      BY DEF CleanShutdown
    <2>1. \A b \in Block : Users(b) = {} /\ b \notin cached
      BY DEF BlockInv, Blocks, Quiet, Control, Users
    <2>2. \A b \in Block : Cardinality(Users(b)) = 0
      BY <2>1, FS_EmptySet
    <2>3. \A b \in Block : refs[b] = 0
      BY <2>1, <2>2 DEF BlockInv, Blocks, RefsExact
    <2> QED BY <2>3 DEF BlockInv, Blocks, TableExact, TypeOK, dlru!Live
  <1> QED BY <1>1, BlockInvariant, PTL
-----------------------------------------------------------------------------
(***************************************************************************)
(* Proofs that the name subsets of a directory are locked exclusively and  *)
(* that, because of it, no create overwrites what another stored.          *)
(***************************************************************************)
(***************************************************************************)
(* The flags of a block are exactly the subsets its users have locked.     *)
(***************************************************************************)
Disjoint == \A t, u \in Thread :
    (t # u /\ cb[t] \in Block /\ cb[u] = cb[t]) => Holds(t) \cap Holds(u) = {}

HeldAreBusy == \A t \in Thread : cb[t] \in Block => Holds(t) \subseteq busy[cb[t]]

BusyAreHeld == \A b \in Block : refs[b] > 0 =>
    \A w \in busy[b] : \E t \in Thread : cb[t] = b /\ w \in Holds(t)

WayInv == Disjoint /\ HeldAreBusy /\ BusyAreHeld

\* One round of the locking loop takes a set of subsets that were free.
LEMMA LockWaysHolds ==
    ASSUME TypeOK, Control, NEW t \in Thread, pc[t] \in {"enter", "retry"},
           req[t].op \notin Reads, LockWays(t), UNCHANGED <<callVars, m>>
    PROVE  \E S \in SUBSET Ways :
              /\ S \cap busy[cb[t]] = {}
              /\ busy' = [busy EXCEPT ![cb[t]] = @ \cup S]
              /\ Holds(t)' = Holds(t) \cup S
              /\ \A u \in Thread \ {t} : Holds(u)' = Holds(u)
  <1> DEFINE need == Need(req[t])
             todo == {w \in need : w >= way[t]}
             held == todo \cap busy[cb[t]]
  <1>1. need \subseteq Ways /\ way[t] \in 0 .. kWays /\ \A w \in need : w \in Int
    BY NeedType DEF TypeOK, Ways
  <1>2. Holds(t) = {w \in need : w < way[t]}
    <2>1. CASE pc[t] = "enter"
      BY <2>1, <1>1 DEF Control, Holds, Ways
    <2>2. CASE pc[t] = "retry"
      BY <2>2 DEF Holds
    <2> QED BY <2>1, <2>2
  <1>3. req' = req
    BY DEF callVars
  <1>4. \A u \in Thread \ {t} : pc'[u] = pc[u] /\ way'[u] = way[u]
    BY LockWaysStep DEF Control, InCall
  <1>5. \A u \in Thread \ {t} : Holds(u)' = Holds(u)
    BY <1>3, <1>4 DEF Holds
  <1>6. CASE /\ held = {}
             /\ busy' = [busy EXCEPT ![cb[t]] = @ \cup todo]
             /\ way' = [way EXCEPT ![t] = kWays]
             /\ pc' = [pc EXCEPT ![t] = Locked(req[t])]
    <2>1. pc'[t] \in {"bulk", "finish", "check"} /\ way'[t] = kWays
      BY <1>6 DEF Locked, TypeOK
    <2>2. Holds(t)' = {w \in need : w < kWays}
      BY <2>1, <1>3 DEF Holds
    <2>3. Holds(t)' = Holds(t) \cup todo
      BY <1>1, <1>2, <2>2 DEF Ways
    <2>4. todo \in SUBSET Ways /\ todo \cap busy[cb[t]] = {}
      BY <1>1, <1>6
    <2> HIDE DEF todo
    <2> QED BY <1>5, <1>6, <2>3, <2>4
  <1>7. ASSUME NEW w \in held, \A x \in held : w <= x,
               busy' = [busy EXCEPT ![cb[t]] = @ \cup {x \in todo : x < w}],
               way' = [way EXCEPT ![t] = w],
               pc' = [pc EXCEPT ![t] = "wait"]
        PROVE  \E S \in SUBSET Ways :
                  /\ S \cap busy[cb[t]] = {}
                  /\ busy' = [busy EXCEPT ![cb[t]] = @ \cup S]
                  /\ Holds(t)' = Holds(t) \cup S
                  /\ \A u \in Thread \ {t} : Holds(u)' = Holds(u)
    <2> DEFINE S == {x \in todo : x < w}
    <2>1. pc'[t] = "wait" /\ way'[t] = w
      BY <1>7 DEF TypeOK
    <2>2. Holds(t)' = {x \in need : x < w}
      BY <2>1, <1>3 DEF Holds
    <2>3. w \in Int /\ w >= way[t]
      BY <1>1
    <2>4. Holds(t)' = Holds(t) \cup S
      <3>1. \A x \in need : x < w <=> x < way[t] \/ (x >= way[t] /\ x < w)
        BY <1>1, <2>3
      <3>2. {x \in need : x < w} = {x \in need : x < way[t]} \cup S
        BY <3>1
      <3> QED BY <1>2, <2>2, <3>2
    <2>5. S \in SUBSET Ways
      BY <1>1
    <2>6. S \cap busy[cb[t]] = {}
      <3>1. \A x \in S : x \in held => FALSE
        BY <1>1, <1>7, <2>3
      <3> QED BY <3>1
    <2> HIDE DEF S
    <2>7. busy' = [busy EXCEPT ![cb[t]] = @ \cup S]
      BY <1>7 DEF S
    <2> QED BY <1>5, <2>4, <2>5, <2>6, <2>7
  <1> QED BY <1>6, <1>7 DEF LockWays

\* The subsets of one thread grow by free ones.
LEMMA WaysGrow ==
    ASSUME TypeOK, Control, WayInv, NEW t \in Thread, cb[t] \in Block, NEW S \in SUBSET Ways,
           S \cap busy[cb[t]] = {},
           busy' = [busy EXCEPT ![cb[t]] = @ \cup S],
           Holds(t)' = Holds(t) \cup S,
           \A u \in Thread \ {t} : Holds(u)' = Holds(u),
           UNCHANGED <<cb, refs>>
    PROVE  WayInv'
  <1>1. Disjoint'
    BY DEF WayInv, Disjoint, HeldAreBusy, TypeOK
  <1>2. HeldAreBusy'
    BY DEF WayInv, HeldAreBusy, TypeOK
  <1>3. BusyAreHeld'
    BY DEF WayInv, BusyAreHeld, TypeOK
  <1> QED BY <1>1, <1>2, <1>3 DEF WayInv

\* Steps that neither lock nor unlock.
LEMMA WaysKept ==
    ASSUME WayInv, \A u \in Thread : Holds(u)' = Holds(u), UNCHANGED <<busy, cb, refs>>
    PROVE  WayInv'
  BY DEF WayInv, Disjoint, HeldAreBusy, BusyAreHeld

\* A thread that is done unlocks what it locked, and only that.
LEMMA WaysFinish ==
    ASSUME TypeOK, Control, WayInv, NEW t \in Thread, Finish(t)
    PROVE  WayInv'
  <1>1. cb[t] \in Block
    BY DEF Finish, Control, InCall
  <1>2. UNCHANGED <<cb, refs, req, way>>
    BY DEF Finish, cacheVars, callVars
  <1>3. Holds(t)' = {} /\ \A u \in Thread \ {t} : Holds(u)' = Holds(u)
    BY <1>2 DEF Finish, SignalAll, Holds, TypeOK
  <1>4. CASE req[t].op \in Reads
    <2>1. Holds(t) = {} /\ UNCHANGED busy
      BY <1>4 DEF Holds, Need, Finish, Reads, SingleCreates
    <2> QED BY <1>2, <1>3, <2>1, WaysKept
  <1>5. CASE req[t].op \notin Reads
    <2>1. Holds(t) = Need(req[t])
      BY <1>5, NeedType DEF Finish, Holds, Control, TypeOK, Ways
    <2>2. busy' = [busy EXCEPT ![cb[t]] = @ \ Holds(t)]
      BY <1>5, <2>1 DEF Finish
    <2>3. Disjoint'
      BY <1>2, <1>3 DEF WayInv, Disjoint
    <2>4. HeldAreBusy'
      BY <1>1, <1>2, <1>3, <2>2 DEF WayInv, HeldAreBusy, Disjoint, TypeOK
    <2>5. BusyAreHeld'
      BY <1>1, <1>2, <1>3, <2>2 DEF WayInv, BusyAreHeld, TypeOK
    <2> QED BY <2>3, <2>4, <2>5 DEF WayInv
  <1> QED BY <1>4, <1>5

LEMMA WaysInner ==
    ASSUME TypeOK, Control, WayInv, NEW t \in Thread, Inner(t)
    PROVE  WayInv'
  <1>1. UNCHANGED <<cb, req, startino, refs>>
    BY InnerKeeps DEF cacheVars, callVars
  <1>2. CASE Reject(t)
    <2>1. UNCHANGED <<busy, way>> /\ \A u \in Thread : Holds(u)' = Holds(u)
      BY <1>1, <1>2 DEF Reject, Fail, Holds, blockVars, TypeOK
    <2> QED BY <1>1, <2>1, WaysKept
  <1>3. CASE /\ Enter(t) \/ Retry(t)
             /\ req[t].op \notin Reads
             /\ LockWays(t)
    <2>1. /\ cb[t] \in Block
          /\ pc[t] \in {"enter", "retry"}
          /\ UNCHANGED <<callVars, m>>
      BY <1>3 DEF Enter, Retry, Control, InCall
    <2>2. PICK S \in SUBSET Ways :
              /\ S \cap busy[cb[t]] = {}
              /\ busy' = [busy EXCEPT ![cb[t]] = @ \cup S]
              /\ Holds(t)' = Holds(t) \cup S
              /\ \A u \in Thread \ {t} : Holds(u)' = Holds(u)
      BY <1>3, <2>1, LockWaysHolds
    <2> QED BY <1>1, <2>1, <2>2, WaysGrow
  <1>4. CASE Enter(t) /\ ~(req[t].op \notin Reads /\ LockWays(t))
    <2>1. UNCHANGED <<busy, way>>
      BY <1>4 DEF Enter
    <2>2. \A u \in Thread : Holds(u)' = Holds(u)
      BY <1>1, <1>4, <2>1 DEF Enter, Fail, Holds, TypeOK
    <2> QED BY <1>1, <2>1, <2>2, WaysKept
  <1>5. CASE Wakeup(t) \/ Check(t) \/ Put(t) \/ BulkPut(t)
    <2>1. UNCHANGED <<busy, way>>
      BY <1>5 DEF Wakeup, Check, Put, BulkPut, blockVars
    <2>2. \A u \in Thread : Holds(u)' = Holds(u)
      BY <1>1, <1>5, <2>1 DEF Wakeup, Check, Put, BulkPut, Done, Holds, TypeOK
    <2> QED BY <1>1, <2>1, <2>2, WaysKept
  <1>6. CASE Read(t)
    <2>1. UNCHANGED <<busy, way>>
      BY <1>6 DEF Read, blockVars
    <2>2. Need(req[t]) = {}
      BY <1>6 DEF Read, Control, Need, Reads, SingleCreates
    <2>3. \A u \in Thread : Holds(u)' = Holds(u)
      BY <1>1, <1>6, <2>1, <2>2 DEF Read, Done, Holds, TypeOK
    <2> QED BY <1>1, <2>1, <2>3, WaysKept
  <1>7. CASE Finish(t)
    BY <1>7, WaysFinish
  <1>8. Retry(t) => req[t].op \notin Reads /\ LockWays(t)
    BY DEF Retry, Control
  <1> QED BY <1>2, <1>3, <1>4, <1>5, <1>6, <1>7, <1>8 DEF Inner

LEMMA WaysBegin ==
    ASSUME BlockInv, Room, WayInv, NEW t \in Thread, NEW r \in Request, Begin(t, r)
    PROVE  WayInv'
  <1>1. PICK b \in Block : AcquireDir(r.dir, b) /\ cb' = [cb EXCEPT ![t] = b]
    BY DEF Begin
  <1>2. Acquired(r.dir, b)
    BY <1>1, CallFacts, AcquireDirExact DEF Begin
  <1>3. Holds(t) = {} /\ Holds(t)' = {} /\ \A u \in Thread \ {t} : Holds(u)' = Holds(u)
    BY DEF Begin, Holds, BlockInv, TypeOK
  <1>4. \A u \in Thread \ {t} : cb'[u] = cb[u]
    BY <1>1
  <1>5. cb'[t] = b /\ cb[t] \notin Block
    BY <1>1 DEF Begin, BlockInv, Control, InCall, TypeOK
  <1>6. refs[b] = 0 => \A u \in Thread : cb[u] # b
    BY UserKeepsAlive DEF BlockInv, Blocks
  <1>7. /\ \A x \in Block \ {b} : busy'[x] = busy[x] /\ (refs'[x] > 0 => refs[x] > 0)
        /\ \/ refs[b] > 0 /\ busy'[b] = busy[b]
           \/ refs[b] = 0 /\ busy'[b] = {}
    <2>1. busy \in [Block -> SUBSET Ways]
      BY DEF BlockInv, TypeOK
    <2>2. /\ \A x \in Block \ {b} : refs'[x] > 0 => refs[x] > 0
          /\ \/ refs[b] > 0 /\ UNCHANGED busy
             \/ refs[b] = 0 /\ busy' = [busy EXCEPT ![b] = {}]
      BY <1>2 DEF Acquired
    <2> QED BY <2>1, <2>2
  <1>8. Disjoint'
    BY <1>3, <1>4, <1>5 DEF WayInv, Disjoint
  <1>9. HeldAreBusy'
    BY <1>3, <1>4, <1>5, <1>6, <1>7 DEF WayInv, HeldAreBusy
  <1>10. BusyAreHeld'
    BY <1>3, <1>4, <1>5, <1>6, <1>7 DEF WayInv, BusyAreHeld
  <1> QED BY <1>8, <1>9, <1>10 DEF WayInv

LEMMA WaysReturn ==
    ASSUME BlockInv, WayInv, NEW t \in Thread, Return(t)
    PROVE  WayInv'
  <1>1. cb[t] \in Block /\ cb' = [cb EXCEPT ![t] = NULL] /\ UNCHANGED busy
    BY DEF Return, BlockInv, Control, InCall, ReleaseDir, blockVars
  <1>2. refs[cb[t]] > 0
    BY <1>1, UserKeepsAlive DEF BlockInv, Blocks
  <1>3. \A x \in Block : refs'[x] > 0 => refs[x] > 0
    BY <1>1, <1>2 DEF Return, ReleaseDir, dlru!Release, BlockInv, TypeOK
  <1>4. Holds(t) = {} /\ Holds(t)' = {} /\ \A u \in Thread \ {t} : Holds(u)' = Holds(u)
    BY DEF Return, Holds, BlockInv, TypeOK
  <1>5. cb'[t] \notin Block /\ \A u \in Thread \ {t} : cb'[u] = cb[u]
    BY <1>1 DEF BlockInv, TypeOK
  <1>6. Disjoint' /\ HeldAreBusy'
    BY <1>1, <1>4, <1>5 DEF WayInv, Disjoint, HeldAreBusy
  <1>7. BusyAreHeld'
    BY <1>1, <1>3, <1>4, <1>5 DEF WayInv, BusyAreHeld
  <1> QED BY <1>6, <1>7 DEF WayInv

LEMMA WaysClose ==
    ASSUME BlockInv, WayInv, Close
    PROVE  WayInv'
  <1>1. UNCHANGED <<cb, req, pc, way, busy>>
    BY DEF Close, callVars, blockVars
  <1>2. \A u \in Thread : Holds(u)' = Holds(u)
    BY <1>1 DEF Holds
  <1>3. \A b \in Block : refs'[b] > 0 => refs[b] > 0
    BY DEF Close, dlru!Evict, dlru!Dropped, dlru!Idle, BlockInv, TypeOK
  <1> QED BY <1>1, <1>2, <1>3 DEF WayInv, Disjoint, HeldAreBusy, BusyAreHeld

LEMMA WayNext == BlockInv /\ Room /\ WayInv /\ [Next]_vars => WayInv'
  <1> SUFFICES ASSUME BlockInv, Room, WayInv, [Next]_vars PROVE WayInv'
    OBVIOUS
  <1>1. ASSUME NEW t \in Thread, NEW r \in Request, Begin(t, r) PROVE WayInv'
    BY <1>1, WaysBegin
  <1>2. ASSUME NEW t \in Thread, Inner(t) PROVE WayInv'
    BY <1>2, WaysInner DEF BlockInv
  <1>3. ASSUME NEW t \in Thread, Return(t) PROVE WayInv'
    BY <1>3, WaysReturn
  <1>4. CASE Close
    BY <1>4, WaysClose
  <1>5. CASE UNCHANGED vars
    BY <1>5, WaysKept DEF vars, cacheVars, blockVars, callVars, Holds
  <1> QED BY <1>1, <1>2, <1>3, <1>4, <1>5 DEF Next, Step, Inner, Closed

LEMMA WayInit == Init => WayInv
  BY DEF Init, WayInv, Disjoint, HeldAreBusy, BusyAreHeld, Holds, dlru!Init

LEMMA WayInvariant == Spec => [](BlockInv /\ WayInv)
  <1>1. Init => BlockInv /\ Room /\ WayInv
    BY BlockInit, WayInit
  <1>2. BlockInv /\ Room /\ WayInv /\ [Next]_vars => (BlockInv /\ Room /\ WayInv)'
    BY BlockNext, WayNext
  <1> QED BY <1>1, <1>2, PTL DEF Spec

\* Calls on one directory work on one control block.
LEMMA SameDirSameBlock ==
    ASSUME BlockInv, NEW t \in Thread, NEW u \in Thread, InCall(t), InCall(u),
           req[t].dir = req[u].dir
    PROVE  cb[t] \in Block /\ cb[t] = cb[u]
  <1>1. cb[t] \in Block /\ cb[u] \in Block
    BY DEF BlockInv, Control
  <1>2. refs[cb[t]] > 0 /\ refs[cb[u]] > 0
    BY <1>1, UserKeepsAlive DEF BlockInv, Blocks
  <1>3. id[cb[t]] = req[t].dir /\ id[cb[u]] = req[u].dir
    BY DEF BlockInv, Blocks, RightBlock
  <1>4. dirs[id[cb[t]]] = cb[t] /\ dirs[id[cb[u]]] = cb[u]
    BY <1>1, <1>2 DEF BlockInv, Blocks, TableExact
  <1> QED BY <1>1, <1>3, <1>4

\* No two calls hold the same name subset of a directory, and every flag that is
\* set belongs to a call that will clear it.
THEOREM WaysAreExclusive == Spec => []WaysExclusive
  <1>1. BlockInv /\ WayInv => WaysExclusive
    <2> SUFFICES ASSUME BlockInv, WayInv PROVE WaysExclusive
      OBVIOUS
    <2>1. ASSUME NEW t \in Thread, NEW u \in Thread, t # u, InCall(t), InCall(u),
                 req[t].dir = req[u].dir
          PROVE  Holds(t) \cap Holds(u) = {}
      BY <2>1, SameDirSameBlock DEF WayInv, Disjoint
    <2>2. ASSUME NEW b \in dlru!Live
          PROVE  busy[b] = UNION {Holds(t) : t \in Users(b)}
      <3>1. b \in Block /\ refs[b] > 0
        BY DEF dlru!Live
      <3>2. \A w \in busy[b] : \E t \in Users(b) : w \in Holds(t)
        BY <3>1 DEF WayInv, BusyAreHeld, Users
      <3>3. \A t \in Users(b) : Holds(t) \subseteq busy[b]
        BY <3>1 DEF WayInv, HeldAreBusy, Users
      <3> QED BY <3>2, <3>3
    <2> QED BY <2>1, <2>2 DEF WaysExclusive
  <1> QED BY <1>1, WayInvariant, PTL

(***************************************************************************)
(* What a create found free stays free until it stores its own stat there. *)
(***************************************************************************)
NextSlot(t) == SlotOf(req[t], m[t] + 1)

StillFree == \A t \in Thread :
    (pc[t] = "put" /\ ~SkipNameCollisionChecks) => DbGet(NextSlot(t)) = NoEnt

\* A create is at a name of its directory whose subset it holds.
LEMMA CreateHolds ==
    ASSUME TypeOK, Control, NEW t \in Thread, pc[t] \in {"check", "put"}
    PROVE  /\ NextSlot(t) \in Slot
           /\ NextSlot(t)[1] = req[t].dir
           /\ NextSlot(t)[2] \in Name
           /\ WayOf[NextSlot(t)[2]] \in Holds(t)
  <1> DEFINE n == req[t].names[m[t] + 1]
  <1>1. req[t] \in Request /\ m[t] \in Nat /\ m[t] < Len(req[t].names)
        /\ req[t].op \in Creates /\ way[t] = kWays
    BY DEF TypeOK, Control
  <1>2. m[t] + 1 \in 1 .. Len(req[t].names)
    BY <1>1, CallFacts
  <1>3. n \in Name /\ NextSlot(t) \in Slot /\ NextSlot(t) = <<req[t].dir, n>>
    <2>1. \A i \in 1 .. Len(req[t].names) : req[t].names[i] \in Name /\ SlotOf(req[t], i) \in Slot
      BY <1>1, CallFacts
    <2> QED BY <1>2, <2>1 DEF NextSlot, SlotOf
  <1>4. WayOf[n] \in Ways /\ WayOf[n] < kWays
    BY <1>3 DEF Ways
  <1>5. WayOf[n] \in Need(req[t])
    <2>1. CASE req[t].op \in SingleCreates
      <3>1. Len(req[t].names) = 1
        BY <1>1, <2>1, CallFacts
      <3>2. m[t] = 0
        BY <1>1, <3>1
      <3> QED BY <2>1, <3>2 DEF Need
    <2>2. CASE req[t].op \notin SingleCreates
      BY <1>1, <1>4, <2>2 DEF Need, Creates
    <2> QED BY <2>1, <2>2
  <1>6. WayOf[n] \in Holds(t)
    BY <1>1, <1>4, <1>5 DEF Holds
  <1> QED BY <1>3, <1>6

\* So no other call stores at that name in the meantime.
LEMMA NobodyElseStores ==
    ASSUME BlockInv, WayInv, NEW t \in Thread, NEW u \in Thread, t # u, pc[t] = "put"
    PROVE  /\ pc[u] = "put" => NextSlot(u) # NextSlot(t)
           /\ pc[u] = "bulk" => NextSlot(t) \notin BulkSlots(req[u])
  <1>1. TypeOK /\ Control
    BY DEF BlockInv
  <1>2. /\ NextSlot(t)[1] = req[t].dir /\ NextSlot(t)[2] \in Name
        /\ WayOf[NextSlot(t)[2]] \in Holds(t)
    BY <1>1, CreateHolds
  <1>3. (InCall(u) /\ req[u].dir = req[t].dir) => Holds(t) \cap Holds(u) = {}
    BY SameDirSameBlock DEF WayInv, Disjoint, InCall
  <1>4. ASSUME pc[u] = "put", NextSlot(u) = NextSlot(t) PROVE FALSE
    <2>1. NextSlot(u)[1] = req[u].dir /\ WayOf[NextSlot(u)[2]] \in Holds(u)
      BY <1>1, <1>4, CreateHolds
    <2> QED BY <1>2, <1>3, <1>4, <2>1 DEF InCall
  <1>5. ASSUME pc[u] = "bulk", NextSlot(t) \in BulkSlots(req[u]) PROVE FALSE
    <2>1. NextSlot(t)[1] = req[u].dir
      BY <1>5 DEF BulkSlots, SlotOf
    <2>2. Holds(u) = Ways
      BY <1>1, <1>5 DEF Control, Holds, Need, Ways, SingleCreates
    <2>3. WayOf[NextSlot(t)[2]] \in Ways
      BY <1>2
    <2> QED BY <1>2, <1>3, <1>5, <2>1, <2>2, <2>3 DEF InCall
  <1> QED BY <1>4, <1>5

LEMMA StillFreeNext == BlockInv /\ WayInv /\ StillFree /\ [Next]_vars => StillFree'
  <1> SUFFICES ASSUME BlockInv, WayInv, StillFree, [Next]_vars, NEW t \in Thread,
                      pc'[t] = "put", ~SkipNameCollisionChecks
               PROVE  DbGet(NextSlot(t))' = NoEnt
    BY DEF StillFree
  <1>1. CASE pc[t] = "put" /\ UNCHANGED <<req, m, db>>
    BY <1>1 DEF StillFree, DbGet, NextSlot
  <1>2. ASSUME NEW u \in Thread, Put(u) PROVE DbGet(NextSlot(t))' = NoEnt
    <2>1. u # t
      BY <1>2 DEF Put, Done, BlockInv, TypeOK
    <2>2. pc[t] = "put" /\ pc[u] = "put" /\ m'[t] = m[t] /\ req' = req
      BY <1>2, <2>1 DEF Put, Done, callVars, BlockInv, TypeOK
    <2>3. NextSlot(t)' = NextSlot(t) /\ NextSlot(u) # NextSlot(t) /\ NextSlot(t) \in Slot
      BY <2>1, <2>2, NobodyElseStores, CreateHolds DEF NextSlot, BlockInv
    <2>4. db'[NextSlot(t)] = db[NextSlot(t)]
      BY <1>2, <2>3 DEF Put, NextSlot, BlockInv, TypeOK
    <2> QED BY <2>2, <2>3, <2>4 DEF DbGet, StillFree
  <1>3. ASSUME NEW u \in Thread, BulkPut(u) PROVE DbGet(NextSlot(t))' = NoEnt
    <2>1. u # t
      BY <1>3 DEF BulkPut, Done, BlockInv, TypeOK
    <2>2. pc[t] = "put" /\ pc[u] = "bulk" /\ m' = m /\ req' = req
      BY <1>3, <2>1 DEF BulkPut, Done, callVars, BlockInv, TypeOK
    <2>3. /\ NextSlot(t)' = NextSlot(t) /\ NextSlot(t) \in Slot
          /\ NextSlot(t) \notin BulkSlots(req[u])
      BY <2>1, <2>2, NobodyElseStores, CreateHolds DEF NextSlot, BlockInv
    <2>4. db'[NextSlot(t)] = db[NextSlot(t)]
      BY <1>3, <2>3 DEF BulkPut, BlockInv, TypeOK
    <2> QED BY <2>2, <2>3, <2>4 DEF DbGet, StillFree
  <1>4. ASSUME NEW u \in Thread, Check(u) PROVE DbGet(NextSlot(t))' = NoEnt
    <2>1. UNCHANGED <<req, m, db>>
      BY <1>4 DEF Check, callVars
    <2>2. CASE u = t
      BY <1>4, <2>1, <2>2 DEF Check, Done, NextSlot, DbGet, BlockInv, TypeOK
    <2>3. CASE u # t
      BY <1>1, <1>4, <2>1, <2>3 DEF Check, Done, BlockInv, TypeOK
    <2> QED BY <2>2, <2>3
  <1>5. ASSUME NEW u \in Thread, \/ Reject(u) \/ Enter(u) \/ Wakeup(u) \/ Retry(u)
                                 \/ Read(u) \/ Finish(u)
        PROVE  DbGet(NextSlot(t))' = NoEnt
    <2>1. UNCHANGED <<req, m, db>>
      BY <1>5 DEF Reject, Enter, Wakeup, Retry, Read, Finish, callVars
    <2>2. pc[t] = "put"
      <3>1. CASE (Enter(u) \/ Retry(u)) /\ LockWays(u)
        <4>1. cb[u] \in Block
          BY <3>1 DEF Enter, Retry, BlockInv, Control, InCall
        <4>2. /\ \A v \in Thread \ {u} : pc'[v] = pc[v]
              /\ pc'[u] \in {"wait", Locked(req[u])}
          BY <3>1, <4>1, LockWaysStep DEF BlockInv
        <4> QED BY <4>2 DEF Locked
      <3>2. CASE ~((Enter(u) \/ Retry(u)) /\ LockWays(u))
        BY <1>5, <3>2 DEF Reject, Enter, Wakeup, Retry, Read, Finish, Fail, Done,
                          SignalAll, BlockInv, TypeOK
      <3> QED BY <3>1, <3>2
    <2> QED BY <1>1, <2>1, <2>2
  <1>6. ASSUME NEW u \in Thread, NEW r \in Request, Begin(u, r) \/ Return(u)
        PROVE  DbGet(NextSlot(t))' = NoEnt
    <2>1. u # t /\ pc[t] = "put"
      BY <1>6 DEF Begin, Return, BlockInv, TypeOK
    <2>2. req'[t] = req[t] /\ m'[t] = m[t] /\ db' = db
      BY <1>6, <2>1 DEF Begin, Return, BlockInv, TypeOK
    <2> QED BY <2>1, <2>2 DEF StillFree, DbGet, NextSlot
  <1>7. CASE Close \/ UNCHANGED vars
    BY <1>1, <1>7 DEF Close, vars, callVars
  <1> QED BY <1>2, <1>3, <1>4, <1>5, <1>6, <1>7 DEF Next, Step, Closed

\* No create stores a name that exists: in the two db calls of CheckAndPut, what
\* the first one found is still so when the second one runs.
THEOREM CreatesNeverOverwrite == Spec => NoOverwrite
  <1> DEFINE A == \A s \in Slot :
                    (DbGet(s) # NoEnt /\ db'[s] # db[s] /\ ~SkipNameCollisionChecks)
                       => \E t \in Thread : pc[t] = "bulk" /\ s \in BulkSlots(req[t])
  <1>1. Init => StillFree
    BY DEF Init, StillFree
  <1>2. BlockInv /\ StillFree /\ [Next]_vars => [A]_vars
    <2> SUFFICES ASSUME BlockInv, StillFree, Next PROVE A
      OBVIOUS
    <2>1. CASE UNCHANGED db
      BY <2>1
    <2>2. ASSUME NEW u \in Thread, Put(u) PROVE A
      <3>1. NextSlot(u) \in Slot /\ (SkipNameCollisionChecks \/ DbGet(NextSlot(u)) = NoEnt)
        BY <2>2, CreateHolds DEF Put, StillFree, BlockInv
      <3>2. \A s \in Slot : s # NextSlot(u) => db'[s] = db[s]
        BY <2>2 DEF Put, NextSlot, BlockInv, TypeOK
      <3> QED BY <3>1, <3>2
    <2>3. ASSUME NEW u \in Thread, BulkPut(u) PROVE A
      BY <2>3 DEF BulkPut, BlockInv, TypeOK
    <2>4. ASSUME NEW u \in Thread, NEW r \in Request,
                 \/ Begin(u, r) \/ Reject(u) \/ Enter(u) \/ Wakeup(u) \/ Retry(u)
                 \/ Check(u) \/ Read(u) \/ Finish(u) \/ Return(u)
          PROVE  UNCHANGED db
      BY <2>4 DEF Begin, Reject, Enter, Wakeup, Retry, Check, Read, Finish, Return
    <2>5. Close \/ UNCHANGED vars => UNCHANGED db
      BY DEF Close, vars
    <2> QED BY <2>1, <2>2, <2>3, <2>4, <2>5 DEF Next, Step, Closed
  <1> QED BY <1>1, <1>2, StillFreeNext, WayInvariant, PTL DEF Spec, NoOverwrite
-----------------------------------------------------------------------------
(***************************************************************************)
(* Proof that no inode number is stored twice, although calls that fail    *)
(* give the ones they did not use back to inoq_.                           *)
(***************************************************************************)
\* The inode numbers a call was given, and those of them it has not stored.  In
\* contrast to Reserved, a call keeps them until it has returned.
Given(t) == IF InCall(t) /\ req[t].op \in Creates
            THEN startino[t] .. LastIno(t) ELSE {}
Left(t) == IF InCall(t) /\ req[t].op \in Creates
           THEN startino[t] + m[t] .. LastIno(t) ELSE {}

GivenBelow == \A t \in Thread : \A x \in Given(t) : x <= inoq

GivenDisjoint == \A t, u \in Thread : t # u => Given(t) \cap Given(u) = {}

StoredBelow == \A s \in Slot : db[s].ino <= inoq

StoredNotLeft == \A s \in Slot : \A t \in Thread : db[s].ino \notin Left(t)

StoredOnce == \A s1, s2 \in Slot :
    (s1 # s2 /\ db[s1].ino > 0) => db[s1].ino # db[s2].ino

InoInv == GivenBelow /\ GivenDisjoint /\ StoredBelow /\ StoredNotLeft /\ StoredOnce

\* All inode numbers are numbers, and what is left was given.
LEMMA InoFacts ==
    ASSUME TypeOK, Control
    PROVE  /\ inoq \in Nat
           /\ \A s \in Slot : db[s].ino \in Nat
           /\ \A t \in Thread : /\ startino[t] \in Nat
                                /\ m[t] \in Nat
                                /\ InoCount(req[t]) \in Nat
                                /\ LastIno(t) \in Int
                                /\ Left(t) \subseteq Given(t)
                                /\ InCall(t) => startino[t] > 0
  <1>1. inoq \in Nat /\ \A s \in Slot : db[s].ino \in Nat
    <2>1. \A x \in Stat \cup {NoEnt} : x.ino \in Nat
      BY DEF Stat, NoEnt
    <2> QED BY <2>1 DEF TypeOK
  <1>2. \A t \in Thread : startino[t] \in Nat /\ m[t] \in Nat /\ InoCount(req[t]) \in Nat
    BY CallFacts DEF TypeOK
  <1>3. \A t \in Thread : LastIno(t) \in Int
    BY <1>2 DEF LastIno
  <1>4. \A t \in Thread : Left(t) \subseteq Given(t)
    BY <1>2, <1>3 DEF Left, Given
  <1>5. \A t \in Thread : InCall(t) => startino[t] > 0
    BY DEF Control
  <1> QED BY <1>1, <1>2, <1>3, <1>4, <1>5

LEMMA InoInit == Init => InoInv
  <1> SUFFICES ASSUME Init PROVE InoInv
    OBVIOUS
  <1>1. \A s \in Slot : db[s].ino = 0
    BY DEF Init, NoEnt
  <1>2. \A t \in Thread : Given(t) = {} /\ Left(t) = {}
    BY DEF Init, Given, Left, InCall
  <1> QED BY <1>1, <1>2 DEF Init, InoInv, GivenBelow, GivenDisjoint, StoredBelow,
             StoredNotLeft, StoredOnce

\* Steps that touch no inode number.
LEMMA InoKept ==
    ASSUME InoInv, UNCHANGED <<db, inoq>>,
           \A t \in Thread : Given(t)' = Given(t) /\ Left(t)' = Left(t)
    PROVE  InoInv'
  BY DEF InoInv, GivenBelow, GivenDisjoint, StoredBelow, StoredNotLeft, StoredOnce

\* A call is given numbers above all others.
LEMMA InoBegin ==
    ASSUME TypeOK, Control, InoInv, NEW t \in Thread, NEW r \in Request, Begin(t, r)
    PROVE  InoInv'
  <1>1. /\ InoCount(r) \in Nat /\ inoq' = inoq + InoCount(r) /\ db' = db
        /\ inoq \in Nat
    BY CallFacts DEF Begin, TypeOK
  <1>2. \A u \in Thread \ {t} : Given(u)' = Given(u) /\ Left(u)' = Left(u)
    BY DEF Begin, Given, Left, LastIno, InCall, TypeOK
  <1>3. Given(t) = {} /\ Left(t) = {}
    BY DEF Begin, Given, Left, InCall
  <1>4. /\ req'[t] = r /\ startino'[t] = inoq + 1 /\ m'[t] = 0
    BY DEF Begin, TypeOK
  <1>5. \A x \in Given(t)' : x > inoq /\ x <= inoq'
    BY <1>1, <1>4 DEF Given, LastIno
  <1>6. \A x \in Left(t)' : x > inoq
    BY <1>1, <1>4 DEF Left, LastIno
  <1>7. \A u \in Thread : \A x \in Given(u) : x \in Int
    BY InoFacts DEF Given
  <1>8. \A s \in Slot : db[s].ino \in Nat
    BY InoFacts
  <1>9. GivenBelow'
    BY <1>1, <1>2, <1>5, <1>7 DEF InoInv, GivenBelow
  <1>10. GivenDisjoint'
    BY <1>1, <1>2, <1>5, <1>7 DEF InoInv, GivenBelow, GivenDisjoint
  <1>11. StoredBelow'
    BY <1>1, <1>8 DEF InoInv, StoredBelow
  <1>12. StoredNotLeft'
    BY <1>1, <1>2, <1>6, <1>8 DEF InoInv, StoredBelow, StoredNotLeft
  <1>13. StoredOnce'
    BY <1>1 DEF InoInv, StoredOnce
  <1> QED BY <1>9, <1>10, <1>11, <1>12, <1>13 DEF InoInv

\* A create stores the first number it has left.
LEMMA InoPut ==
    ASSUME TypeOK, Control, InoInv, NEW t \in Thread, Put(t)
    PROVE  InoInv'
  <1>1. /\ UNCHANGED <<inoq, req, startino>>
        /\ \A u \in Thread : InCall(u)' <=> InCall(u)
    BY InnerKeeps DEF Inner, callVars
  <1>2. InCall(t) /\ req[t].op \in Creates /\ m[t] < Len(req[t].names)
    BY DEF Put, Control, InCall
  <1>3. \A u \in Thread : Given(u)' = Given(u)
    BY <1>1 DEF Given, LastIno
  <1>4. CASE UNCHANGED <<db, m>>
    <2>1. \A u \in Thread : Left(u)' = Left(u)
      BY <1>1, <1>4 DEF Left, LastIno
    <2> QED BY <1>1, <1>3, <1>4, <2>1, InoKept
  <1>5. CASE /\ db' = [db EXCEPT ![SlotOf(req[t], m[t] + 1)] = NewStat(t)]
             /\ m' = [m EXCEPT ![t] = @ + 1]
    <2> DEFINE s0 == SlotOf(req[t], m[t] + 1)
               x0 == startino[t] + m[t]
    <2>1. x0 \in Nat /\ x0 > 0 /\ x0 \in Left(t) /\ x0 \in Given(t)
      <3>1. InoCount(req[t]) = Len(req[t].names) /\ Len(req[t].names) \in Nat
        BY <1>2, CallFacts DEF InoCount, TypeOK
      <3>2. /\ LastIno(t) \in Int /\ startino[t] > 0 /\ startino[t] \in Nat /\ m[t] \in Nat
            /\ LastIno(t) = startino[t] + Len(req[t].names) - 1
        BY <1>2, <3>1, InoFacts DEF LastIno
      <3>3. x0 <= LastIno(t) /\ x0 \in Nat
        BY <1>2, <3>1, <3>2
      <3> QED BY <1>2, <3>2, <3>3 DEF Left, Given
    <2>2. Left(t)' = Left(t) \ {x0} /\ \A u \in Thread \ {t} : Left(u)' = Left(u)
      <3>1. m'[t] = m[t] + 1 /\ \A u \in Thread \ {t} : m'[u] = m[u]
        BY <1>5 DEF TypeOK
      <3>2. startino[t] \in Nat /\ m[t] \in Nat /\ LastIno(t) \in Int /\ LastIno(t)' = LastIno(t)
        BY <1>1, InoFacts DEF LastIno
      <3>3. (x0 + 1) .. LastIno(t) = (x0 .. LastIno(t)) \ {x0}
        BY <3>2
      <3>4. Left(t)' = (x0 + 1) .. LastIno(t)
        BY <1>1, <1>2, <3>1, <3>2 DEF Left
      <3>5. Left(t) = x0 .. LastIno(t)
        BY <1>2 DEF Left
      <3>6. \A u \in Thread \ {t} : Left(u)' = Left(u)
        BY <1>1, <3>1 DEF Left, LastIno
      <3> QED BY <3>3, <3>4, <3>5, <3>6
    <2>3. \A s \in Slot : db'[s].ino = IF s = s0 THEN x0 ELSE db[s].ino
      BY <1>5 DEF NewStat, TypeOK
    <2>4. \A u \in Thread \ {t} : x0 \notin Left(u)
      BY <2>1, InoFacts DEF InoInv, GivenDisjoint
    <2> HIDE DEF s0, x0
    <2>5. GivenBelow' /\ GivenDisjoint'
      BY <1>1, <1>3 DEF InoInv, GivenBelow, GivenDisjoint
    <2>6. StoredBelow'
      BY <1>1, <2>1, <2>3 DEF InoInv, StoredBelow, GivenBelow
    <2>7. StoredNotLeft'
      BY <2>2, <2>3, <2>4 DEF InoInv, StoredNotLeft
    <2>8. StoredOnce'
      BY <2>1, <2>3 DEF InoInv, StoredOnce, StoredNotLeft
    <2> QED BY <2>5, <2>6, <2>7, <2>8 DEF InoInv
  <1> QED BY <1>4, <1>5 DEF Put

\* A bulk insertion stores no inode number.
LEMMA InoBulkPut ==
    ASSUME TypeOK, Control, InoInv, NEW t \in Thread, BulkPut(t)
    PROVE  InoInv'
  <1>1. /\ UNCHANGED <<inoq, req, startino, m>>
        /\ \A u \in Thread : InCall(u)' <=> InCall(u)
    BY InnerKeeps DEF Inner, callVars, BulkPut
  <1>2. \A u \in Thread : Given(u)' = Given(u) /\ Left(u)' = Left(u)
    BY <1>1 DEF Given, Left, LastIno
  <1>3. \A s \in Slot : db'[s].ino = db[s].ino \/ db'[s].ino = 0
    BY DEF BulkPut, BulkStat, TypeOK
  <1>4. \A u \in Thread : 0 \notin Left(u)
    BY InoFacts DEF Left
  <1>5. inoq \in Nat /\ \A s \in Slot : db[s].ino \in Nat
    BY InoFacts
  <1> QED BY <1>1, <1>2, <1>3, <1>4, <1>5 DEF InoInv, GivenBelow, GivenDisjoint,
             StoredBelow, StoredNotLeft, StoredOnce

\* A failed call gives numbers back only if they are the last ones given to any.
LEMMA InoReturn ==
    ASSUME TypeOK, Control, InoInv, NEW t \in Thread, Return(t)
    PROVE  InoInv'
  <1>1. InCall(t) /\ db' = db
    BY DEF Return, InCall
  <1>2. \A u \in Thread \ {t} : Given(u)' = Given(u) /\ Left(u)' = Left(u)
    BY DEF Return, Given, Left, LastIno, InCall, TypeOK
  <1>3. Given(t)' = {} /\ Left(t)' = {}
    BY DEF Return, Given, Left, InCall, TypeOK
  <1>4. GivenDisjoint' /\ StoredNotLeft' /\ StoredOnce'
    BY <1>1, <1>2, <1>3 DEF InoInv, GivenDisjoint, StoredNotLeft, StoredOnce
  <1>5. inoq \in Nat /\ startino[t] \in Nat /\ m[t] \in Nat /\ InoCount(req[t]) \in Nat
    BY InoFacts
  <1>6. CASE inoq' = inoq
    BY <1>1, <1>2, <1>3, <1>4, <1>6 DEF InoInv, GivenBelow, StoredBelow
  <1>7. CASE inoq' # inoq
    <2>1. /\ req[t].op \in Creates /\ LastIno(t) = inoq
          /\ inoq' = inoq - (InoCount(req[t]) - m[t])
      BY <1>7, <1>5 DEF Return, TryReuseIno, Unused
    <2>2. inoq' = startino[t] + m[t] - 1 /\ inoq' \in Int
      BY <1>5, <2>1 DEF LastIno
    <2>3. m[t] <= InoCount(req[t])
      BY <2>1 DEF Control, InoCount
    <2>4. inoq' <= inoq
      BY <1>5, <2>1, <2>3
    <2>5. Given(t) = startino[t] .. inoq /\ Left(t) = startino[t] + m[t] .. inoq
      BY <1>1, <2>1 DEF Given, Left
    <2>6. GivenBelow'
      <3> SUFFICES ASSUME NEW u \in Thread \ {t}, NEW x \in Given(u) PROVE x <= inoq'
        BY <1>2, <1>3 DEF GivenBelow
      <3>1. x \in Int /\ x <= inoq /\ x \notin Given(t)
        BY InoFacts DEF InoInv, GivenBelow, GivenDisjoint, Given
      <3> QED BY <3>1, <1>5, <2>2, <2>5
    <2>7. StoredBelow'
      <3> SUFFICES ASSUME NEW s \in Slot PROVE db[s].ino <= inoq'
        BY <1>1 DEF StoredBelow
      <3>1. db[s].ino \in Nat /\ db[s].ino <= inoq /\ db[s].ino \notin Left(t)
        BY InoFacts DEF InoInv, StoredBelow, StoredNotLeft
      <3> QED BY <3>1, <1>5, <2>2, <2>5
    <2> QED BY <1>4, <2>6, <2>7 DEF InoInv
  <1> QED BY <1>6, <1>7

LEMMA InoNext == BlockInv /\ InoInv /\ [Next]_vars => InoInv'
  <1> SUFFICES ASSUME BlockInv, InoInv, [Next]_vars PROVE InoInv'
    OBVIOUS
  <1>1. TypeOK /\ Control
    BY DEF BlockInv
  <1>2. ASSUME NEW t \in Thread, NEW r \in Request, Begin(t, r) PROVE InoInv'
    BY <1>1, <1>2, InoBegin
  <1>3. ASSUME NEW t \in Thread, Put(t) PROVE InoInv'
    BY <1>1, <1>3, InoPut
  <1>4. ASSUME NEW t \in Thread, BulkPut(t) PROVE InoInv'
    BY <1>1, <1>4, InoBulkPut
  <1>5. ASSUME NEW t \in Thread, \/ Reject(t) \/ Enter(t) \/ Wakeup(t) \/ Retry(t)
                                 \/ Check(t) \/ Read(t) \/ Finish(t)
        PROVE  InoInv'
    <2>1. /\ UNCHANGED <<inoq, req, startino>>
          /\ \A u \in Thread : InCall(u)' <=> InCall(u)
      BY <1>1, <1>5, InnerKeeps DEF Inner, callVars
    <2>2. UNCHANGED <<db, m>>
      BY <1>5 DEF Reject, Enter, Wakeup, Retry, Check, Read, Finish
    <2>3. \A u \in Thread : Given(u)' = Given(u) /\ Left(u)' = Left(u)
      BY <2>1, <2>2 DEF Given, Left, LastIno
    <2> QED BY <2>1, <2>2, <2>3, InoKept
  <1>6. ASSUME NEW t \in Thread, Return(t) PROVE InoInv'
    BY <1>1, <1>6, InoReturn
  <1>7. CASE Close \/ UNCHANGED vars
    <2>1. UNCHANGED <<db, inoq, pc, req, startino, m>>
      BY <1>7 DEF Close, vars, callVars
    <2>2. \A u \in Thread : Given(u)' = Given(u) /\ Left(u)' = Left(u)
      BY <2>1 DEF Given, Left, LastIno, InCall
    <2> QED BY <2>1, <2>2, InoKept
  <1> QED BY <1>2, <1>3, <1>4, <1>5, <1>6, <1>7 DEF Next, Step, Closed

\* No inode number is stored under two names, and none that a running call may
\* still store is stored already.
THEOREM InodesAreUnique == Spec => []InoUnique
  <1>1. BlockInv /\ InoInv => InoUnique
    <2> SUFFICES ASSUME BlockInv, InoInv PROVE InoUnique
      OBVIOUS
    <2>1. \A t \in Thread : Reserved(t) \subseteq Left(t) /\ Left(t) \subseteq Given(t)
      BY InoFacts DEF BlockInv, Reserved, Left, InCall
    <2> QED BY <2>1 DEF InoUnique, InoInv, StoredOnce, StoredNotLeft, GivenDisjoint
  <1>2. Init => BlockInv /\ Room /\ InoInv
    BY BlockInit, InoInit
  <1>3. BlockInv /\ Room /\ InoInv /\ [Next]_vars => (BlockInv /\ Room /\ InoInv)'
    BY BlockNext, InoNext
  <1> QED BY <1>1, <1>2, <1>3, PTL DEF Spec
-----------------------------------------------------------------------------
(***************************************************************************)
(* Proof that the server implements Namespace: the creation of a name      *)
(* takes effect at its Put, a lookup at its Read, a bulk insertion at its  *)
(* BulkPut, a failure where the status is set; all other steps are         *)
(* invisible.                                                              *)
(***************************************************************************)
\* A call has no status as long as it has not taken effect.
Undecided == \A t \in Thread :
    code[t] = "Pending" <=> pc[t] \in {"enter", "wait", "retry", "check", "put", "bulk", "read"}

\* A round of the locking loop decides nothing but a batch of no names.
LEMMA LockWaysCode ==
    ASSUME TypeOK, Control, Undecided, NEW t \in Thread, pc[t] \in {"enter", "retry"},
           req[t].op \notin Reads, LockWays(t)
    PROVE  /\ Undecided'
           /\ \/ code' = code
              \/ /\ req[t].op \in Creates /\ req[t].names = <<>>
                 /\ code' = [code EXCEPT ![t] = "OK"]
  <1>1. req[t].op \in Ops
    BY CallFacts DEF TypeOK
  <1>2. CASE /\ pc' = [pc EXCEPT ![t] = Locked(req[t])]
             /\ code' = [code EXCEPT ![t] =
                            IF Locked(req[t]) = "finish" THEN "OK" ELSE @]
    <2>1. CASE Locked(req[t]) = "finish"
      BY <1>1, <1>2, <2>1 DEF Locked, Undecided, TypeOK, Ops
    <2>2. CASE Locked(req[t]) # "finish"
      BY <1>2, <2>2 DEF Locked, Undecided, TypeOK
    <2> QED BY <2>1, <2>2
  <1>3. CASE pc' = [pc EXCEPT ![t] = "wait"] /\ UNCHANGED code
    BY <1>3 DEF Undecided, TypeOK
  <1> QED BY <1>2, <1>3 DEF LockWays

LEMMA UndecidedNext == BlockInv /\ Undecided /\ [Next]_vars => Undecided'
  <1> SUFFICES ASSUME TypeOK, Control, Undecided, [Next]_vars PROVE Undecided'
    BY DEF BlockInv
  <1>1. ASSUME NEW t \in Thread, NEW r \in Request, Begin(t, r) PROVE Undecided'
    BY <1>1 DEF Begin, Undecided, TypeOK
  <1>2. ASSUME NEW t \in Thread, (Enter(t) \/ Retry(t)) /\ LockWays(t) PROVE Undecided'
    <2>1. CASE req[t].op \notin Reads
      BY <1>2, <2>1, LockWaysCode DEF Enter, Retry
    <2>2. CASE req[t].op \in Reads
      <3>1. Enter(t) /\ pc[t] = "enter"
        BY <1>2, <2>2 DEF Enter, Retry, Control
      <3>2. \/ Fail(t, "AccessDenied")
            \/ pc' = [pc EXCEPT ![t] = "read"] /\ UNCHANGED code
        BY <2>2, <3>1 DEF Enter
      <3> QED BY <3>1, <3>2 DEF Fail, Undecided, TypeOK
    <2> QED BY <2>1, <2>2
  <1>3. ASSUME NEW t \in Thread, Reject(t) \/ (Enter(t) /\ ~LockWays(t)) PROVE Undecided'
    BY <1>3 DEF Reject, Enter, Fail, Undecided, TypeOK
  <1>4. ASSUME NEW t \in Thread, Check(t) \/ Put(t) \/ BulkPut(t) \/ Wakeup(t) PROVE Undecided'
    BY <1>4 DEF Check, Put, BulkPut, Wakeup, Done, Undecided, TypeOK
  <1>5. ASSUME NEW t \in Thread, Read(t) PROVE Undecided'
    <2>1. \E c \in Code \ {"Pending"} : Done(t, c)
      BY <1>5 DEF Read, Code
    <2> QED BY <2>1 DEF Done, Undecided, TypeOK
  <1>6. ASSUME NEW t \in Thread, Finish(t) \/ Return(t) PROVE Undecided'
    BY <1>6 DEF Finish, SignalAll, Return, Undecided, TypeOK
  <1>7. CASE Close \/ UNCHANGED vars
    BY <1>7 DEF Close, vars, Undecided
  <1>8. \A t \in Thread : Retry(t) => LockWays(t)
    BY DEF Retry
  <1> QED BY <1>1, <1>2, <1>3, <1>4, <1>5, <1>6, <1>7, <1>8 DEF Next, Step, Closed

\* The namespace as clients see it, and who is in a call.
Seen == [s \in Slot |-> DbGet(s)]
Running == {t \in Thread : InCall(t)}

\* The number a create is about to store is nobody's.
LEMMA NextInoFresh ==
    ASSUME TypeOK, Control, InoInv, NEW t \in Thread, pc[t] = "put"
    PROVE  /\ startino[t] + m[t] \in Nat \ {0}
           /\ Abstract!Fresh(startino[t] + m[t])
  <1> DEFINE x == startino[t] + m[t]
  <1>1. /\ InCall(t) /\ req[t].op \in Creates /\ m[t] < Len(req[t].names)
        /\ InoCount(req[t]) = Len(req[t].names)
    BY DEF Control, InCall, InoCount
  <1>2. /\ startino[t] \in Nat /\ m[t] \in Nat /\ startino[t] > 0
        /\ InoCount(req[t]) \in Nat
    BY <1>1, InoFacts
  <1>3. x \in Left(t)
    BY <1>1, <1>2 DEF Left, LastIno
  <1>4. \A s \in Slot : DbGet(s) # ReadonlyDb[s] => DbGet(s).ino # x
    BY <1>3 DEF DbGet, InoInv, StoredNotLeft
  <1> QED BY <1>2, <1>4 DEF Abstract!Fresh

LEMMA AtomicPut ==
    ASSUME ~SkipNameCollisionChecks, BlockInv, StillFree, InoInv, Undecided,
           NEW t \in Thread, Put(t)
    PROVE  Abstract!Create(t) \/ Abstract!Abort(t)
  <1>1. TypeOK /\ Control /\ pc[t] = "put" /\ code[t] = "Pending"
    BY DEF BlockInv, Put, Undecided
  <1>2. t \in Running /\ Running' = Running /\ UNCHANGED <<req, stat>>
    BY <1>1, InnerKeeps DEF Running, Inner, InCall, callVars, Put
  <1>3. Abstract!Pending(t)
    BY <1>1, <1>2 DEF Abstract!Pending, Running
  <1>4. CASE Done(t, "IOError") /\ UNCHANGED <<db, m>>
    <2>1. Seen' = Seen
      BY <1>4 DEF Seen, DbGet
    <2> QED BY <1>2, <1>3, <1>4, <2>1 DEF Abstract!Abort, Abstract!Decide, Done, Seen, Running
  <1>5. CASE /\ db' = [db EXCEPT ![SlotOf(req[t], m[t] + 1)] = NewStat(t)]
             /\ m' = [m EXCEPT ![t] = @ + 1]
             /\ \/ m[t] + 1 = Len(req[t].names) /\ Done(t, "OK")
                \/ m[t] + 1 < Len(req[t].names) /\ UNCHANGED code
    <2> DEFINE s0 == SlotOf(req[t], m[t] + 1)
    <2>1. s0 \in Slot /\ DbGet(s0) = NoEnt
      BY <1>1, CreateHolds DEF StillFree, NextSlot
    <2>2. NewStat(t) = [kind |-> KindOf(req[t]), ino |-> startino[t] + m[t]]
      BY DEF NewStat, KindOf
    <2>3. NewStat(t) # NoEnt
      BY <2>2 DEF NoEnt, KindOf
    <2> HIDE DEF s0
    <2>4. /\ Seen' = [Seen EXCEPT ![s0] = NewStat(t)]
          /\ Seen'[s0] = NewStat(t) /\ Seen[s0] = NoEnt
      <3>1. \A s \in Slot : db'[s] = IF s = s0 THEN NewStat(t) ELSE db[s]
        BY <1>1, <1>5 DEF s0, TypeOK
      <3> QED BY <2>1, <2>3, <3>1 DEF Seen, DbGet
    <2>5. /\ NewStat(t).ino \in Nat \ {0} /\ Abstract!Fresh(NewStat(t).ino)
          /\ NewStat(t) = [kind |-> KindOf(req[t]), ino |-> NewStat(t).ino]
      <3>1. NewStat(t).ino = startino[t] + m[t]
        BY <2>2
      <3> QED BY <1>1, <2>2, <3>1, NextInoFresh
    <2>6. req[t].op \in Creates /\ m[t] < Len(req[t].names)
      BY <1>1 DEF Control
    <2>7. IF m[t] + 1 = Len(req[t].names) THEN Abstract!Decide(t, "OK") ELSE UNCHANGED code
      BY <1>1, <1>5 DEF Done, Abstract!Decide
    <2> HIDE DEF TypeOK
    <2>8. /\ Seen[SlotOf(req[t], m[t] + 1)] = NoEnt
          /\ Seen'[SlotOf(req[t], m[t] + 1)] = NewStat(t)
          /\ Seen' = [Seen EXCEPT ![SlotOf(req[t], m[t] + 1)] = Seen'[SlotOf(req[t], m[t] + 1)]]
      BY <2>4 DEF s0
    <2> QED BY <1>2, <1>3, <1>5, <2>5, <2>6, <2>7, <2>8 DEF Abstract!Create, Seen, Running
  <1> QED BY <1>4, <1>5 DEF Put

LEMMA AtomicBulkPut ==
    ASSUME BlockInv, Undecided, NEW t \in Thread, BulkPut(t)
    PROVE  Abstract!Bulk(t) \/ Abstract!Abort(t)
  <1>1. TypeOK /\ Control /\ pc[t] = "bulk" /\ code[t] = "Pending" /\ req[t].op = "Bukin"
    BY DEF BlockInv, BulkPut, Undecided, Control
  <1>2. t \in Running /\ Running' = Running /\ UNCHANGED <<req, m, stat>>
    BY <1>1, InnerKeeps DEF Running, Inner, InCall, callVars, BulkPut
  <1>3. Abstract!Pending(t)
    BY <1>1, <1>2 DEF Abstract!Pending, Running
  <1>4. CASE Done(t, "IOError") /\ UNCHANGED db
    <2>1. Seen' = Seen
      BY <1>4 DEF Seen, DbGet
    <2> QED BY <1>2, <1>3, <1>4, <2>1 DEF Abstract!Abort, Abstract!Decide, Done, Seen, Running
  <1>5. CASE /\ db' = [s \in Slot |-> IF s \in BulkSlots(req[t]) THEN BulkStat ELSE db[s]]
             /\ Done(t, "OK")
    <2>1. Seen' = [s \in Slot |-> IF s \in BulkSlots(req[t]) THEN BulkStat ELSE Seen[s]]
      BY <1>5 DEF Seen, DbGet, BulkStat, NoEnt
    <2> QED BY <1>1, <1>2, <1>3, <1>5, <2>1
            DEF Abstract!Bulk, Abstract!Decide, Done, Seen, Running, BulkSlots
  <1> QED BY <1>4, <1>5 DEF BulkPut

LEMMA AtomicRead ==
    ASSUME BlockInv, Undecided, NEW t \in Thread, Read(t)
    PROVE  Abstract!Lookup(t) \/ Abstract!Abort(t)
  <1>1. TypeOK /\ Control /\ pc[t] = "read" /\ code[t] = "Pending" /\ req[t].op \in Reads
    BY DEF BlockInv, Read, Undecided, Control
  <1>2. t \in Running /\ Running' = Running /\ UNCHANGED <<req, m, db>>
    BY <1>1, InnerKeeps DEF Running, Inner, InCall, callVars, Read
  <1>3. Abstract!Pending(t) /\ Seen' = Seen
    BY <1>1, <1>2 DEF Abstract!Pending, Running, Seen, DbGet
  <1> DEFINE found == Seen[SlotOf(req[t], 1)]
  <1>4. found = DbGet(SlotOf(req[t], 1))
    <2>1. req[t] \in Request
      BY <1>1 DEF TypeOK
    <2>2. /\ Len(req[t].names) = 1
          /\ \A i \in 1 .. Len(req[t].names) : SlotOf(req[t], i) \in Slot
      BY <1>1, <2>1, CallFacts
    <2>3. SlotOf(req[t], 1) \in Slot
      BY <2>2
    <2> QED BY <2>3 DEF Seen
  <1>5. CASE Done(t, "IOError") /\ UNCHANGED stat
    BY <1>2, <1>3, <1>5 DEF Abstract!Abort, Abstract!Decide, Done, Seen, Running
  <1>6. CASE \/ found = NoEnt /\ Done(t, "NotFound") /\ UNCHANGED stat
             \/ /\ found # NoEnt
                /\ req[t].op = "Lokup" /\ found.kind # "dir"
                /\ Done(t, "DirExpected") /\ UNCHANGED stat
             \/ /\ found # NoEnt
                /\ req[t].op = "Lokup" => found.kind = "dir"
                /\ Done(t, "OK")
                /\ stat' = [stat EXCEPT ![t] = found]
    BY <1>1, <1>2, <1>3, <1>6 DEF Abstract!Lookup, Abstract!Decide, Done, Seen, Running
  <1> HIDE DEF found
  <1> QED BY <1>1, <1>4, <1>5, <1>6 DEF Read, Reads

\* The steps that take a call to its status without the db.
LEMMA AtomicDecides ==
    ASSUME ~SkipNameCollisionChecks, BlockInv, Undecided, NEW t \in Thread,
           Reject(t) \/ Enter(t) \/ Retry(t) \/ Check(t)
    PROVE  \/ Abstract!Abort(t) \/ Abstract!Nothing(t) \/ Abstract!Exists(t)
           \/ UNCHANGED Abstract!nsVars
  <1>1. TypeOK /\ Control /\ code[t] = "Pending" /\ InCall(t)
    BY DEF BlockInv, Reject, Enter, Retry, Check, Undecided, InCall
  <1>2. t \in Running /\ Running' = Running /\ UNCHANGED <<req, m, db, stat>>
    BY <1>1, InnerKeeps DEF Running, Inner, callVars, Reject, Enter, Retry, Check
  <1>3. Abstract!Pending(t) /\ Seen' = Seen
    BY <1>1, <1>2 DEF Abstract!Pending, Running, Seen, DbGet
  <1>4. CASE code' = code
    BY <1>2, <1>3, <1>4 DEF Abstract!nsVars, Seen, Running
  <1>5. CASE \E c \in {"IOError", "AccessDenied", "AssertionFailed"} :
                code' = [code EXCEPT ![t] = c]
    BY <1>2, <1>3, <1>5 DEF Abstract!Abort, Abstract!Decide, Seen, Running
  <1>6. CASE /\ req[t].op \in Creates /\ req[t].names = <<>>
             /\ code' = [code EXCEPT ![t] = "OK"]
    BY <1>2, <1>3, <1>6 DEF Abstract!Nothing, Abstract!Decide, Seen, Running
  <1>7. CASE Check(t) /\ DbGet(NextSlot(t)) # NoEnt /\ Done(t, "AlreadyExists")
    <2>1. req[t].op \in Creates /\ m[t] < Len(req[t].names) /\ NextSlot(t) \in Slot
      BY <1>1, <1>7, CreateHolds DEF Check, Control
    <2>2. Seen[SlotOf(req[t], m[t] + 1)] # NoEnt
      BY <1>7, <2>1 DEF Seen, NextSlot
    <2> QED BY <1>2, <1>3, <1>7, <2>1, <2>2
            DEF Abstract!Exists, Abstract!Decide, Done, Seen, Running
  <1>8. CASE Reject(t)
    BY <1>5, <1>8 DEF Reject, Fail
  <1>9. CASE Enter(t)
    BY <1>1, <1>4, <1>5, <1>6, <1>9, LockWaysCode DEF Enter, Fail
  <1>10. CASE Retry(t)
    BY <1>1, <1>4, <1>6, <1>10, LockWaysCode DEF Retry, Control
  <1>11. CASE Check(t)
    BY <1>4, <1>5, <1>7, <1>11 DEF Check, Done, NextSlot
  <1> QED BY <1>8, <1>9, <1>10, <1>11

\* The steps that begin and end calls, and the rest.
LEMMA AtomicBegin ==
    ASSUME TypeOK, NEW t \in Thread, NEW r \in Request, Begin(t, r)
    PROVE  Abstract!Invoke(t, r)
  <1>1. t \notin Running /\ Running' = Running \cup {t}
    BY DEF Begin, Running, InCall, TypeOK
  <1>2. Seen' = Seen
    BY DEF Begin, Seen, DbGet
  <1> QED BY <1>1, <1>2 DEF Begin, Abstract!Invoke, Seen, Running

LEMMA AtomicReturn ==
    ASSUME TypeOK, Undecided, NEW t \in Thread, Return(t)
    PROVE  Abstract!Reply(t)
  <1>1. t \in Running /\ Running' = Running \ {t} /\ code[t] # "Pending"
    BY DEF Return, Running, InCall, TypeOK, Undecided
  <1>2. Seen' = Seen
    BY DEF Return, Seen, DbGet
  <1> QED BY <1>1, <1>2 DEF Return, Abstract!Reply, Seen, Running

LEMMA AtomicNext ==
    ASSUME ~SkipNameCollisionChecks, BlockInv, StillFree, InoInv, Undecided, [Next]_vars
    PROVE  [Abstract!Next]_(Abstract!nsVars)
  <1>1. TypeOK /\ Control
    BY DEF BlockInv
  <1>2. ASSUME NEW t \in Thread, NEW r \in Request, Begin(t, r) PROVE Abstract!Next
    BY <1>1, <1>2, AtomicBegin DEF Abstract!Next
  <1>3. ASSUME NEW t \in Thread, Put(t) PROVE Abstract!Next
    BY <1>3, AtomicPut DEF Abstract!Next
  <1>4. ASSUME NEW t \in Thread, BulkPut(t) PROVE Abstract!Next
    BY <1>4, AtomicBulkPut DEF Abstract!Next
  <1>5. ASSUME NEW t \in Thread, Read(t) PROVE Abstract!Next
    BY <1>5, AtomicRead DEF Abstract!Next
  <1>6. ASSUME NEW t \in Thread, Reject(t) \/ Enter(t) \/ Retry(t) \/ Check(t)
        PROVE  [Abstract!Next]_(Abstract!nsVars)
    <2>1. \/ Abstract!Abort(t) \/ Abstract!Nothing(t) \/ Abstract!Exists(t)
          \/ UNCHANGED Abstract!nsVars
      BY <1>6, AtomicDecides
    <2> QED BY <2>1 DEF Abstract!Next
  <1>7. ASSUME NEW t \in Thread, Return(t) PROVE Abstract!Next
    BY <1>1, <1>7, AtomicReturn DEF Abstract!Next
  <1>8. ASSUME NEW t \in Thread, Wakeup(t) \/ Finish(t)
        PROVE  UNCHANGED Abstract!nsVars
    <2>1. Running' = Running
      BY <1>1, <1>8, InnerKeeps DEF Running, Inner
    <2>2. UNCHANGED <<db, req, m, code, stat>>
      BY <1>8 DEF Wakeup, Finish, callVars
    <2>3. Seen' = Seen
      BY <2>2 DEF Seen, DbGet
    <2> QED BY <2>1, <2>2, <2>3 DEF Abstract!nsVars, Seen, Running
  <1>9. CASE Close \/ UNCHANGED vars
    <2>1. UNCHANGED <<db, pc, req, m, code, stat>>
      BY <1>9 DEF Close, vars, callVars
    <2>2. Seen' = Seen /\ Running' = Running
      BY <2>1 DEF Seen, DbGet, Running, InCall
    <2> QED BY <2>1, <2>2 DEF Abstract!nsVars, Seen, Running
  <1> QED BY <1>2, <1>3, <1>4, <1>5, <1>6, <1>7, <1>8, <1>9 DEF Next, Step, Closed

LEMMA AtomicInit == Init => Undecided /\ StillFree /\ Abstract!Init
  <1> SUFFICES ASSUME Init PROVE Undecided /\ StillFree /\ Abstract!Init
    OBVIOUS
  <1>1. Undecided /\ StillFree
    BY DEF Init, Undecided, StillFree
  <1>2. Seen = ReadonlyDb
    BY DEF Init, Seen, DbGet
  <1>3. Running = {}
    BY DEF Init, Running, InCall
  <1>4. req \in [Thread -> Request]
    BY DEF Init
  <1> QED BY <1>1, <1>2, <1>3, <1>4 DEF Init, Abstract!Init, Seen, Running

\* Unless the checks for name collisions are turned off, clients cannot tell the
\* server from an atomic namespace, however its threads interleave.
THEOREM ServerIsAtomic ==
    ASSUME ~SkipNameCollisionChecks PROVE Spec => Atomic
  <1>1. BlockInv /\ StillFree /\ InoInv /\ Undecided /\ [Next]_vars
           => [Abstract!Next]_(Abstract!nsVars)
    BY AtomicNext
  <1>2. Init => InoInv /\ Undecided /\ StillFree /\ Abstract!Init
    BY AtomicInit, InoInit
  <1> QED BY <1>1, <1>2, WayInvariant, InoNext, UndecidedNext, StillFreeNext, PTL
          DEF Spec, Atomic, Abstract!Spec
=============================================================================
