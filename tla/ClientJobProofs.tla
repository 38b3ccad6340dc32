--------------------------- MODULE ClientJobProofs ---------------------------
(***************************************************************************)
(* Proofs that the ranks of a client job work in a directory that exists   *)
(* and that the names of all of them are there after the writes, for any   *)
(* number of ranks, files and phases.                                      *)
(***************************************************************************)
EXTENDS ClientJob, FiniteSetTheorems, TLAPS

(***************************************************************************)
(* Barriers.  The broadcast of the map counts as one.  g is the command    *)
(* line, l the label a rank is at, p its phase, and e the number of        *)
(* barriers it has entered.                                                *)
(***************************************************************************)
Label == {"map", "bcast", "open", "prepare", "mon", "monwait", "phase", "start", "step", "stop",
          "mondone", "done", "finalize"}
Early == {"map", "bcast", "open", "prepare", "finalize"}   \* has made no directory
InStep == {"start", "step"}
Base(g) == IF g.fs_use_local THEN 0 ELSE 1

EnteredOk(g, l, p, e) ==
    /\ l = "map" => e = 0 /\ Base(g) = 1 /\ p = 0
    /\ l \in (Early \ {"map"}) \cup {"mon", "monwait"} => e = Base(g) /\ p = 0
    /\ l \notin Early => e >= Base(g)
    /\ l \in {"start", "step", "stop"} => e >= Base(g) + 1 /\ p >= 1
    /\ l \in InStep => e <= 2 * p
    /\ l \notin InStep => e <= 2 * p + 1
    /\ l \in {"mondone", "done"} => p = write_phases + read_phases

\* Whether the first phase writes.
Writes1 == writes > 0 /\ write_phases > 0

FirstOk(g, l, p, e) == Writes1 =>
    /\ p = 0 => e <= Base(g)
    /\ p = 1 /\ l \in InStep => e = Base(g) + 1
    /\ p > 1 \/ (p = 1 /\ l \notin InStep) => e >= Base(g) + 2

Barriers == \A r \in Rank : /\ EnteredOk(flags, pc[r], phase[r], entered[r])
                            /\ FirstOk(flags, pc[r], phase[r], entered[r])

(***************************************************************************)
(* Directories and names.                                                  *)
(***************************************************************************)
DirOf(g, r) == IF g.share_dir /\ ~g.fs_use_local THEN 0 ELSE r
Makes(g, r) == ~g.share_dir \/ g.fs_use_local \/ r = 0
NameOf(g, r, f) == <<DirOf(g, r), IF g.share_dir THEN f * Shift + r ELSE r * Shift + f>>
NamesOf(g, r, F) == {NameOf(g, r, f) : f \in F}
AllNames(g) == UNION {NamesOf(g, r, Fids) : r \in Rank}

\* The ranks that make a directory have made it.
DirsMade == \A r \in Rank : pc[r] \notin Early /\ Makes(flags, r) => DirOf(flags, r) \in dirs

DirThere(g, l, r, D) == l \in {"step", "stop"} => DirOf(g, r) \in D

\* The first phase is over for a rank, and for all ranks.
Wrote(l, p) == p > 1 \/ (p = 1 /\ l \notin InStep)
AllWrote(l, p) == p > 1 \/ (p = 1 /\ l \in {"phase", "mondone", "done"})

\* A rank without failures with names P in its handle, whose fids U are done, when there
\* are names N.
RankNames(g, r, l, p, N, P, U, F, H) ==
    /\ P \subseteq NamesOf(g, r, Fids)
    /\ l = "start" => U = {}
    /\ F = {} => /\ H # "null"
                 /\ l = "step" /\ p <= write_phases =>
                       NamesOf(g, r, U) \subseteq IF g.method = "mkfle" THEN N ELSE P
                 /\ writes = n /\ write_phases > 0 /\ Wrote(l, p) =>
                       NamesOf(g, r, Fids) \subseteq N

NamesOk ==
    /\ names \subseteq AllNames(flags)
    /\ \A r \in Rank : RankNames(flags, r, pc[r], phase[r], names, pend[r], used[r], failed[r],
                                 handle[r])
    /\ \A r \in Rank : Writes1 /\ AllWrote(pc[r], phase[r]) =>
          \A i \in Rank : entered[i] >= Base(flags) + 2

DirsThere == \A r \in Rank : DirThere(flags, pc[r], r, dirs)

ClientInv == TypeOK /\ Barriers /\ DirsMade /\ DirsThere /\ NamesOk
-----------------------------------------------------------------------------
LEMMA Numbers ==
    /\ comm_size \in Nat \ {0} /\ n \in Nat /\ writes \in 0 .. n /\ reads \in 0 .. n
    /\ write_phases \in Nat /\ read_phases \in Nat /\ Shift \in Nat
    /\ n <= Shift /\ comm_size <= Shift
    /\ \A r \in Rank : r \in Nat /\ r < comm_size
    /\ \A f \in Fids : f \in Nat /\ f < n
    /\ 0 \in Rank
  BY ClientJobAssumption DEF Rank, Fids

\* Names of different ranks or fids are different.
LEMMA Digits ==
    ASSUME NEW s \in Nat, NEW a \in Nat, NEW b \in Nat, NEW c \in Nat, NEW d \in Nat,
           b < s, d < s, a * s + b = c * s + d
    PROVE  a = c /\ b = d
  <1>1. ASSUME NEW x \in Nat, NEW y \in Nat, NEW u \in Nat, NEW v \in Nat, u < s, v < s, x < y
        PROVE  x * s + u # y * s + v
    <2>1. PICK k \in Nat : y = x + 1 + k
      <3>1. y - x - 1 \in Nat /\ y = x + 1 + (y - x - 1)
        BY <1>1
      <3> QED BY <3>1
    <2>2. y * s = x * s + s + k * s
      BY <2>1
    <2>3. k * s \in Nat /\ x * s \in Nat /\ y * s \in Nat
      OBVIOUS
    <2> QED BY <2>2, <2>3, <1>1
  <1>2. ~(a < c) /\ ~(c < a)
    BY <1>1
  <1>3. a = c
    BY <1>2
  <1>4. a * s \in Nat
    OBVIOUS
  <1> QED BY <1>3, <1>4

LEMMA NamesDiffer ==
    ASSUME NEW g, NEW r \in Rank, NEW i \in Rank, NEW f \in Fids, NEW h \in Fids,
           NameOf(g, r, f) = NameOf(g, i, h)
    PROVE  r = i /\ f = h
  <1>0. /\ r \in Nat /\ r < Shift /\ i \in Nat /\ i < Shift /\ f \in Nat /\ f < Shift
        /\ h \in Nat /\ h < Shift /\ Shift \in Nat
    BY Numbers
  <1>1. CASE g.share_dir
    <2>1. f * Shift + r = h * Shift + i
      BY <1>1 DEF NameOf
    <2> QED BY <1>0, <2>1, Digits
  <1>2. CASE ~g.share_dir
    <2>1. r * Shift + f = i * Shift + h
      BY <1>2 DEF NameOf
    <2> QED BY <1>0, <2>1, Digits
  <1> QED BY <1>1, <1>2

LEMMA CountNames ==
    ASSUME NEW g
    PROVE  IsFiniteSet(AllNames(g)) /\ Cardinality(AllNames(g)) = comm_size * n
  <1> DEFINE S == Rank \X Fids
             name == [z \in S |-> NameOf(g, z[1], z[2])]
  <1>1. IsFiniteSet(Rank) /\ Cardinality(Rank) = comm_size
    BY Numbers, FS_Interval DEF Rank
  <1>2. IsFiniteSet(Fids) /\ Cardinality(Fids) = n
    <2>1. n - 1 \in Int /\ n \in Nat /\ (n = 0 \/ n > 0)
      BY Numbers
    <2>2. IsFiniteSet(0 .. n - 1)
          /\ Cardinality(0 .. n - 1) = IF 0 > n - 1 THEN 0 ELSE (n - 1) - 0 + 1
      BY <2>1, FS_Interval
    <2> QED BY <2>1, <2>2 DEF Fids
  <1>3. IsFiniteSet(S) /\ Cardinality(S) = comm_size * n
    BY <1>1, <1>2, FS_Product
  <1>4. name \in Bijection(S, AllNames(g))
    <2>1. name \in [S -> AllNames(g)]
      BY DEF AllNames, NamesOf
    <2>2. \A y, z \in S : name[y] = name[z] => y = z
      <3> SUFFICES ASSUME NEW y \in S, NEW z \in S, name[y] = name[z] PROVE y = z
        OBVIOUS
      <3>1. NameOf(g, y[1], y[2]) = NameOf(g, z[1], z[2])
        OBVIOUS
      <3>2. y[1] = z[1] /\ y[2] = z[2]
        BY <3>1, NamesDiffer
      <3> QED BY <3>2
    <2>3. \A x \in AllNames(g) : \E z \in S : name[z] = x
      <3> SUFFICES ASSUME NEW x \in AllNames(g) PROVE \E z \in S : name[z] = x
        OBVIOUS
      <3>1. PICK r \in Rank, f \in Fids : x = NameOf(g, r, f)
        BY DEF AllNames, NamesOf
      <3>2. <<r, f>> \in S /\ name[<<r, f>>] = x
        BY <3>1
      <3> QED BY <3>2
    <2> QED BY <2>1, <2>2, <2>3 DEF Bijection, Injection, Surjection, IsInjective
  <1> QED BY <1>3, <1>4, FS_Bijection DEF ExistsBijection

LEMMA NameFacts ==
    /\ \A r : Dir(r) = DirOf(flags, r)
    /\ \A r, f : <<Dir(r), Compose(r, f)>> = NameOf(flags, r, f)
    /\ \A g : \A r \in Rank : DirOf(g, r) \in Rank
    /\ \A g : AllNames(g) \subseteq Rank \X Nat
    /\ \A g, r, F, f : NamesOf(g, r, F \cup {f}) = NamesOf(g, r, F) \cup {NameOf(g, r, f)}
    /\ \A g, r : \A F, G : F \subseteq G => NamesOf(g, r, F) \subseteq NamesOf(g, r, G)
    /\ \A g : \A r \in Rank : NamesOf(g, r, Fids) \subseteq AllNames(g)
    /\ \A g, r : NamesOf(g, r, {}) = {}
  <1>1. /\ \A r : Dir(r) = DirOf(flags, r)
        /\ \A r, f : <<Dir(r), Compose(r, f)>> = NameOf(flags, r, f)
    BY DEF Dir, DirOf, NameOf, Compose, share_dir, fs_use_local
  <1>2. \A g : \A r \in Rank : DirOf(g, r) \in Rank
    BY Numbers DEF DirOf
  <1>3. ASSUME NEW g PROVE AllNames(g) \subseteq Rank \X Nat
    <2>1. ASSUME NEW r \in Rank, NEW f \in Fids PROVE NameOf(g, r, f) \in Rank \X Nat
      <3>1. r \in Nat /\ f \in Nat /\ Shift \in Nat
        BY Numbers
      <3>2. f * Shift + r \in Nat /\ r * Shift + f \in Nat
        BY <3>1
      <3> QED BY <3>2, <1>2 DEF NameOf
    <2> QED BY <2>1 DEF AllNames, NamesOf
  <1>4. \A g, r, F, f : NamesOf(g, r, F \cup {f}) = NamesOf(g, r, F) \cup {NameOf(g, r, f)}
    BY DEF NamesOf
  <1>5. \A g, r : \A F, G : F \subseteq G => NamesOf(g, r, F) \subseteq NamesOf(g, r, G)
    BY DEF NamesOf
  <1>6. \A g : \A r \in Rank : NamesOf(g, r, Fids) \subseteq AllNames(g)
    BY DEF AllNames
  <1>7. \A g, r : NamesOf(g, r, {}) = {}
    BY DEF NamesOf
  <1> QED BY <1>1, <1>2, <1>3, <1>4, <1>5, <1>6, <1>7
-----------------------------------------------------------------------------
(***************************************************************************)
(* A step of a rank.                                                       *)
(***************************************************************************)
Phases == 0 .. write_phases + read_phases
Counts == 0 .. 2 * (write_phases + read_phases) + 1

OtherTyped ==
    /\ map \in {"none", "good", "bad"}
    /\ thread \in [Rank -> {"none", "new", "run", "failed", "ended"}]
    /\ is_mon_running \in [Rank -> BOOLEAN] /\ mon_done \in [Rank -> BOOLEAN]
    /\ aborted \in BOOLEAN

LEMMA TypeParts ==
    ASSUME ClientInv
    PROVE  /\ pc \in [Rank -> Label] /\ phase \in [Rank -> Phases] /\ entered \in [Rank -> Counts]
           /\ handle \in [Rank -> {"none", "null", "open"}]
           /\ pend \in [Rank -> SUBSET (Rank \X Nat)] /\ used \in [Rank -> SUBSET Fids]
           /\ failed \in [Rank -> SUBSET Faults] /\ OtherTyped
           /\ dirs \subseteq Rank
  BY DEF ClientInv, TypeOK, Label, Phases, Counts, OtherTyped

LEMMA InitClient ==
    ASSUME Init
    PROVE  ClientInv
  <1>1. TypeOK
    <2>1. 0 \in Phases /\ 0 \in Counts
      BY Numbers DEF Phases, Counts
    <2>2. phase \in [Rank -> Phases] /\ entered \in [Rank -> Counts]
      BY <2>1 DEF Init
    <2>3. pc \in [Rank -> Label]
      BY DEF Init, Label
    <2>4. is_mon_running \in [Rank -> BOOLEAN] /\ mon_done \in [Rank -> BOOLEAN]
          /\ aborted \in BOOLEAN
      BY DEF Init
    <2> QED BY <2>2, <2>3, <2>4 DEF Init, TypeOK, Phases, Counts, Label
  <1>2. \A r \in Rank : pc[r] = (IF flags.fs_use_local THEN "open" ELSE "map") /\ phase[r] = 0
                        /\ entered[r] = 0
    BY DEF Init, fs_use_local
  <1>3. Barriers
    BY <1>2, Numbers DEF Barriers, EnteredOk, FirstOk, Base, Early, InStep
  <1>4. DirsMade /\ DirsThere
    BY <1>2 DEF DirsMade, DirsThere, DirThere, Early
  <1>5. NamesOk
    <2>1. /\ names = {}
          /\ \A r \in Rank : pend[r] = {} /\ used[r] = {} /\ failed[r] = {} /\ handle[r] = "none"
      BY DEF Init
    <2> QED BY <1>2, <2>1 DEF NamesOk, RankNames, Wrote, AllWrote
  <1> QED BY <1>1, <1>3, <1>4, <1>5 DEF ClientInv

LEMMA RankStep ==
    ASSUME ClientInv, flags' = flags, NEW r \in Rank, NEW l \in Label, NEW p \in Phases,
           NEW e \in Counts, NEW H \in {"none", "null", "open"}, NEW P \in SUBSET (Rank \X Nat),
           NEW U \in SUBSET Fids,
           NEW F \in SUBSET Faults,
           pc' = [pc EXCEPT ![r] = l], phase' = [phase EXCEPT ![r] = p],
           entered' = [entered EXCEPT ![r] = e], handle' = [handle EXCEPT ![r] = H],
           pend' = [pend EXCEPT ![r] = P], used' = [used EXCEPT ![r] = U],
           failed' = [failed EXCEPT ![r] = F],
           names \subseteq names', names' \subseteq AllNames(flags),
           dirs \subseteq dirs', dirs' \subseteq Rank, OtherTyped',
           e >= entered[r], EnteredOk(flags, l, p, e), FirstOk(flags, l, p, e),
           l \notin Early /\ Makes(flags, r) => DirOf(flags, r) \in dirs',
           DirThere(flags, l, r, dirs'),
           RankNames(flags, r, l, p, names', P, U, F, H),
           Writes1 /\ AllWrote(l, p) => \A i \in Rank : entered[i] >= Base(flags) + 2
    PROVE  ClientInv'
  <1>0. P \subseteq Rank \X Nat /\ names' \subseteq Rank \X Nat
    BY NameFacts DEF RankNames
  <1>1. /\ pc'[r] = l /\ phase'[r] = p /\ entered'[r] = e /\ handle'[r] = H /\ pend'[r] = P
        /\ used'[r] = U /\ failed'[r] = F
        /\ \A i \in Rank \ {r} :
              /\ pc'[i] = pc[i] /\ phase'[i] = phase[i] /\ entered'[i] = entered[i]
              /\ handle'[i] = handle[i] /\ pend'[i] = pend[i] /\ used'[i] = used[i]
              /\ failed'[i] = failed[i]
    BY TypeParts
  <1>2. TypeOK'
    <2>1. /\ pc' \in [Rank -> Label] /\ phase' \in [Rank -> Phases] /\ entered' \in [Rank -> Counts]
          /\ handle' \in [Rank -> {"none", "null", "open"}]
          /\ pend' \in [Rank -> SUBSET (Rank \X Nat)] /\ used' \in [Rank -> SUBSET Fids]
          /\ failed' \in [Rank -> SUBSET Faults]
      BY <1>0, TypeParts
    <2>2. flags' \in Flags
      BY DEF ClientInv, TypeOK
    <2> QED BY <1>0, <2>1, <2>2 DEF TypeOK, OtherTyped, Label, Phases, Counts
  <1>3. Barriers'
    <2>1. ASSUME NEW i \in Rank
          PROVE  EnteredOk(flags', pc'[i], phase'[i], entered'[i])
                 /\ FirstOk(flags', pc'[i], phase'[i], entered'[i])
      BY <1>1 DEF ClientInv, Barriers
    <2> QED BY <2>1 DEF Barriers
  <1>4. DirsMade'
    BY <1>1 DEF ClientInv, DirsMade
  <1>5. DirsThere'
    <2>1. ASSUME NEW i \in Rank PROVE DirThere(flags', pc'[i], i, dirs')
      BY <1>1 DEF ClientInv, DirsThere, DirThere
    <2> QED BY <2>1 DEF DirsThere
  <1>6. NamesOk'
    <2>1. ASSUME NEW i \in Rank
          PROVE  RankNames(flags', i, pc'[i], phase'[i], names', pend'[i], used'[i], failed'[i],
                           handle'[i])
      <3>1. CASE i = r
        BY <3>1, <1>1
      <3>2. CASE i # r
        BY <3>2, <1>1 DEF ClientInv, NamesOk, RankNames
      <3> QED BY <3>1, <3>2
    <2>2. \A i \in Rank : entered[i] >= Base(flags) + 2 => entered'[i] >= Base(flags) + 2
      <3>1. entered[r] \in Int /\ e \in Int /\ Base(flags) \in Int
        BY TypeParts DEF Counts, Base
      <3> QED BY <1>1, <3>1
    <2>3. ASSUME NEW i \in Rank, Writes1, AllWrote(pc'[i], phase'[i])
          PROVE  \A k \in Rank : entered'[k] >= Base(flags) + 2
      BY <1>1, <2>2, <2>3 DEF ClientInv, NamesOk
    <2> QED BY <2>1, <2>3 DEF NamesOk
  <1> QED BY <1>2, <1>3, <1>4, <1>5, <1>6 DEF ClientInv

\* What is known of a rank before the step.
LEMMA RankFacts ==
    ASSUME ClientInv, NEW r \in Rank
    PROVE  /\ pc[r] \in Label /\ phase[r] \in Phases /\ entered[r] \in Counts
           /\ handle[r] \in {"none", "null", "open"} /\ used[r] \in SUBSET Fids
           /\ failed[r] \in SUBSET Faults /\ pend[r] \in SUBSET (Rank \X Nat)
           /\ pc = [pc EXCEPT ![r] = pc[r]] /\ phase = [phase EXCEPT ![r] = phase[r]]
           /\ entered = [entered EXCEPT ![r] = entered[r]]
           /\ handle = [handle EXCEPT ![r] = handle[r]] /\ pend = [pend EXCEPT ![r] = pend[r]]
           /\ used = [used EXCEPT ![r] = used[r]] /\ failed = [failed EXCEPT ![r] = failed[r]]
           /\ names \subseteq AllNames(flags) /\ dirs \subseteq Rank /\ OtherTyped
           /\ EnteredOk(flags, pc[r], phase[r], entered[r])
           /\ FirstOk(flags, pc[r], phase[r], entered[r])
           /\ pc[r] \notin Early /\ Makes(flags, r) => DirOf(flags, r) \in dirs
           /\ DirThere(flags, pc[r], r, dirs)
           /\ RankNames(flags, r, pc[r], phase[r], names, pend[r], used[r], failed[r], handle[r])
           /\ Writes1 /\ AllWrote(pc[r], phase[r]) =>
                  \A i \in Rank : entered[i] >= Base(flags) + 2
           /\ phase[r] \in Nat /\ entered[r] \in Nat /\ Base(flags) \in {0, 1}
  <1>1. /\ pc[r] \in Label /\ phase[r] \in Phases /\ entered[r] \in Counts
        /\ handle[r] \in {"none", "null", "open"} /\ used[r] \in SUBSET Fids
        /\ failed[r] \in SUBSET Faults /\ dirs \subseteq Rank /\ OtherTyped
        /\ pend[r] \in SUBSET (Rank \X Nat)
        /\ pc = [pc EXCEPT ![r] = pc[r]] /\ phase = [phase EXCEPT ![r] = phase[r]]
        /\ entered = [entered EXCEPT ![r] = entered[r]]
        /\ handle = [handle EXCEPT ![r] = handle[r]] /\ pend = [pend EXCEPT ![r] = pend[r]]
        /\ used = [used EXCEPT ![r] = used[r]] /\ failed = [failed EXCEPT ![r] = failed[r]]
    BY TypeParts
  <1>2. /\ EnteredOk(flags, pc[r], phase[r], entered[r])
        /\ FirstOk(flags, pc[r], phase[r], entered[r])
    BY DEF ClientInv, Barriers
  <1>3. /\ pc[r] \notin Early /\ Makes(flags, r) => DirOf(flags, r) \in dirs
        /\ DirThere(flags, pc[r], r, dirs)
    BY DEF ClientInv, DirsMade, DirsThere
  <1>4. /\ RankNames(flags, r, pc[r], phase[r], names, pend[r], used[r], failed[r], handle[r])
        /\ Writes1 /\ AllWrote(pc[r], phase[r]) =>
                  \A i \in Rank : entered[i] >= Base(flags) + 2
        /\ names \subseteq AllNames(flags)
    BY DEF ClientInv, NamesOk
  <1>5. phase[r] \in Nat /\ entered[r] \in Nat /\ Base(flags) \in {0, 1}
    BY <1>1 DEF Phases, Counts, Base
  <1> QED BY <1>1, <1>2, <1>3, <1>4, <1>5

\* A rank moves to another label and creates nothing.
LEMMA MoveStep ==
    ASSUME ClientInv, flags' = flags, NEW r \in Rank, NEW l \in Label \ {"step"}, NEW p \in Phases,
           NEW e \in Counts, NEW U \in SUBSET Fids, NEW F \in SUBSET Faults, failed[r] \subseteq F,
           pc' = [pc EXCEPT ![r] = l], phase' = [phase EXCEPT ![r] = p],
           entered' = [entered EXCEPT ![r] = e], used' = [used EXCEPT ![r] = U],
           failed' = [failed EXCEPT ![r] = F], handle' = handle, pend' = pend, names' = names,
           dirs \subseteq dirs', dirs' \subseteq Rank, OtherTyped',
           e >= entered[r], EnteredOk(flags, l, p, e), FirstOk(flags, l, p, e),
           l \notin Early /\ Makes(flags, r) => pc[r] \notin Early \/ DirOf(flags, r) \in dirs',
           l = "stop" => pc[r] \in {"step", "stop"}, l = "start" => U = {},
           n > 0 /\ writes = n /\ write_phases > 0 /\ Wrote(l, p) => Wrote(pc[r], phase[r]),
           Writes1 /\ AllWrote(l, p) => \/ AllWrote(pc[r], phase[r])
                                        \/ \A i \in Rank : entered[i] >= Base(flags) + 2
    PROVE  ClientInv'
  <1> DEFINE H == handle[r]
             P == pend[r]
             k == pc[r]
             o == phase[r]
             G == failed[r]
  <1>1. /\ H \in {"none", "null", "open"} /\ handle' = [handle EXCEPT ![r] = H]
        /\ pend' = [pend EXCEPT ![r] = P] /\ names' \subseteq AllNames(flags)
        /\ G \subseteq F /\ P \in SUBSET (Rank \X Nat)
    BY RankFacts
  <1>2. /\ k \notin Early /\ Makes(flags, r) => DirOf(flags, r) \in dirs
        /\ DirThere(flags, k, r, dirs)
        /\ RankNames(flags, r, k, o, names, P, used[r], G, H)
        /\ Writes1 /\ AllWrote(k, o) => \A i \in Rank : entered[i] >= Base(flags) + 2
    BY RankFacts
  <1>3. l \notin Early /\ Makes(flags, r) => DirOf(flags, r) \in dirs'
    BY <1>2
  <1>4. DirThere(flags, l, r, dirs')
    BY <1>2 DEF DirThere
  <1>5. Writes1 /\ AllWrote(l, p) => \A i \in Rank : entered[i] >= Base(flags) + 2
    BY <1>2
  <1>6. n > 0 /\ writes = n /\ write_phases > 0 /\ Wrote(l, p) => Wrote(k, o)
    OBVIOUS
  <1>7. n \in Nat /\ (n = 0 => Fids = {})
    BY Numbers DEF Fids
  <1>8. \A g : NamesOf(g, r, {}) = {}
    BY NameFacts
  <1> HIDE DEF H, P, k, o, G
  <1>9. RankNames(flags, r, l, p, names', P, U, F, H)
    <2>1. P \subseteq NamesOf(flags, r, Fids)
      BY <1>2 DEF RankNames
    <2>2. ASSUME F = {}, writes = n, write_phases > 0, Wrote(l, p)
          PROVE  NamesOf(flags, r, Fids) \subseteq names
      <3>1. G = {}
        BY <1>1, <2>2
      <3>2. CASE n = 0
        BY <1>7, <1>8, <3>2
      <3>3. CASE n > 0
        BY <1>2, <1>6, <2>2, <3>1, <3>3 DEF RankNames
      <3> QED BY <1>7, <3>2, <3>3
    <2>3. F = {} => H # "null"
      BY <1>1, <1>2 DEF RankNames
    <2>4. l # "step" /\ names' = names
      OBVIOUS
    <2> QED BY <2>1, <2>2, <2>3, <2>4 DEF RankNames
  <1>10. /\ l \in Label /\ p \in Phases /\ e \in Counts /\ U \in SUBSET Fids
         /\ F \in SUBSET Faults /\ names \subseteq names'
    OBVIOUS
  <1> QED BY <1>1, <1>3, <1>4, <1>5, <1>9, <1>10, RankStep, ZenonT(60)

\* The moves before the first phase.
LEMMA EarlyStep ==
    ASSUME ClientInv, flags' = flags, NEW r \in Rank,
           NEW l \in Early \cup {"mon", "monwait", "phase"}, l # "map",
           pc[r] \in Early \cup {"mon", "monwait"}, pc[r] # "finalize",
           NEW e \in Counts, e = Base(flags), NEW F \in SUBSET Faults, failed[r] \subseteq F,
           pc' = [pc EXCEPT ![r] = l], phase' = phase, entered' = [entered EXCEPT ![r] = e],
           failed' = [failed EXCEPT ![r] = F], used' = used, handle' = handle, pend' = pend,
           names' = names, dirs \subseteq dirs', dirs' \subseteq Rank, OtherTyped',
           l \notin Early /\ Makes(flags, r) => pc[r] \notin Early \/ DirOf(flags, r) \in dirs'
    PROVE  ClientInv'
  <1> DEFINE k == pc[r]
             p == phase[r]
             U == used[r]
             d == entered[r]
  <1>1. /\ p \in Phases /\ phase' = [phase EXCEPT ![r] = p]
        /\ U \in SUBSET Fids /\ used' = [used EXCEPT ![r] = U]
        /\ EnteredOk(flags, k, p, d) /\ Base(flags) \in {0, 1} /\ d \in Nat
    BY RankFacts
  <1> HIDE DEF p, U, d
  <1>2. p = 0 /\ d <= e
    BY <1>1 DEF EnteredOk, Early
  <1>3. l \in Label \ {"step"}
    BY DEF Label, Early
  <1>4. EnteredOk(flags, l, p, e)
    BY <1>1, <1>2 DEF EnteredOk, Early, InStep
  <1>5. FirstOk(flags, l, p, e) /\ ~Wrote(l, p) /\ ~AllWrote(l, p) /\ l # "stop" /\ l # "start"
    BY <1>1, <1>2 DEF FirstOk, Wrote, AllWrote, Early
  <1>6. e >= entered[r]
    BY <1>1, <1>2 DEF d
  <1> QED BY <1>1, <1>3, <1>4, <1>5, <1>6, MoveStep

LEMMA EarlyFacts ==
    ASSUME ClientInv, NEW r \in Rank, pc[r] \in Early \cup {"mon", "monwait"}
    PROVE  /\ pc[r] # "map" => entered[r] = Base(flags)
           /\ pc[r] = "map" => entered[r] = 0 /\ Base(flags) = 1
           /\ Base(flags) \in Counts /\ entered[r] \in Counts
           /\ entered = [entered EXCEPT ![r] = entered[r]]
           /\ failed = [failed EXCEPT ![r] = failed[r]] /\ failed[r] \in SUBSET Faults
           /\ OtherTyped /\ dirs \subseteq Rank
  <1>1. EnteredOk(flags, pc[r], phase[r], entered[r])
    BY RankFacts
  <1>2. Base(flags) \in Counts
    BY Numbers DEF Base, Counts
  <1> QED BY <1>1, <1>2, RankFacts DEF EnteredOk, Early

LEMMA ObtainSvrMapStep ==
    ASSUME ClientInv, NEW r \in Rank, ObtainSvrMap(r), flags' = flags
    PROVE  ClientInv'
  <1>0. /\ phase' = phase /\ dirs' = dirs /\ names' = names /\ handle' = handle /\ pend' = pend
        /\ used' = used /\ UNCHANGED monVars /\ pc[r] = "map" /\ pc[r] \in Early
    BY DEF ObtainSvrMap, At, fsVars, Early
  <1>1. /\ entered[r] = 0 /\ Base(flags) = 1 /\ Base(flags) \in Counts
        /\ failed = [failed EXCEPT ![r] = failed[r]] /\ failed[r] \in SUBSET Faults
        /\ OtherTyped /\ dirs \subseteq Rank
    BY <1>0, EarlyFacts
  <1>2. CASE aborted'
    <2>1. /\ pc' = pc /\ entered' = entered /\ map' = map
          /\ failed' = [failed EXCEPT ![r] = @ \cup {"map"}] /\ "map" \in Faults
      BY <1>2, <1>0 DEF ObtainSvrMap, Fails, At
    <2> DEFINE p == phase[r]
               l == pc[r]
               e == entered[r]
               U == used[r]
               F == failed[r] \cup {"map"}
    <2>2. /\ p \in Phases /\ phase' = [phase EXCEPT ![r] = p]
          /\ l \in Label \ {"step"} /\ pc' = [pc EXCEPT ![r] = l]
          /\ e \in Counts /\ entered' = [entered EXCEPT ![r] = e]
          /\ U \in SUBSET Fids /\ used' = [used EXCEPT ![r] = U]
          /\ EnteredOk(flags, l, p, e) /\ FirstOk(flags, l, p, e)
      BY <1>0, <2>1, RankFacts
    <2>3. F \in SUBSET Faults /\ failed[r] \subseteq F /\ failed' = [failed EXCEPT ![r] = F]
      BY <1>1, <2>1
    <2>4. OtherTyped'
      BY <1>0, <1>1, <1>2, <2>1 DEF OtherTyped, monVars
    <2>5. e >= entered[r]
      BY <1>1
    <2>6. l # "stop" /\ l # "start" /\ l \in Early
      BY <1>0
    <2>7. (Wrote(l, p) => Wrote(pc[r], phase[r])) /\ (AllWrote(l, p) => AllWrote(pc[r], phase[r]))
      OBVIOUS
    <2> HIDE DEF p, l, e, U, F
    <2> QED BY <1>0, <1>1, <2>2, <2>3, <2>4, <2>5, <2>6, <2>7, MoveStep
  <1>3. CASE ~aborted'
    <2>1. /\ pc' = [pc EXCEPT ![r] = "bcast"] /\ failed' = failed
          /\ map' \in {"none", "good", "bad"} /\ aborted' \in BOOLEAN
      BY <1>3, <1>1 DEF ObtainSvrMap, Fails, Goto, OtherTyped
    <2> DEFINE e == 1
    <2>2. entered' = [entered EXCEPT ![r] = e] /\ e = Base(flags) /\ e \in Counts
      BY <1>3, <1>1 DEF ObtainSvrMap, Enter
    <2>3. OtherTyped'
      BY <1>0, <1>1, <2>1 DEF OtherTyped, monVars
    <2>4. "bcast" \in Early
      BY DEF Early
    <2> HIDE DEF e
    <2> QED BY <1>0, <1>1, <2>1, <2>2, <2>3, <2>4, EarlyStep
  <1> QED BY <1>2, <1>3

LEMMA EarlyActions ==
    ASSUME ClientInv, NEW r \in Rank, flags' = flags,
           ParseMapData(r) \/ Open(r) \/ PrepareRun(r) \/ StartMonitor(r) \/ MonitorRuns(r)
    PROVE  ClientInv'
  <1> DEFINE e == entered[r]
  <1>0. /\ pc[r] \in {"bcast", "open", "prepare", "mon", "monwait"}
        /\ phase' = phase /\ names' = names /\ handle' = handle /\ pend' = pend /\ used' = used
        /\ entered' = entered /\ map' = map
    BY DEF ParseMapData, Open, PrepareRun, StartMonitor, MonitorRuns, At, fsVars
  <1>1. pc[r] \in Early \cup {"mon", "monwait"} /\ pc[r] # "finalize" /\ pc[r] # "map"
    BY <1>0 DEF Early
  <1>2. /\ e \in Counts /\ e = Base(flags) /\ entered' = [entered EXCEPT ![r] = e]
        /\ failed = [failed EXCEPT ![r] = failed[r]] /\ failed[r] \in SUBSET Faults
        /\ OtherTyped /\ dirs \subseteq Rank
    BY <1>0, <1>1, EarlyFacts
  <1> HIDE DEF e
  <1>3. CASE ParseMapData(r)
    <2> DEFINE l == IF map = "good" THEN "open" ELSE "finalize"
               F == failed[r]
    <2>1. /\ pc' = [pc EXCEPT ![r] = l] /\ l \in Early /\ l # "map" /\ dirs' = dirs
          /\ F \in SUBSET Faults /\ failed' = [failed EXCEPT ![r] = F]
      BY <1>2, <1>3 DEF ParseMapData, Goto, fsVars, Early
    <2>2. OtherTyped'
      BY <1>2, <1>3 DEF ParseMapData, OtherTyped, monVars
    <2>3. failed[r] \subseteq F
      OBVIOUS
    <2> HIDE DEF l, F
    <2> QED BY <1>0, <1>1, <1>2, <2>1, <2>2, <2>3, EarlyStep
  <1>4. CASE Open(r)
    <2>1. dirs' = dirs /\ UNCHANGED monVars /\ "prepare" \in Early /\ "open" \in Early
          /\ pc[r] = "open"
      BY <1>4 DEF Open, At, fsVars, Early
    <2>2. CASE Goto(r, "prepare") /\ UNCHANGED <<failed, aborted>>
      <3> DEFINE F == failed[r]
      <3>1. F \in SUBSET Faults /\ failed' = [failed EXCEPT ![r] = F] /\ failed[r] \subseteq F
            /\ pc' = [pc EXCEPT ![r] = "prepare"]
        BY <1>2, <2>2 DEF Goto
      <3>2. OtherTyped'
        BY <1>0, <1>2, <2>1, <2>2 DEF OtherTyped, monVars
      <3> HIDE DEF F
      <3> QED BY <1>0, <1>1, <1>2, <2>1, <3>1, <3>2, EarlyStep
    <2>3. CASE Fails(r, "open", TRUE) /\ UNCHANGED pc
      <3> DEFINE F == failed[r] \cup {"open"}
      <3>1. F \in SUBSET Faults /\ failed' = [failed EXCEPT ![r] = F] /\ failed[r] \subseteq F
        BY <1>2, <2>3 DEF Fails
      <3>2. pc' = [pc EXCEPT ![r] = "open"]
        BY <2>1, <2>3, RankFacts
      <3>3. OtherTyped'
        BY <1>0, <1>2, <2>1, <2>3 DEF OtherTyped, monVars, Fails
      <3> HIDE DEF F
      <3> QED BY <1>0, <1>1, <1>2, <2>1, <3>1, <3>2, <3>3, EarlyStep
    <2> QED BY <1>4, <2>2, <2>3 DEF Open
  <1>5. CASE PrepareRun(r)
    <2>1. UNCHANGED monVars /\ "finalize" \in Early /\ "mon" \notin Early
          /\ pc[r] = "prepare"
      BY <1>5 DEF PrepareRun, At, Early
    <2>2. CASE Goto(r, "mon") /\ UNCHANGED <<failed, aborted>>
      <3> DEFINE F == failed[r]
      <3>1. F \in SUBSET Faults /\ failed' = [failed EXCEPT ![r] = F] /\ failed[r] \subseteq F
            /\ pc' = [pc EXCEPT ![r] = "mon"]
        BY <1>2, <2>2 DEF Goto
      <3>2. OtherTyped'
        BY <1>0, <1>2, <2>1, <2>2 DEF OtherTyped, monVars
      <3>3. Dir(r) = DirOf(flags, r) /\ DirOf(flags, r) \in Rank
        BY NameFacts
      <3>4. "mon" # "finalize"
        OBVIOUS
      <3>5. dirs \subseteq dirs' /\ dirs' \subseteq Rank
            /\ (Makes(flags, r) => DirOf(flags, r) \in dirs')
        <4>1. Makes(flags, r) => dirs' = dirs \cup {Dir(r)}
          <5>1. pc'[r] = "mon"
            BY <3>1, TypeParts
          <5>2. ~Goto(r, "finalize")
            BY <5>1, TypeParts DEF Goto
          <5> QED BY <1>5, <5>2 DEF PrepareRun, Makes, share_dir, fs_use_local
        <4>2. ~Makes(flags, r) => dirs' = dirs
          BY <1>5 DEF PrepareRun, Makes, share_dir, fs_use_local
        <4> QED BY <1>2, <3>3, <4>1, <4>2
      <3> HIDE DEF F
      <3> QED BY <1>0, <1>1, <1>2, <3>1, <3>2, <3>5, EarlyStep
    <2>3. CASE Fails(r, "prepare", FALSE) /\ Goto(r, "finalize") /\ dirs' = dirs
      <3> DEFINE F == failed[r] \cup {"prepare"}
      <3>1. F \in SUBSET Faults /\ failed' = [failed EXCEPT ![r] = F] /\ failed[r] \subseteq F
            /\ pc' = [pc EXCEPT ![r] = "finalize"]
        BY <1>2, <2>3 DEF Fails, Goto
      <3>2. OtherTyped'
        BY <1>0, <1>2, <2>1, <2>3 DEF OtherTyped, monVars, Fails
      <3> HIDE DEF F
      <3> QED BY <1>0, <1>1, <1>2, <2>1, <2>3, <3>1, <3>2, EarlyStep
    <2> QED BY <1>5, <2>2, <2>3 DEF PrepareRun
  <1>6. CASE StartMonitor(r) \/ MonitorRuns(r)
    <2> DEFINE l == IF StartMonitor(r) /\ mon THEN "monwait" ELSE "phase"
               F == failed[r]
    <2>1. /\ pc' = [pc EXCEPT ![r] = l] /\ l \in {"monwait", "phase"} /\ dirs' = dirs
          /\ F \in SUBSET Faults /\ failed' = [failed EXCEPT ![r] = F] /\ pc[r] \notin Early
      BY <1>2, <1>6 DEF StartMonitor, MonitorRuns, At, Goto, fsVars, Early
    <2>2. OtherTyped'
      <3>1. thread' \in [Rank -> {"none", "new", "run", "failed", "ended"}]
        BY <1>2, <1>6 DEF OtherTyped, StartMonitor, MonitorRuns, monVars
      <3> QED BY <1>0, <1>2, <1>6, <3>1 DEF OtherTyped, StartMonitor, MonitorRuns, monVars
    <2>3. failed[r] \subseteq F
      OBVIOUS
    <2> HIDE DEF l, F
    <2> QED BY <1>0, <1>1, <1>2, <2>1, <2>2, <2>3, EarlyStep
  <1> QED BY <1>3, <1>4, <1>5, <1>6


(***************************************************************************)
(* The moves between the phases.                                           *)
(***************************************************************************)
LEMMA BeginPhaseStep ==
    ASSUME ClientInv, NEW r \in Rank, BeginPhase(r), flags' = flags
    PROVE  ClientInv'
  <1> DEFINE o == phase[r]
             d == entered[r]
             ops == IF o < write_phases THEN writes ELSE reads
             l == IF ops = 0 THEN "phase" ELSE "start"
             p == o + 1
             e == IF ops = 0 THEN d ELSE d + 1
             U == {}
             F == failed[r]
  <1>1. /\ pc[r] = "phase" /\ o < write_phases + read_phases
        /\ names' = names /\ handle' = handle /\ pend' = pend /\ dirs' = dirs /\ failed' = failed
        /\ map' = map /\ monVars' = monVars /\ aborted' = aborted
    BY DEF BeginPhase, At
  <1>2. /\ pc = [pc EXCEPT ![r] = pc[r]] /\ entered = [entered EXCEPT ![r] = d]
        /\ failed = [failed EXCEPT ![r] = F] /\ F \in SUBSET Faults /\ OtherTyped
        /\ dirs \subseteq Rank /\ o \in Nat /\ d \in Nat /\ Base(flags) \in {0, 1}
        /\ EnteredOk(flags, pc[r], o, d) /\ FirstOk(flags, pc[r], o, d)
    BY RankFacts
  <1>3. /\ pc' = [pc EXCEPT ![r] = l] /\ phase' = [phase EXCEPT ![r] = p]
        /\ entered' = [entered EXCEPT ![r] = e] /\ used' = [used EXCEPT ![r] = U]
        /\ failed' = [failed EXCEPT ![r] = F]
    BY <1>1, <1>2 DEF BeginPhase, Goto, Enter
  <1>4. OtherTyped'
    BY <1>1, <1>2 DEF OtherTyped, monVars
  <1>5. /\ o = 0 /\ Writes1 => l = "start"
        /\ l \in {"phase", "start"} /\ p = o + 1 /\ (l = "phase" => e = d) /\ (l = "start" => e = d + 1)
        /\ U = {} /\ U \in SUBSET Fids /\ failed[r] \subseteq F
    BY Numbers DEF Writes1
  <1>6. write_phases \in Nat /\ read_phases \in Nat /\ n \in Nat /\ writes \in Nat
    BY Numbers
  <1>7. o = phase[r] /\ d = entered[r]
    OBVIOUS
  <1> HIDE DEF o, d, ops, l, p, e, U, F
  <1>8. EnteredOk(flags, l, p, e)
    BY <1>1, <1>2, <1>5, <1>6 DEF EnteredOk, Early, InStep
  <1>9. p \in Phases /\ e \in Counts /\ e >= entered[r] /\ l \in Label \ {"step"}
    <2>1. p \in Phases /\ e >= entered[r] /\ l \in Label \ {"step"}
      BY <1>1, <1>2, <1>5, <1>6, <1>7 DEF Phases, Label
    <2>2. e \in Nat /\ e <= 2 * p + 1
      BY <1>2, <1>5, <1>8 DEF EnteredOk, InStep
    <2> QED BY <1>1, <1>2, <1>5, <1>6, <2>1, <2>2 DEF Counts
  <1>10. FirstOk(flags, l, p, e)
    BY <1>1, <1>2, <1>5 DEF FirstOk, EnteredOk, Early, InStep
  <1>11. n > 0 /\ writes = n /\ write_phases > 0 /\ Wrote(l, p) => Wrote(pc[r], phase[r])
    BY <1>1, <1>2, <1>5, <1>7 DEF Wrote, Writes1, InStep
  <1>12. Writes1 /\ AllWrote(l, p) => AllWrote(pc[r], phase[r])
    BY <1>1, <1>2, <1>5, <1>7 DEF AllWrote
  <1>13. pc[r] \notin Early /\ l # "stop"
    BY <1>1, <1>5 DEF Early
  <1>14. dirs \subseteq dirs' /\ dirs' \subseteq Rank
    BY <1>1, <1>2
  <1> QED BY <1>1, <1>2, <1>3, <1>4, <1>5, <1>8, <1>9, <1>10, <1>11, <1>12, <1>13, <1>14, MoveStep,
             ZenonT(60)

LEMMA PhaseMoves ==
    ASSUME ClientInv, NEW r \in Rank, StepDone(r) \/ StopMonitor(r) \/ RunStepsDone(r),
           flags' = flags
    PROVE  ClientInv'
  <1> DEFINE p == phase[r]
             e == entered[r]
             k == pc[r]
             l == IF k = "stop" THEN "phase" ELSE IF k = "phase" THEN "mondone" ELSE "done"
             U == used[r]
             F == failed[r]
  <1>1. /\ names' = names /\ handle' = handle /\ pend' = pend /\ dirs' = dirs /\ failed' = failed
        /\ map' = map /\ aborted' = aborted /\ used' = used /\ phase' = phase /\ entered' = entered
        /\ thread' = thread /\ is_mon_running' = is_mon_running
        /\ k \in {"stop", "phase", "mondone"}
        /\ pc' = [pc EXCEPT ![r] = l]
        /\ k = "phase" => p = write_phases + read_phases
        /\ k = "stop" => \A i \in Rank : entered[i] >= e
    BY DEF StepDone, StopMonitor, RunStepsDone, At, Goto, Passed, fsVars, monVars
  <1>2. /\ p \in Phases /\ phase' = [phase EXCEPT ![r] = p]
        /\ e \in Counts /\ entered' = [entered EXCEPT ![r] = e]
        /\ U \in SUBSET Fids /\ used' = [used EXCEPT ![r] = U]
        /\ failed' = [failed EXCEPT ![r] = F] /\ F \in SUBSET Faults /\ OtherTyped
        /\ dirs \subseteq Rank /\ p \in Nat /\ e \in Nat /\ Base(flags) \in {0, 1}
        /\ EnteredOk(flags, k, p, e) /\ FirstOk(flags, k, p, e)
    BY <1>1, RankFacts
  <1>3. OtherTyped'
    <2>1. mon \in BOOLEAN
      BY ClientJobAssumption
    <2>2. mon_done' \in [Rank -> BOOLEAN]
      BY <1>2, <2>1 DEF StepDone, StopMonitor, RunStepsDone, OtherTyped, monVars
    <2> QED BY <1>1, <1>2, <2>2 DEF OtherTyped
  <1>4. /\ k = "stop" => l = "phase"
        /\ k = "phase" => l = "mondone"
        /\ k = "mondone" => l = "done"
        /\ failed[r] \subseteq F /\ p = phase[r] /\ e = entered[r] /\ k = pc[r]
    OBVIOUS
  <1> HIDE DEF p, e, k, l, U, F
  <1>5. EnteredOk(flags, l, p, e)
    BY <1>1, <1>2, <1>4 DEF EnteredOk, Early, InStep
  <1>6. FirstOk(flags, l, p, e) /\ e >= entered[r]
    BY <1>1, <1>2, <1>4 DEF FirstOk, InStep
  <1>7. Wrote(l, p) => Wrote(pc[r], phase[r])
    BY <1>1, <1>2, <1>4 DEF Wrote, InStep
  <1>8. Writes1 /\ AllWrote(l, p) => \/ AllWrote(pc[r], phase[r])
                                     \/ \A i \in Rank : entered[i] >= Base(flags) + 2
    <2>1. CASE k = "stop" /\ p = 1 /\ Writes1
      <3>1. e >= Base(flags) + 2
        BY <1>2, <2>1 DEF FirstOk, InStep
      <3>2. \A i \in Rank : entered[i] \in Nat
        BY RankFacts
      <3> QED BY <1>1, <1>2, <2>1, <3>1, <3>2
    <2> QED BY <1>1, <1>2, <1>4, <2>1 DEF AllWrote
  <1>9. l \in Label \ {"step"} /\ pc[r] \notin Early /\ l # "stop" /\ l # "start"
    BY <1>1, <1>4 DEF Early, Label
  <1>10. dirs \subseteq dirs' /\ dirs' \subseteq Rank
    BY <1>1, <1>2
  <1>11. /\ l \in Label \ {"step"} /\ p \in Phases /\ e \in Counts /\ U \in SUBSET Fids
         /\ F \in SUBSET Faults /\ failed[r] \subseteq F
    BY <1>2, <1>4, <1>9
  <1>12. /\ pc' = [pc EXCEPT ![r] = l] /\ phase' = [phase EXCEPT ![r] = p]
         /\ entered' = [entered EXCEPT ![r] = e] /\ used' = [used EXCEPT ![r] = U]
         /\ failed' = [failed EXCEPT ![r] = F] /\ handle' = handle /\ pend' = pend /\ names' = names
    BY <1>1, <1>2
  <1>13. /\ l \notin Early /\ Makes(flags, r) => pc[r] \notin Early \/ DirOf(flags, r) \in dirs'
         /\ l = "stop" => pc[r] \in {"step", "stop"}
         /\ l = "start" => U = {}
         /\ n > 0 /\ writes = n /\ write_phases > 0 /\ Wrote(l, p) => Wrote(pc[r], phase[r])
    BY <1>7, <1>9
  <1> QED BY <1>3, <1>5, <1>6, <1>8, <1>10, <1>11, <1>12, <1>13, MoveStep, ZenonT(60)


(***************************************************************************)
(* The steps of a phase.                                                   *)
(***************************************************************************)
\* A rank that has entered the first barrier of a phase and seen all others enter it
\* finds its directory.
LEMMA DirFound ==
    ASSUME ClientInv, NEW r \in Rank, pc[r] = "start", Passed(r)
    PROVE  DirOf(flags, r) \in dirs
  <1>1. pc[r] \notin Early /\ EnteredOk(flags, pc[r], phase[r], entered[r])
        /\ entered[r] \in Nat /\ entered[0] \in Nat /\ Base(flags) \in {0, 1}
    BY Numbers, RankFacts DEF Early
  <1>2. CASE Makes(flags, r)
    BY <1>1, <1>2 DEF ClientInv, DirsMade
  <1>3. CASE ~Makes(flags, r)
    <2>1. entered[r] >= Base(flags) + 1
      BY <1>1 DEF EnteredOk
    <2>2. entered[0] >= Base(flags) + 1
      BY <1>1, <2>1, Numbers DEF Passed
    <2>3. EnteredOk(flags, pc[0], phase[0], entered[0])
      BY RankFacts, Numbers
    <2>4. pc[0] \notin Early
      BY <1>1, <2>2, <2>3 DEF EnteredOk, Early
    <2>5. DirOf(flags, 0) = 0 /\ Makes(flags, 0) /\ DirOf(flags, r) = 0
      BY <1>3 DEF DirOf, Makes
    <2>6. DirOf(flags, 0) \in dirs
      BY <2>4, <2>5, Numbers DEF ClientInv, DirsMade
    <2> QED BY <2>5, <2>6
  <1> QED BY <1>2, <1>3

LEMMA StartStepStep ==
    ASSUME ClientInv, NEW r \in Rank, StartStep(r), flags' = flags
    PROVE  ClientInv'
  <1>0. /\ pc[r] = "start" /\ Passed(r) /\ pc' = [pc EXCEPT ![r] = "step"]
        /\ UNCHANGED <<phase, entered, map, dirs, names, pend, used, monVars>>
    BY DEF StartStep, At, Goto
  <1> DEFINE l == "step"
             p == phase[r]
             e == entered[r]
             P == pend[r]
             U == used[r]
             N == names'
             D == dirs'
  <1>1. PICK H \in {"none", "null", "open"}, F \in SUBSET Faults :
           /\ handle' = [handle EXCEPT ![r] = H] /\ failed' = [failed EXCEPT ![r] = F]
           /\ F = {} => H # "null"
           /\ aborted' \in BOOLEAN
    <2>0. /\ handle[r] \in {"none", "null", "open"} /\ failed[r] \in SUBSET Faults
          /\ handle = [handle EXCEPT ![r] = handle[r]] /\ failed = [failed EXCEPT ![r] = failed[r]]
          /\ RankNames(flags, r, pc[r], p, names, P, U, failed[r], handle[r])
          /\ aborted \in BOOLEAN
      BY RankFacts DEF OtherTyped
    <2>1. failed[r] = {} => handle[r] # "null"
      BY <2>0 DEF RankNames
    <2>2. CASE UNCHANGED <<handle, failed, aborted>>
      BY <2>0, <2>1, <2>2
    <2>3. CASE handle' = [handle EXCEPT ![r] = "open"] /\ UNCHANGED <<failed, aborted>>
      BY <2>0, <2>3
    <2>4. CASE handle' = [handle EXCEPT ![r] = "null"] /\ Fails(r, "init", FALSE)
      <3> DEFINE F == failed[r] \cup {"init"}
      <3>1. F \in SUBSET Faults /\ F # {} /\ failed' = [failed EXCEPT ![r] = F] /\ aborted' = FALSE
        BY <2>0, <2>4 DEF Fails
      <3> QED BY <2>4, <3>1
    <2> QED BY <2>2, <2>3, <2>4 DEF StartStep
  <1>2. /\ p \in Phases /\ phase' = [phase EXCEPT ![r] = p]
        /\ e \in Counts /\ entered' = [entered EXCEPT ![r] = e]
        /\ U \in SUBSET Fids /\ used' = [used EXCEPT ![r] = U]
        /\ P \in SUBSET (Rank \X Nat) /\ pend' = [pend EXCEPT ![r] = P]
        /\ OtherTyped /\ D \subseteq Rank /\ dirs \subseteq D /\ names \subseteq N
        /\ N \subseteq AllNames(flags)
        /\ p \in Nat /\ e \in Nat /\ Base(flags) \in {0, 1}
        /\ EnteredOk(flags, pc[r], p, e) /\ FirstOk(flags, pc[r], p, e)
        /\ RankNames(flags, r, pc[r], p, names, P, U, failed[r], handle[r])
        /\ Writes1 /\ AllWrote(pc[r], p) => \A i \in Rank : entered[i] >= Base(flags) + 2
    BY <1>0, RankFacts
  <1>3. OtherTyped'
    BY <1>0, <1>1, <1>2 DEF OtherTyped, monVars
  <1>4. DirOf(flags, r) \in D
    BY <1>0, DirFound
  <1>5. l \in Label /\ e >= entered[r] /\ N = names /\ l = "step" /\ pc' = [pc EXCEPT ![r] = l]
    BY <1>0, <1>2 DEF Label
  <1>6. writes = n /\ write_phases > 0 /\ Wrote(l, p) /\ F = {} => NamesOf(flags, r, Fids) \subseteq N
    <2>1. SUFFICES ASSUME writes = n, write_phases > 0, p > 1, F = {}
                   PROVE  NamesOf(flags, r, Fids) \subseteq names
      BY <1>5 DEF Wrote, InStep
    <2>2. failed[r] = {}
      <3>1. failed'[r] = {}
        BY <1>1, <2>1, TypeParts
      <3> QED BY <3>1, TypeParts DEF StartStep, Fails
    <2> QED BY <1>2, <2>1, <2>2 DEF RankNames, Wrote
  <1> HIDE DEF l, p, e, P, U, N, D
  <1>7. EnteredOk(flags, l, p, e) /\ FirstOk(flags, l, p, e)
    BY <1>0, <1>2, <1>5 DEF EnteredOk, FirstOk, InStep, Early
  <1>8. Writes1 /\ AllWrote(l, p) => \A i \in Rank : entered[i] >= Base(flags) + 2
    BY <1>0, <1>2, <1>5 DEF AllWrote
  <1>9. RankNames(flags, r, l, p, N, P, U, F, H)
    <2>1. U = {} /\ NamesOf(flags, r, U) = {} /\ P \subseteq NamesOf(flags, r, Fids)
      BY <1>0, <1>2, NameFacts DEF RankNames
    <2> QED BY <1>1, <1>5, <1>6, <2>1 DEF RankNames
  <1>10. DirThere(flags, l, r, D) /\ (l \notin Early /\ Makes(flags, r) => DirOf(flags, r) \in D)
    BY <1>4 DEF DirThere
  <1>11. N = names' /\ D = dirs'
    BY DEF N, D
  <1> QED BY <1>1, <1>2, <1>3, <1>5, <1>7, <1>8, <1>9, <1>10, <1>11, RankStep, ZenonT(60)


\* A call of the loops succeeds or fails.
LEMMA OpOutcome ==
    ASSUME ClientInv, NEW r \in Rank, Succeeds \/ OpFails(r)
    PROVE  \E F \in SUBSET Faults : /\ failed' = [failed EXCEPT ![r] = F] /\ failed[r] \subseteq F
                                    /\ OpFails(r) => F # {}
                                    /\ aborted' \in BOOLEAN
  <1>1. /\ failed[r] \in SUBSET Faults /\ failed = [failed EXCEPT ![r] = failed[r]]
        /\ aborted \in BOOLEAN
    BY RankFacts DEF OtherTyped
  <1>2. CASE OpFails(r)
    <2> DEFINE F == failed[r] \cup {"op"}
    <2>1. abort_on_errors \in BOOLEAN
      BY ClientJobAssumption DEF ClientInv, TypeOK, abort_on_errors
    <2>2. /\ F \in SUBSET Faults /\ F # {} /\ failed' = [failed EXCEPT ![r] = F]
          /\ failed[r] \subseteq F /\ aborted' \in BOOLEAN
      BY <1>1, <1>2, <2>1 DEF OpFails, Fails
    <2> QED BY <2>2
  <1>3. CASE Succeeds /\ ~OpFails(r)
    BY <1>1, <1>3 DEF Succeeds
  <1> QED BY <1>2, <1>3

\* What a turn of the loops leaves behind: the name is made or inserted, or something failed.
LEMMA OpEffect ==
    ASSUME ClientInv, NEW r \in Rank, NEW f \in Fids, Op(r, f)
    PROVE  \E P \in SUBSET (Rank \X Nat), F \in SUBSET Faults :
              /\ pend' = [pend EXCEPT ![r] = P] /\ failed' = [failed EXCEPT ![r] = F]
              /\ failed[r] \subseteq F /\ pend[r] \subseteq P /\ P \subseteq NamesOf(flags, r, Fids)
              /\ names \subseteq names' /\ names' \subseteq AllNames(flags)
              /\ F = {} /\ phase[r] <= write_phases =>
                     NameOf(flags, r, f) \in IF flags.method = "mkfle" THEN names' ELSE P
              /\ aborted' \in BOOLEAN
  <1> DEFINE x == NameOf(flags, r, f)
             R == pend[r]
             Q == pend[r] \cup {x}
             G == failed[r]
  <1>1. /\ G \in SUBSET Faults /\ failed = [failed EXCEPT ![r] = G]
        /\ R \in SUBSET (Rank \X Nat) /\ pend = [pend EXCEPT ![r] = R]
        /\ names \subseteq AllNames(flags)
        /\ RankNames(flags, r, pc[r], phase[r], names, R, used[r], G, handle[r])
    BY RankFacts
  <1>2. /\ R \subseteq NamesOf(flags, r, Fids) /\ (G = {} => handle[r] # "null")
    BY <1>1 DEF RankNames
  <1>3. /\ x \in NamesOf(flags, r, Fids) /\ x \in AllNames(flags) /\ x \in Rank \X Nat
        /\ x = <<Dir(r), Compose(r, f)>>
    BY NameFacts DEF NamesOf
  <1>4. /\ Q \in SUBSET (Rank \X Nat) /\ Q \subseteq NamesOf(flags, r, Fids) /\ R \subseteq Q
        /\ x \in Q /\ names \cup {x} \subseteq AllNames(flags)
    BY <1>1, <1>2, <1>3
  <1>5. CASE ~Writing(r)
    <2>1. DoReads(r)
      BY <1>5 DEF Op
    <2>2. PICK F \in SUBSET Faults : /\ failed' = [failed EXCEPT ![r] = F] /\ failed[r] \subseteq F
                                     /\ aborted' \in BOOLEAN
      BY <2>1, OpOutcome DEF DoReads
    <2>3. names' = names /\ pend' = pend /\ ~(phase[r] <= write_phases)
      BY <1>5, <2>1 DEF DoReads, Writing
    <2> QED BY <1>1, <1>2, <2>2, <2>3
  <1>6. CASE Writing(r) /\ Method = "mkfle"
    <2>1. DoWrites(r, x)
      BY <1>3, <1>6 DEF Op
    <2>2. PICK F \in SUBSET Faults : /\ failed' = [failed EXCEPT ![r] = F] /\ failed[r] \subseteq F
                                     /\ (OpFails(r) => F # {}) /\ aborted' \in BOOLEAN
      BY <2>1, OpOutcome DEF DoWrites
    <2>3. pend' = pend /\ (names' = names \cup {x} \/ (names' = names /\ OpFails(r)))
      BY <2>1 DEF DoWrites
    <2>4. flags.method = "mkfle"
      BY <1>6 DEF Method
    <2> HIDE DEF x
    <2>5. names \subseteq names' /\ names' \subseteq AllNames(flags) /\ (F = {} => x \in names')
      BY <1>1, <1>4, <2>2, <2>3
    <2> QED BY <1>1, <1>2, <2>2, <2>3, <2>4, <2>5 DEF x
  <1>7. CASE Writing(r) /\ Method # "mkfle"
    <2>1. DoBatchedWrites(r, x)
      BY <1>3, <1>7 DEF Op
    <2>2. flags.method # "mkfle" /\ names' = names
      BY <1>7, <2>1 DEF Method, DoBatchedWrites
    <2>3. CASE handle[r] = "null" /\ aborted' = TRUE /\ UNCHANGED <<pend, failed>>
      BY <1>1, <1>2, <2>2, <2>3
    <2>4. CASE pend' = [pend EXCEPT ![r] = @ \cup {x}] /\ (Succeeds \/ OpFails(r))
      <3>1. PICK F \in SUBSET Faults : /\ failed' = [failed EXCEPT ![r] = F]
                                       /\ failed[r] \subseteq F /\ aborted' \in BOOLEAN
        BY <2>4, OpOutcome
      <3>2. pend' = [pend EXCEPT ![r] = Q]
        BY <2>4
      <3> HIDE DEF Q
      <3> QED BY <1>1, <1>4, <2>2, <3>1, <3>2
    <2>5. CASE OpFails(r) /\ UNCHANGED pend
      <3>1. PICK F \in SUBSET Faults : /\ failed' = [failed EXCEPT ![r] = F] /\ F # {}
                                       /\ failed[r] \subseteq F /\ aborted' \in BOOLEAN
        BY <2>5, OpOutcome
      <3> QED BY <1>1, <1>2, <2>2, <2>5, <3>1
    <2> QED BY <2>1, <2>3, <2>4, <2>5 DEF DoBatchedWrites
  <1> QED BY <1>5, <1>6, <1>7

LEMMA OpStep ==
    ASSUME ClientInv, NEW r \in Rank, NEW f \in Fids, Op(r, f), flags' = flags
    PROVE  ClientInv'
  <1>0. /\ pc[r] = "step" /\ used' = [used EXCEPT ![r] = used[r] \cup {f}]
        /\ UNCHANGED <<pc, phase, entered, map, dirs, handle, monVars>>
    BY DEF Op, At
  <1> DEFINE l == pc[r]
             p == phase[r]
             e == entered[r]
             U == used[r] \cup {f}
             O == used[r]
             H == handle[r]
             R == pend[r]
             G == failed[r]
             x == NameOf(flags, r, f)
             N == names'
             D == dirs'
  <1>1. PICK P \in SUBSET (Rank \X Nat), F \in SUBSET Faults :
              /\ pend' = [pend EXCEPT ![r] = P] /\ failed' = [failed EXCEPT ![r] = F]
              /\ G \subseteq F /\ R \subseteq P /\ P \subseteq NamesOf(flags, r, Fids)
              /\ names \subseteq N /\ N \subseteq AllNames(flags)
              /\ F = {} /\ p <= write_phases => x \in IF flags.method = "mkfle" THEN N ELSE P
              /\ aborted' \in BOOLEAN
    BY OpEffect
  <1>2. /\ l \in Label /\ pc' = [pc EXCEPT ![r] = l]
        /\ p \in Phases /\ phase' = [phase EXCEPT ![r] = p]
        /\ e \in Counts /\ entered' = [entered EXCEPT ![r] = e]
        /\ U \in SUBSET Fids /\ used' = [used EXCEPT ![r] = U]
        /\ H \in {"none", "null", "open"} /\ handle' = [handle EXCEPT ![r] = H]
        /\ OtherTyped /\ D \subseteq Rank /\ dirs \subseteq D
        /\ EnteredOk(flags, l, p, e) /\ FirstOk(flags, l, p, e)
        /\ l \notin Early /\ Makes(flags, r) => DirOf(flags, r) \in D
        /\ DirThere(flags, l, r, D)
        /\ RankNames(flags, r, l, p, names, R, O, G, H)
        /\ Writes1 /\ AllWrote(l, p) => \A i \in Rank : entered[i] >= Base(flags) + 2
    BY <1>0, RankFacts
  <1>3. OtherTyped'
    BY <1>0, <1>1, <1>2 DEF OtherTyped, monVars
  <1>4. NamesOf(flags, r, U) = NamesOf(flags, r, O) \cup {x}
    BY NameFacts
  <1>5. e >= entered[r] /\ N = names' /\ D = dirs' /\ l = "step"
    BY <1>0, RankFacts
  <1> HIDE DEF l, p, e, U, O, H, R, G, x, N, D
  <1>6. RankNames(flags, r, l, p, N, P, U, F, H)
    <2>1. ASSUME F = {}
          PROVE  /\ H # "null"
                 /\ p <= write_phases =>
                       NamesOf(flags, r, U) \subseteq IF flags.method = "mkfle" THEN N ELSE P
                 /\ writes = n /\ write_phases > 0 /\ Wrote(l, p) =>
                       NamesOf(flags, r, Fids) \subseteq N
      <3>1. G = {}
        BY <1>1, <2>1
      <3>2. H # "null"
        BY <1>2, <3>1 DEF RankNames
      <3>3. p <= write_phases =>
               NamesOf(flags, r, O) \subseteq IF flags.method = "mkfle" THEN names ELSE R
        BY <1>2, <1>5, <3>1 DEF RankNames
      <3>4. p <= write_phases =>
               NamesOf(flags, r, U) \subseteq IF flags.method = "mkfle" THEN N ELSE P
        BY <1>1, <1>4, <2>1, <3>3
      <3>5. writes = n /\ write_phases > 0 /\ Wrote(l, p) => NamesOf(flags, r, Fids) \subseteq names
        BY <1>2, <3>1 DEF RankNames
      <3> QED BY <1>1, <3>2, <3>4, <3>5
    <2> QED BY <1>1, <1>5, <2>1 DEF RankNames
  <1> QED BY <1>1, <1>2, <1>3, <1>5, <1>6, RankStep, ZenonT(60)


\* As many fids as there are: all of them.
LEMMA AllFids ==
    ASSUME NEW U \in SUBSET Fids, Cardinality(U) = n
    PROVE  U = Fids
  <1>1. IsFiniteSet(Fids) /\ Cardinality(Fids) = n
    <2>1. n - 1 \in Int /\ n \in Nat /\ (n = 0 \/ n > 0)
      BY Numbers
    <2>2. IsFiniteSet(0 .. n - 1)
          /\ Cardinality(0 .. n - 1) = IF 0 > n - 1 THEN 0 ELSE (n - 1) - 0 + 1
      BY <2>1, FS_Interval
    <2> QED BY <2>1, <2>2 DEF Fids
  <1> QED BY <1>1, FS_Subset

LEMMA EndStepStep ==
    ASSUME ClientInv, NEW r \in Rank, EndStep(r), flags' = flags
    PROVE  ClientInv'
  <1>0. /\ pc[r] = "step" /\ Cardinality(used[r]) = Ops(r)
        /\ handle' = [handle EXCEPT ![r] = "none"] /\ pend' = [pend EXCEPT ![r] = {}]
        /\ pc' = [pc EXCEPT ![r] = "stop"] /\ entered' = [entered EXCEPT ![r] = entered[r] + 1]
        /\ UNCHANGED <<phase, map, dirs, used, monVars>>
    BY DEF EndStep, At, Goto, Enter
  <1> DEFINE l == "stop"
             p == phase[r]
             d == entered[r]
             e == entered[r] + 1
             U == used[r]
             H == "none"
             P == {}
             R == pend[r]
             G == failed[r]
             N == names'
             D == dirs'
  <1>1. /\ p \in Phases /\ phase' = [phase EXCEPT ![r] = p]
        /\ U \in SUBSET Fids /\ used' = [used EXCEPT ![r] = U]
        /\ OtherTyped /\ D \subseteq Rank /\ dirs \subseteq D
        /\ p \in Nat /\ d \in Nat /\ Base(flags) \in {0, 1}
        /\ EnteredOk(flags, "step", p, d) /\ FirstOk(flags, "step", p, d)
        /\ "step" \notin Early /\ Makes(flags, r) => DirOf(flags, r) \in D
        /\ DirThere(flags, "step", r, D)
        /\ RankNames(flags, r, "step", p, names, R, U, G, handle[r])
        /\ Writes1 /\ AllWrote("step", p) => \A i \in Rank : entered[i] >= Base(flags) + 2
        /\ names \subseteq AllNames(flags)
        /\ G \in SUBSET Faults /\ failed = [failed EXCEPT ![r] = G]
    BY <1>0, RankFacts
  <1>2. R \subseteq AllNames(flags)
    BY <1>1, NameFacts DEF RankNames
  <1>3. PICK F \in SUBSET Faults :
           /\ failed' = [failed EXCEPT ![r] = F] /\ G \subseteq F
           /\ F = {} => N = names \cup R
           /\ names \subseteq N /\ N \subseteq AllNames(flags)
           /\ aborted' \in BOOLEAN
    <2>1. CASE names' = names \cup pend[r] /\ UNCHANGED <<failed, aborted>>
      BY <1>1, <1>2, <2>1 DEF OtherTyped
    <2>2. CASE /\ Fails(r, "commit", abort_on_errors)
               /\ \E some \in SUBSET pend[r] : names' = names \cup some
      <3> DEFINE F == G \cup {"commit"}
      <3>1. abort_on_errors \in BOOLEAN
        BY ClientJobAssumption DEF ClientInv, TypeOK, abort_on_errors
      <3>2. F \in SUBSET Faults /\ failed' = [failed EXCEPT ![r] = F] /\ G \subseteq F /\ F # {}
            /\ aborted' \in BOOLEAN
        BY <1>1, <2>2, <3>1 DEF Fails
      <3>3. names \subseteq N /\ N \subseteq AllNames(flags)
        BY <1>1, <1>2, <2>2
      <3> QED BY <3>2, <3>3
    <2> QED BY <2>1, <2>2 DEF EndStep
  <1>4. OtherTyped'
    BY <1>0, <1>1, <1>3 DEF OtherTyped, monVars
  <1>5. /\ pc' = [pc EXCEPT ![r] = l] /\ entered' = [entered EXCEPT ![r] = e]
        /\ handle' = [handle EXCEPT ![r] = H] /\ pend' = [pend EXCEPT ![r] = P]
        /\ l = "stop" /\ l \in Label /\ H = "none" /\ H \in {"none", "null", "open"} /\ P = {}
        /\ P \in SUBSET (Rank \X Nat) /\ e = d + 1 /\ N = names' /\ D = dirs'
    BY <1>0 DEF Label
  <1>6. p <= write_phases /\ writes = n => U = Fids
    BY <1>0, <1>1, AllFids DEF Ops, Writing
  <1>7. e >= entered[r]
    BY <1>1
  <1> HIDE DEF l, p, d, e, U, H, P, R, G, N, D
  <1>8. EnteredOk(flags, l, p, e) /\ FirstOk(flags, l, p, e) /\ e <= 2 * p + 1
    BY <1>1, <1>5 DEF EnteredOk, FirstOk, Early, InStep
  <1>9. e \in Counts
    <2>1. p <= write_phases + read_phases /\ write_phases \in Nat /\ read_phases \in Nat
      BY <1>1, Numbers DEF Phases
    <2> QED BY <1>1, <1>5, <1>8, <2>1 DEF Counts
  <1>10. (l \notin Early /\ Makes(flags, r) => DirOf(flags, r) \in D) /\ DirThere(flags, l, r, D)
    BY <1>1 DEF DirThere
  <1>11. Writes1 /\ AllWrote(l, p) => \A i \in Rank : entered[i] >= Base(flags) + 2
    BY <1>1, <1>5 DEF AllWrote
  <1>12. RankNames(flags, r, l, p, N, P, U, F, H)
    <2>1. ASSUME F = {}, writes = n, write_phases > 0 PROVE NamesOf(flags, r, Fids) \subseteq N
      <3>1. G = {} /\ N = names \cup R
        BY <1>3, <2>1
      <3>2. CASE p <= write_phases
        <4>1. NamesOf(flags, r, U) \subseteq IF flags.method = "mkfle" THEN names ELSE R
          BY <1>1, <3>1, <3>2 DEF RankNames
        <4> QED BY <1>6, <2>1, <3>1, <3>2, <4>1
      <3>3. CASE p > write_phases
        <4>1. Wrote("step", p)
          BY <1>1, <2>1, <3>3, Numbers DEF Wrote
        <4> QED BY <1>1, <2>1, <3>1, <4>1 DEF RankNames
      <3> QED BY <1>1, <3>2, <3>3, Numbers
    <2> QED BY <1>5, <2>1 DEF RankNames
  <1> QED BY <1>1, <1>3, <1>4, <1>5, <1>7, <1>8, <1>9, <1>10, <1>11, <1>12, RankStep, ZenonT(60)
-----------------------------------------------------------------------------
(***************************************************************************)
(* The steps of the monitoring thread and stuttering ones change none of   *)
(* what the invariant is about.                                            *)
(***************************************************************************)
LEMMA OtherSteps ==
    ASSUME ClientInv, flags' = flags, OtherTyped',
           UNCHANGED <<pc, phase, entered, dirs, names, handle, pend, used, failed>>
    PROVE  ClientInv'
  <1>1. TypeOK'
    BY DEF ClientInv, TypeOK, OtherTyped
  <1>2. Barriers' /\ DirsMade' /\ DirsThere'
    BY DEF ClientInv, Barriers, DirsMade, DirsThere
  <1>3. NamesOk'
    BY DEF ClientInv, NamesOk
  <1> QED BY <1>1, <1>2, <1>3 DEF ClientInv

LEMMA MonitorStep ==
    ASSUME ClientInv, NEW r \in Rank, Monitor(r), flags' = flags
    PROVE  ClientInv'
  <1>1. UNCHANGED <<pc, phase, entered, map, dirs, names, handle, pend, used, failed, mon_done,
                    aborted>>
    BY DEF Monitor, MonitorConnects, MonitorEnds, fsVars
  <1>2. OtherTyped
    BY TypeParts
  <1>3. /\ thread' \in [Rank -> {"none", "new", "run", "failed", "ended"}]
        /\ is_mon_running' \in [Rank -> BOOLEAN]
    BY <1>2 DEF OtherTyped, Monitor, MonitorConnects, MonitorEnds
  <1>4. OtherTyped'
    BY <1>1, <1>2, <1>3 DEF OtherTyped
  <1> QED BY <1>1, <1>4, OtherSteps

LEMMA ClientInductive ==
    ASSUME ClientInv, [Next]_<<flags, vars>>
    PROVE  ClientInv'
  <1>1. CASE Next
    <2>1. flags' = flags
      BY <1>1 DEF Next
    <2>2. PICK r \in Rank : Main(r) \/ Monitor(r)
      BY <1>1 DEF Next
    <2>3. CASE Monitor(r)
      BY <2>1, <2>3, MonitorStep
    <2>4. CASE Main(r)
      <3>1. CASE ObtainSvrMap(r)
        BY <2>1, <3>1, ObtainSvrMapStep
      <3>2. CASE ParseMapData(r) \/ Open(r) \/ PrepareRun(r) \/ StartMonitor(r) \/ MonitorRuns(r)
        BY <2>1, <3>2, EarlyActions
      <3>3. CASE BeginPhase(r)
        BY <2>1, <3>3, BeginPhaseStep
      <3>4. CASE StartStep(r)
        BY <2>1, <3>4, StartStepStep
      <3>5. CASE \E f \in Fids : Op(r, f)
        BY <2>1, <3>5, OpStep
      <3>6. CASE EndStep(r)
        BY <2>1, <3>6, EndStepStep
      <3>7. CASE StepDone(r) \/ StopMonitor(r) \/ RunStepsDone(r)
        BY <2>1, <3>7, PhaseMoves
      <3> QED BY <2>4, <3>1, <3>2, <3>3, <3>4, <3>5, <3>6, <3>7 DEF Main
    <2> QED BY <2>2, <2>3, <2>4
  <1>2. CASE UNCHANGED <<flags, vars>>
    <2>1. OtherTyped
      BY TypeParts
    <2>2. OtherTyped'
      BY <1>2, <2>1 DEF OtherTyped, vars, monVars
    <2>3. flags' = flags
          /\ UNCHANGED <<pc, phase, entered, dirs, names, handle, pend, used, failed>>
      BY <1>2 DEF vars, fsVars
    <2> QED BY <2>2, <2>3, OtherSteps
  <1> QED BY <1>1, <1>2

LEMMA ClientInvariant == Spec => []ClientInv
  <1>1. Init => ClientInv
    BY InitClient
  <1>2. ClientInv /\ [Next]_<<flags, vars>> => ClientInv'
    BY ClientInductive
  <1> QED BY <1>1, <1>2, PTL DEF Spec
-----------------------------------------------------------------------------
\* The state of a job has its type: the number of barriers that a rank has entered stays
\* within two for every phase and the broadcast of the map.
THEOREM ClientTypes == Spec => []TypeOK
  <1>1. ClientInv => TypeOK
    BY DEF ClientInv
  <1> QED BY <1>1, ClientInvariant, PTL

\* A rank that creates or stats files does so in a directory that exists, whoever makes
\* it: the barrier of RunStep holds the ranks back until rank 0 has made the shared one.
THEOREM DirReadyTheorem == Spec => []DirReady
  <1>1. ClientInv => DirReady
    BY NameFacts DEF ClientInv, DirsThere, DirThere, DirReady
  <1> QED BY <1>1, ClientInvariant, PTL

\* When nothing failed in the write phases, comm_size * writes different names exist once
\* a rank has passed the second barrier of the last of them.
THEOREM AllNamesThereTheorem == Spec => []AllNamesThere
  <1>1. ClientInv => AllNamesThere
    <2> SUFFICES ASSUME ClientInv, write_phases > 0, writes = n,
                        \A i \in Rank : failed[i] = {},
                        NEW r \in Rank, pc[r] = "phase", phase[r] = write_phases
                 PROVE  Cardinality(names) = comm_size * writes
      BY DEF AllNamesThere
    <2>1. names \subseteq AllNames(flags)
      BY DEF ClientInv, NamesOk
    <2>2. n \in Nat /\ write_phases \in Nat
      BY Numbers
    <2>3. AllNames(flags) \subseteq names
      <3>1. CASE n = 0
        <4>1. Fids = {}
          BY <3>1 DEF Fids
        <4> QED BY <4>1 DEF AllNames, NamesOf
      <3>2. CASE n > 0
        <4>1. Writes1 /\ AllWrote(pc[r], phase[r])
          BY <2>2, <3>2 DEF Writes1, AllWrote
        <4>2. \A i \in Rank : entered[i] >= Base(flags) + 2
          BY <4>1, RankFacts
        <4>3. ASSUME NEW i \in Rank PROVE NamesOf(flags, i, Fids) \subseteq names
          <5> DEFINE k == pc[i]
                     p == phase[i]
                     e == entered[i]
          <5>1. FirstOk(flags, k, p, e) /\ e >= Base(flags) + 2 /\ p \in Nat /\ e \in Nat
                /\ Base(flags) \in {0, 1}
            BY <4>2, RankFacts
          <5>2. RankNames(flags, i, k, p, names, pend[i], used[i], failed[i], handle[i])
                /\ failed[i] = {}
            BY RankFacts
          <5> HIDE DEF k, p, e
          <5>3. Wrote(k, p)
            BY <4>1, <5>1 DEF FirstOk, Wrote
          <5> QED BY <5>2, <5>3 DEF RankNames
        <4> QED BY <4>3 DEF AllNames
      <3> QED BY <2>2, <3>1, <3>2
    <2>4. names = AllNames(flags)
      BY <2>1, <2>3
    <2> QED BY <2>4, CountNames
  <1> QED BY <1>1, ClientInvariant, PTL
=============================================================================
