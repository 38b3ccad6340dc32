--------------------------- MODULE ServerJobProofs ---------------------------
(***************************************************************************)
(* Proofs that a server job uses nothing it has deleted and loses no       *)
(* create it has acknowledged, for any number of ranks, ports, threads and *)
(* requests.                                                               *)
(***************************************************************************)
EXTENDS ServerJob, FiniteSetTheorems, TLAPS

(***************************************************************************)
(* The receiving threads f of a port, and how they are counted.            *)
(***************************************************************************)
Active(f) == {t \in Thread : f[t] \in {"test", "recv", "eintr", "call"}}
Unopened(f) == \A t \in Thread : f[t] = "none"
Opened(f) == \A t \in Thread : f[t] # "none"
Started(f) == \A t \in Thread : f[t] \notin {"none", "new"}
Stopped(f) == \A t \in Thread : f[t] = "ended"

CountOk(v, f) ==
    /\ v.bg_threads = Cardinality(Active(f))
    /\ \/ Unopened(f) /\ v.bg_n = 0
       \/ Opened(f) /\ v.bg_n = rpc_threads

ThreadsCounted == \A s \in Svr : CountOk(svr[s], thr[s])

(***************************************************************************)
(* Where a rank is in opening and closing its ports.                       *)
(***************************************************************************)
Label == {"open", "openport", "bgstart", "info", "setinfo", "run", "test", "sleep", "close",
          "bgstop", "flush", "flushed", "delete", "done", "finalize"}
Closed == {"flush", "flushed", "delete", "done"}

\* The ports that are not open yet, that have all their threads, and that have none left.
ToOpen(label, p, i) == \/ label = "open" \/ (label = "openport" /\ i >= p)
                       \/ (label = "bgstart" /\ i > p)
Open(label, p, i) == \/ label \in {"info", "setinfo", "run", "test", "sleep", "close", "bgstop"}
                     \/ label \in {"openport", "bgstart"} /\ i < p
IsClosed(label, p, i) == label \in Closed \/ (label \in {"close", "bgstop"} /\ i < p)
Deleted(label, p, i) == label = "done" \/ (label = "delete" /\ i < p)

PortOk(label, p, i, f) ==
    /\ ToOpen(label, p, i) => Unopened(f)
    /\ Open(label, p, i) => Started(f)
    /\ label = "bgstart" /\ i = p => Opened(f)
    /\ IsClosed(label, p, i) => Stopped(f)

Barriers(label) ==
    CASE label \in {"open", "openport", "bgstart"} -> {0}
      [] label \in {"info", "setinfo", "run", "test", "sleep", "close", "bgstop"} -> {1}
      [] label = "flush" -> {2}
      [] label \in {"flushed", "delete", "done"} -> {3}
      [] OTHER -> {0, 1}

RankOk(label, p, e) == /\ e \in Barriers(label)
                       /\ label \in {"bgstart", "bgstop"} => p \in Ports
                       /\ label = "open" => p = 1

Phases == /\ \A r \in Rank : RankOk(pc[r], port[r], entered[r])
          /\ \A r \in Rank : \A i \in Ports : PortOk(pc[r], port[r], i, thr[<<r, i>>])

\* The objects of a rank.
FsOk(label, a) == label \notin {"open", "done", "finalize"} => Fs \in a
ObjectOk(label, p, i, f, a) == Opened(f) /\ ~Deleted(label, p, i) => i \in a /\ Fs \in a

Objects == \A r \in Rank :
    /\ FsOk(pc[r], alive[r])
    /\ \A i \in Ports : ObjectOk(pc[r], port[r], i, thr[<<r, i>>], alive[r])

(***************************************************************************)
(* The calls under way: those a receiving thread makes and those of the    *)
(* pool.                                                                   *)
(***************************************************************************)
InCall(q) == req[q] \in {"received", "queued", "running", "stored"}
Pooled(q) == InCall(q) /\ by[q] = None
PoolCalls(s) == {q \in Requests : Target[q] = s /\ Pooled(q)}

Calls ==
    /\ \A q \in Requests :
          /\ InCall(q) => Opened(thr[Target[q]])
          /\ by[q] # None => req[q] \in {"received", "stored"} /\ thr[Target[q]][by[q]] = "call"
          /\ req[q] = "received" => by[q] # None
          /\ req[q] \in {"stored", "acked"} => q \in db[Target[q][1]]
          /\ rpc_worker_threads = 0 => ~Pooled(q)
          /\ Deleted(pc[Target[q][1]], port[Target[q][1]], Target[q][2]) => ~InCall(q)
    /\ \A q, w \in Requests :
          by[q] # None /\ by[q] = by[w] /\ Target[q] = Target[w] => q = w

PoolCounted == \A s \in Svr : svr[s].bg_count = Cardinality(PoolCalls(s))

ServerInv == /\ TypeOK /\ ThreadsCounted /\ Phases /\ Objects /\ Calls /\ PoolCounted
             /\ AckedFlushed
-----------------------------------------------------------------------------
ThrState == {"none", "new", "test", "recv", "eintr", "call", "ended"}
FlushStatus == {Ok, "error"}
SvrState == [bg_n : {0, rpc_threads}, bg_threads : 0 .. rpc_threads,
             stop : BOOLEAN, failed : BOOLEAN, waiting : BOOLEAN,
             bg_count : 0 .. Cardinality(Requests)]

LEMMA SvrFacts ==
    /\ \A s \in Svr : s[1] \in Rank /\ s[2] \in Ports /\ s = <<s[1], s[2]>>
    /\ \A r \in Rank, i \in Ports : <<r, i>> \in Svr
    /\ \A q \in Requests : Target[q] \in Svr
  BY ServerJobAssumption DEF Svr

LEMMA ThreadFinite == IsFiniteSet(Thread) /\ Cardinality(Thread) = rpc_threads /\ Thread # {}
  <1>1. rpc_threads \in Nat /\ rpc_threads >= 1
    BY ServerJobAssumption
  <1>2. IsFiniteSet(1 .. rpc_threads) /\ Cardinality(1 .. rpc_threads) = rpc_threads
    BY <1>1, FS_Interval
  <1>3. 1 \in 1 .. rpc_threads
    BY <1>1
  <1> QED BY <1>2, <1>3 DEF Thread

LEMMA PortInt ==
    /\ ports_per_rank \in Nat
    /\ \A i \in Ports : i \in Nat /\ i >= 1 /\ i <= ports_per_rank /\ i + 1 \in 1 .. ports_per_rank + 1
  BY ServerJobAssumption DEF Ports

(***************************************************************************)
(* Counting threads.                                                       *)
(***************************************************************************)
LEMMA ActiveFinite ==
    ASSUME NEW f
    PROVE  /\ IsFiniteSet(Active(f)) /\ Cardinality(Active(f)) \in 0 .. rpc_threads
           /\ Cardinality(Active(f)) = rpc_threads => Active(f) = Thread
           /\ Cardinality(Active(f)) = 0 => Active(f) = {}
  <1>1. Active(f) \in SUBSET Thread
    BY DEF Active
  <1>2. /\ IsFiniteSet(Active(f)) /\ Cardinality(Active(f)) <= rpc_threads
        /\ rpc_threads = Cardinality(Active(f)) => Thread = Active(f)
    BY <1>1, ThreadFinite, FS_Subset
  <1>3. Cardinality(Active(f)) \in Nat
    BY <1>2, FS_CardinalityType
  <1>4. rpc_threads \in Nat
    BY ServerJobAssumption
  <1> QED BY <1>2, <1>3, <1>4, FS_EmptySet

\* One thread of a port changes its state.
LEMMA ActiveChange ==
    ASSUME NEW f \in [Thread -> ThrState], NEW t \in Thread, NEW x \in ThrState
    PROVE  LET g == [f EXCEPT ![t] = x]
           IN  /\ g \in [Thread -> ThrState]
               /\ t \in Active(f) /\ x \in {"test", "recv", "eintr", "call"} => Active(g) = Active(f)
               /\ f[t] = "new" /\ x = "test" => Cardinality(Active(g)) = Cardinality(Active(f)) + 1
               /\ t \in Active(f) /\ x = "ended" => Cardinality(Active(g)) = Cardinality(Active(f)) - 1
  <1> DEFINE g == [f EXCEPT ![t] = x]
  <1>1. g \in [Thread -> ThrState] /\ g[t] = x /\ \A u \in Thread \ {t} : g[u] = f[u]
    OBVIOUS
  <1> HIDE DEF g
  <1>2. t \in Active(f) /\ x \in {"test", "recv", "eintr", "call"} => Active(g) = Active(f)
    BY <1>1 DEF Active
  <1>3. ASSUME f[t] = "new", x = "test" PROVE Cardinality(Active(g)) = Cardinality(Active(f)) + 1
    <2>1. Active(g) = Active(f) \cup {t} /\ t \notin Active(f)
      BY <1>1, <1>3 DEF Active
    <2> QED BY <2>1, ActiveFinite, FS_AddElement
  <1>4. ASSUME t \in Active(f), x = "ended" PROVE Cardinality(Active(g)) = Cardinality(Active(f)) - 1
    <2>1. Active(g) = Active(f) \ {t}
      BY <1>1, <1>4 DEF Active
    <2> QED BY <2>1, <1>4, ActiveFinite, FS_RemoveElement
  <1> QED BY <1>1, <1>2, <1>3, <1>4 DEF g

LEMMA PhaseFacts ==
    ASSUME NEW f \in [Thread -> ThrState]
    PROVE  /\ Cardinality(Active(f)) >= rpc_threads => Started(f)
           /\ Cardinality(Active(f)) = 0 /\ Started(f) => Stopped(f)
           /\ Opened(f) => ~Unopened(f)
           /\ Started(f) => Opened(f)
           /\ Stopped(f) => Started(f)
  <1>1. Cardinality(Active(f)) >= rpc_threads => Started(f)
    <2>1. rpc_threads \in Nat
      BY ServerJobAssumption
    <2>2. Cardinality(Active(f)) >= rpc_threads => Active(f) = Thread
      BY <2>1, ActiveFinite
    <2> QED BY <2>2 DEF Active, Started
  <1>2. Cardinality(Active(f)) = 0 /\ Started(f) => Stopped(f)
    BY ActiveFinite DEF Active, Started, Stopped, ThrState
  <1>3. Opened(f) => ~Unopened(f)
    BY ThreadFinite DEF Opened, Unopened
  <1> QED BY <1>1, <1>2, <1>3 DEF Started, Opened, Stopped

(***************************************************************************)
(* Counting calls.                                                         *)
(***************************************************************************)
LEMMA PoolFinite ==
    ASSUME NEW s
    PROVE  /\ IsFiniteSet(PoolCalls(s)) /\ Cardinality(PoolCalls(s)) \in 0 .. Cardinality(Requests)
           /\ Cardinality(PoolCalls(s)) = 0 => PoolCalls(s) = {}
  <1>1. PoolCalls(s) \in SUBSET Requests /\ IsFiniteSet(Requests)
    BY ServerJobAssumption DEF PoolCalls
  <1>2. IsFiniteSet(PoolCalls(s)) /\ Cardinality(PoolCalls(s)) <= Cardinality(Requests)
    BY <1>1, FS_Subset
  <1>3. Cardinality(PoolCalls(s)) \in Nat /\ Cardinality(Requests) \in Nat
    BY <1>1, <1>2, FS_CardinalityType
  <1> QED BY <1>2, <1>3, FS_EmptySet

(***************************************************************************)
(* The invariant holds initially.                                          *)
(***************************************************************************)
LEMMA TypeParts ==
    ASSUME ServerInv
    PROVE  /\ pc \in [Rank -> Label] /\ port \in [Rank -> 1 .. ports_per_rank + 1]
           /\ entered \in [Rank -> 0 .. 3] /\ svr \in [Svr -> SvrState]
           /\ thr \in [Svr -> [Thread -> ThrState]]
           /\ alive \in [Rank -> SUBSET ({Fs} \cup Ports)]
           /\ flush_status \in [Rank -> FlushStatus]
           /\ flushed \in [Rank -> SUBSET Requests] /\ db \in [Rank -> SUBSET Requests]
  BY DEF ServerInv, TypeOK, Label, SvrState, ThrState, FlushStatus

LEMMA InitServer ==
    ASSUME Init
    PROVE  ServerInv
  <1>1. TypeOK
    <2>1. ports_per_rank \in Nat \ {0} /\ rpc_threads \in Nat \ {0}
      BY ServerJobAssumption
    <2>2. Cardinality(Requests) \in Nat
      BY ServerJobAssumption, FS_CardinalityType
    <2>3. MaxSignals \in Nat
      BY ServerJobAssumption DEF Init, MaxSignals
    <2>4. svr \in [Svr -> [bg_n : {0, rpc_threads}, bg_threads : 0 .. rpc_threads,
                        stop : BOOLEAN, failed : BOOLEAN, waiting : BOOLEAN,
                        bg_count : 0 .. Cardinality(Requests)]]
      <3>1. [bg_n |-> 0, bg_threads |-> 0, stop |-> FALSE, failed |-> FALSE, waiting |-> FALSE,
             bg_count |-> 0] \in [bg_n : {0, rpc_threads}, bg_threads : 0 .. rpc_threads,
                        stop : BOOLEAN, failed : BOOLEAN, waiting : BOOLEAN,
                        bg_count : 0 .. Cardinality(Requests)]
        BY <2>1, <2>2
      <3> QED BY <3>1 DEF Init
    <2>5. port \in [Rank -> 1 .. ports_per_rank + 1] /\ entered \in [Rank -> 0 .. 3]
      BY <2>1 DEF Init
    <2>6. signals \in [Rank -> 0 .. MaxSignals]
      BY <2>3 DEF Init
    <2>7. thr \in [Svr -> [Thread -> {"none", "new", "test", "recv", "eintr", "call", "ended"}]]
      BY DEF Init
    <2>8. handler \in [Rank -> {Nobody, MainThread} \cup (Ports \X Thread)]
      BY DEF Init
    <2>9. mu \in [Rank -> BOOLEAN] /\ shutting_down \in [Rank -> BOOLEAN]
      BY DEF Init
    <2> QED BY <2>4, <2>5, <2>6, <2>7, <2>8, <2>9 DEF Init, TypeOK
  <1>2. \A s \in Svr : svr[s].bg_n = 0 /\ svr[s].bg_threads = 0 /\ svr[s].bg_count = 0
    BY DEF Init
  <1>3. \A s \in Svr : thr[s] = [t \in Thread |-> "none"]
    BY DEF Init
  <1>4. Unopened([t \in Thread |-> "none"]) /\ Active([t \in Thread |-> "none"]) = {}
    BY DEF Unopened, Active
  <1>5. ThreadsCounted
    BY <1>2, <1>3, <1>4, FS_EmptySet DEF ThreadsCounted, CountOk
  <1>6. \A r \in Rank : pc[r] = "open" /\ port[r] = 1 /\ entered[r] = 0
    BY DEF Init
  <1>7. Phases
    <2>1. RankOk("open", 1, 0)
      BY DEF RankOk, Barriers
    <2>2. \A i \in Ports : PortOk("open", 1, i, [t \in Thread |-> "none"])
      BY <1>4 DEF PortOk, Open, IsClosed, Closed
    <2> QED BY <1>6, <1>3, <2>1, <2>2, SvrFacts DEF Phases
  <1>8. Objects
    <2>1. ~Opened([t \in Thread |-> "none"])
      BY ThreadFinite DEF Opened
    <2> QED BY <1>6, <1>3, <2>1, SvrFacts DEF Objects, FsOk, ObjectOk
  <1>9. \A q \in Requests : req[q] = "idle" /\ by[q] = None
    BY DEF Init
  <1>10. Calls
    BY <1>9 DEF Calls, InCall, Pooled
  <1>11. PoolCounted
    <2>1. \A s : PoolCalls(s) = {}
      BY <1>9 DEF PoolCalls, Pooled, InCall
    <2> QED BY <2>1, <1>2, FS_EmptySet DEF PoolCounted
  <1>12. AckedFlushed
    BY <1>9 DEF AckedFlushed
  <1> QED BY <1>1, <1>5, <1>7, <1>8, <1>10, <1>11, <1>12 DEF ServerInv
-----------------------------------------------------------------------------
(***************************************************************************)
(* A step of the main thread of a rank.                                    *)
(***************************************************************************)
SigTyped == /\ mu \in [Rank -> BOOLEAN] /\ shutting_down \in [Rank -> BOOLEAN]
            /\ signals \in [Rank -> 0 .. MaxSignals]
            /\ handler \in [Rank -> {Nobody, MainThread} \cup (Ports \X Thread)]
            /\ imap \in {"closed", "empty", "set"}

\* What a rank has flushed at label.
FlushOk(label, r, fl, st) ==
    rpc_worker_threads = 0 /\ label \in {"flushed", "delete", "done"} /\ st = Ok =>
        {q \in Requests : Target[q][1] = r /\ req[q] = "acked"} \subseteq fl

LEMMA MainStep ==
    ASSUME ServerInv, NEW r \in Rank, NEW l \in Label, NEW p \in 1 .. ports_per_rank + 1,
           NEW e \in 0 .. 3, NEW a \in SUBSET ({Fs} \cup Ports), NEW fl \in SUBSET Requests,
           NEW st \in FlushStatus,
           pc' = [pc EXCEPT ![r] = l], port' = [port EXCEPT ![r] = p],
           entered' = [entered EXCEPT ![r] = e], alive' = [alive EXCEPT ![r] = a],
           flushed' = [flushed EXCEPT ![r] = fl], flush_status' = [flush_status EXCEPT ![r] = st],
           flags' = flags, req' = req, by' = by, db' = db,
           svr' \in [Svr -> SvrState], thr' \in [Svr -> [Thread -> ThrState]], SigTyped',
           \A s \in Svr : CountOk(svr'[s], thr'[s]) /\ svr'[s].bg_count = svr[s].bg_count,
           \A s \in Svr : s[1] # r => thr'[s] = thr[s],
           \A q \in Requests : InCall(q) \/ by[q] # None => thr'[Target[q]] = thr[Target[q]],
           RankOk(l, p, e), \A i \in Ports : PortOk(l, p, i, thr'[<<r, i>>]),
           FsOk(l, a), \A i \in Ports : ObjectOk(l, p, i, thr'[<<r, i>>], a),
           \A q \in Requests : Target[q][1] = r /\ Deleted(l, p, Target[q][2]) => ~InCall(q),
           FlushOk(l, r, fl, st)
    PROVE  ServerInv'
  <1>0. /\ pc'[r] = l /\ port'[r] = p /\ entered'[r] = e /\ alive'[r] = a /\ flushed'[r] = fl
        /\ flush_status'[r] = st
        /\ \A i \in Rank \ {r} : /\ pc'[i] = pc[i] /\ port'[i] = port[i] /\ entered'[i] = entered[i]
                                 /\ alive'[i] = alive[i] /\ flushed'[i] = flushed[i]
                                 /\ flush_status'[i] = flush_status[i]
        /\ pc' \in [Rank -> Label] /\ port' \in [Rank -> 1 .. ports_per_rank + 1]
        /\ entered' \in [Rank -> 0 .. 3] /\ alive' \in [Rank -> SUBSET ({Fs} \cup Ports)]
        /\ flushed' \in [Rank -> SUBSET Requests] /\ flush_status' \in [Rank -> FlushStatus]
    BY TypeParts
  <1>1. TypeOK'
    BY <1>0 DEF ServerInv, TypeOK, SigTyped, Label, SvrState, ThrState, FlushStatus
  <1>2. ThreadsCounted'
    BY DEF ThreadsCounted
  <1>3. Phases'
    <2>1. ASSUME NEW k \in Rank PROVE RankOk(pc[k], port[k], entered[k])'
      BY <1>0 DEF ServerInv, Phases
    <2>2. ASSUME NEW k \in Rank, NEW i \in Ports PROVE PortOk(pc[k], port[k], i, thr[<<k, i>>])'
      <3>1. CASE k = r
        BY <1>0, <3>1
      <3>2. CASE k # r
        <4>1. <<k, i>> \in Svr /\ <<k, i>>[1] = k
          BY SvrFacts
        <4>2. thr'[<<k, i>>] = thr[<<k, i>>]
          BY <4>1, <3>2
        <4> QED BY <1>0, <3>2, <4>2 DEF ServerInv, Phases
      <3> QED BY <3>1, <3>2
    <2> QED BY <2>1, <2>2 DEF Phases
  <1>4. Objects'
    <2>1. ASSUME NEW k \in Rank PROVE FsOk(pc[k], alive[k])'
      BY <1>0 DEF ServerInv, Objects
    <2>2. ASSUME NEW k \in Rank, NEW i \in Ports
          PROVE  ObjectOk(pc[k], port[k], i, thr[<<k, i>>], alive[k])'
      <3>1. CASE k = r
        BY <1>0, <3>1
      <3>2. CASE k # r
        <4>1. <<k, i>> \in Svr /\ <<k, i>>[1] = k
          BY SvrFacts
        <4>2. thr'[<<k, i>>] = thr[<<k, i>>]
          BY <4>1, <3>2
        <4> QED BY <1>0, <3>2, <4>2 DEF ServerInv, Objects
      <3> QED BY <3>1, <3>2
    <2> QED BY <2>1, <2>2 DEF Objects
  <1>5. Calls'
    <2>1. \A q \in Requests : (InCall(q)' <=> InCall(q)) /\ (Pooled(q)' <=> Pooled(q))
      BY DEF InCall, Pooled
    <2>2. \A q \in Requests : Target[q][1] \in Rank
      BY SvrFacts
    <2>3. ASSUME NEW q \in Requests, Deleted(pc[Target[q][1]], port[Target[q][1]], Target[q][2])'
          PROVE  ~InCall(q)
      BY <2>2, <2>3, <1>0 DEF ServerInv, Calls
    <2> QED BY <2>1, <2>3 DEF ServerInv, Calls, rpc_worker_threads
  <1>6. PoolCounted'
    <2>1. \A s : PoolCalls(s)' = PoolCalls(s)
      BY DEF PoolCalls, Pooled, InCall
    <2> QED BY <2>1 DEF ServerInv, PoolCounted
  <1>7. AckedFlushed'
    BY <1>0 DEF AckedFlushed, ServerInv, FlushOk, rpc_worker_threads
  <1> QED BY <1>1, <1>2, <1>3, <1>4, <1>5, <1>6, <1>7 DEF ServerInv

\* A step that starts no threads, and that changes of a port at most whether it stops and
\* whether it is waited for.
CountsKept == /\ thr' = thr /\ svr' \in [Svr -> SvrState]
              /\ \A s \in Svr : /\ svr'[s].bg_n = svr[s].bg_n
                                /\ svr'[s].bg_threads = svr[s].bg_threads
                                /\ svr'[s].bg_count = svr[s].bg_count

LEMMA CountsKeptBy ==
    ASSUME ServerInv, thr' = thr
    PROVE  /\ svr' = svr => CountsKept
           /\ \A s \in Svr, w \in BOOLEAN :
                  svr' = [svr EXCEPT ![s].waiting = w] => CountsKept
           /\ \A s \in Svr, x, w \in BOOLEAN :
                  svr' = [svr EXCEPT ![s].stop = x, ![s].waiting = w] => CountsKept
  <1>1. svr \in [Svr -> SvrState]
    BY TypeParts
  <1>2. svr' = svr => CountsKept
    BY <1>1 DEF CountsKept
  <1>3. ASSUME NEW s \in Svr, NEW w \in BOOLEAN, svr' = [svr EXCEPT ![s].waiting = w]
        PROVE  CountsKept
    <2>1. [svr[s] EXCEPT !.waiting = w] \in SvrState
      BY <1>1 DEF SvrState
    <2>2. svr' \in [Svr -> SvrState]
      BY <1>1, <1>3, <2>1
    <2> QED BY <1>1, <1>3, <2>2 DEF CountsKept, SvrState
  <1>4. ASSUME NEW s \in Svr, NEW x \in BOOLEAN, NEW w \in BOOLEAN,
               svr' = [svr EXCEPT ![s].stop = x, ![s].waiting = w]
        PROVE  CountsKept
    <2>1. [svr[s] EXCEPT !.stop = x, !.waiting = w] \in SvrState
      BY <1>1 DEF SvrState
    <2>2. svr' \in [Svr -> SvrState]
      BY <1>1, <1>4, <2>1
    <2> QED BY <1>1, <1>4, <2>2 DEF CountsKept, SvrState
  <1> QED BY <1>2, <1>3, <1>4

LEMMA PlainStep ==
    ASSUME ServerInv, NEW r \in Rank, NEW l \in Label, NEW p \in 1 .. ports_per_rank + 1,
           NEW e \in 0 .. 3, NEW a \in SUBSET ({Fs} \cup Ports), NEW fl \in SUBSET Requests,
           NEW st \in FlushStatus,
           pc' = [pc EXCEPT ![r] = l], port' = [port EXCEPT ![r] = p],
           entered' = [entered EXCEPT ![r] = e], alive' = [alive EXCEPT ![r] = a],
           flushed' = [flushed EXCEPT ![r] = fl], flush_status' = [flush_status EXCEPT ![r] = st],
           flags' = flags, req' = req, by' = by, db' = db, SigTyped', CountsKept,
           RankOk(l, p, e), \A i \in Ports : PortOk(l, p, i, thr[<<r, i>>]),
           FsOk(l, a), \A i \in Ports : ObjectOk(l, p, i, thr[<<r, i>>], a),
           \A q \in Requests : Target[q][1] = r /\ Deleted(l, p, Target[q][2]) => ~InCall(q),
           FlushOk(l, r, fl, st)
    PROVE  ServerInv'
  <1>1. thr' = thr /\ thr' \in [Svr -> [Thread -> ThrState]] /\ svr' \in [Svr -> SvrState]
    BY TypeParts DEF CountsKept
  <1>2. \A s \in Svr : CountOk(svr'[s], thr'[s]) /\ svr'[s].bg_count = svr[s].bg_count
    BY DEF CountsKept, CountOk, ServerInv, ThreadsCounted
  <1>3. \A i \in Ports : PortOk(l, p, i, thr'[<<r, i>>])
    BY <1>1
  <1>4. \A i \in Ports : ObjectOk(l, p, i, thr'[<<r, i>>], a)
    BY <1>1
  <1>5. \A s \in Svr : s[1] # r => thr'[s] = thr[s]
    BY <1>1
  <1>6. \A q \in Requests : InCall(q) \/ by[q] # None => thr'[Target[q]] = thr[Target[q]]
    BY <1>1
  <1> QED BY <1>1, <1>2, <1>3, <1>4, <1>5, <1>6, MainStep

\* What is known of a rank before the step.
LEMMA RankFacts ==
    ASSUME ServerInv, NEW r \in Rank
    PROVE  /\ pc[r] \in Label /\ port[r] \in 1 .. ports_per_rank + 1 /\ entered[r] \in 0 .. 3
           /\ alive[r] \in SUBSET ({Fs} \cup Ports) /\ flushed[r] \in SUBSET Requests
           /\ flush_status[r] \in FlushStatus
           /\ pc = [pc EXCEPT ![r] = pc[r]] /\ port = [port EXCEPT ![r] = port[r]]
           /\ entered = [entered EXCEPT ![r] = entered[r]]
           /\ alive = [alive EXCEPT ![r] = alive[r]]
           /\ flushed = [flushed EXCEPT ![r] = flushed[r]]
           /\ flush_status = [flush_status EXCEPT ![r] = flush_status[r]]
           /\ RankOk(pc[r], port[r], entered[r])
           /\ \A i \in Ports : PortOk(pc[r], port[r], i, thr[<<r, i>>])
           /\ FsOk(pc[r], alive[r])
           /\ \A i \in Ports : ObjectOk(pc[r], port[r], i, thr[<<r, i>>], alive[r])
           /\ \A q \in Requests : Target[q][1] = r /\ Deleted(pc[r], port[r], Target[q][2])
                                      => ~InCall(q)
           /\ FlushOk(pc[r], r, flushed[r], flush_status[r])
           /\ SigTyped
  <1>1. /\ pc[r] \in Label /\ port[r] \in 1 .. ports_per_rank + 1 /\ entered[r] \in 0 .. 3
        /\ alive[r] \in SUBSET ({Fs} \cup Ports) /\ flushed[r] \in SUBSET Requests
           /\ flush_status[r] \in FlushStatus
    BY TypeParts
  <1>2. /\ pc = [pc EXCEPT ![r] = pc[r]] /\ port = [port EXCEPT ![r] = port[r]]
        /\ entered = [entered EXCEPT ![r] = entered[r]]
        /\ alive = [alive EXCEPT ![r] = alive[r]]
        /\ flushed = [flushed EXCEPT ![r] = flushed[r]]
           /\ flush_status = [flush_status EXCEPT ![r] = flush_status[r]]
    BY TypeParts
  <1>3. /\ RankOk(pc[r], port[r], entered[r])
        /\ \A i \in Ports : PortOk(pc[r], port[r], i, thr[<<r, i>>])
    BY DEF ServerInv, Phases
  <1>4. /\ FsOk(pc[r], alive[r])
        /\ \A i \in Ports : ObjectOk(pc[r], port[r], i, thr[<<r, i>>], alive[r])
    BY DEF ServerInv, Objects
  <1>5. \A q \in Requests : Target[q][1] = r /\ Deleted(pc[r], port[r], Target[q][2])
                                      => ~InCall(q)
    BY DEF ServerInv, Calls
  <1>6. FlushOk(pc[r], r, flushed[r], flush_status[r])
    BY DEF ServerInv, AckedFlushed, FlushOk
  <1>7. SigTyped
    BY DEF ServerInv, TypeOK, SigTyped
  <1> QED BY <1>1, <1>2, <1>3, <1>4, <1>5, <1>6, <1>7

LEMMA OpenFilesystemStep ==
    ASSUME ServerInv, NEW r \in Rank, OpenFilesystem(r), flags' = flags
    PROVE  ServerInv'
  <1> DEFINE p == port[r]
             e == entered[r]
             fl == flushed[r]
             st == flush_status[r]
  <1>0. /\ p \in 1 .. ports_per_rank + 1 /\ e \in 0 .. 3 /\ fl \in SUBSET Requests /\ st \in FlushStatus
        /\ port' = [port EXCEPT ![r] = p] /\ entered' = [entered EXCEPT ![r] = e]
        /\ flushed' = [flushed EXCEPT ![r] = fl] /\ flush_status' = [flush_status EXCEPT ![r] = st]
        /\ req' = req /\ by' = by /\ db' = db /\ SigTyped'
    BY RankFacts DEF OpenFilesystem, reqVars, dbVars, sigVars, SigTyped, MaxSignals
  <1>1. CountsKept
    BY CountsKeptBy DEF OpenFilesystem, rpcVars
  <1>2. RankOk("open", p, e) /\ (\A i \in Ports : PortOk("open", p, i, thr[<<r, i>>]))
    BY RankFacts DEF OpenFilesystem
  <1> HIDE DEF p, e, fl, st
  <1>3. \A i \in Ports : Unopened(thr[<<r, i>>]) /\ ~Opened(thr[<<r, i>>])
    BY <1>2, ThreadFinite DEF PortOk, ToOpen, Unopened, Opened
  <1>4. e = 0 /\ p = 1
    BY <1>2 DEF RankOk, Barriers
  <1>5. CASE Goto(r, "openport") /\ alive' = [alive EXCEPT ![r] = {Fs}]
    <2>1. "openport" \in Label /\ {Fs} \in SUBSET ({Fs} \cup Ports) /\ RankOk("openport", p, e)
      BY <1>4 DEF RankOk, Barriers, Label
    <2>2. \A i \in Ports : PortOk("openport", p, i, thr[<<r, i>>])
      BY <1>3, <1>4, PortInt DEF PortOk, Open, IsClosed, Closed
    <2>3. FsOk("openport", {Fs}) /\ \A i \in Ports : ObjectOk("openport", p, i, thr[<<r, i>>], {Fs})
      BY <1>3 DEF FsOk, ObjectOk
    <2>4. FlushOk("openport", r, fl, st) /\ \A i : ~Deleted("openport", p, i)
      BY DEF FlushOk, Deleted
    <2>5. pc' = [pc EXCEPT ![r] = "openport"]
      BY <1>5 DEF Goto
    <2> QED BY <1>0, <1>1, <1>5, <2>1, <2>2, <2>3, <2>4, <2>5, PlainStep
  <1>6. CASE Goto(r, "finalize") /\ alive' = alive
    <2> DEFINE a == alive[r]
    <2>1. a \in SUBSET ({Fs} \cup Ports) /\ alive' = [alive EXCEPT ![r] = a]
      BY <1>6, RankFacts
    <2> HIDE DEF a
    <2>2. "finalize" \in Label /\ RankOk("finalize", p, e)
      BY <1>4 DEF RankOk, Barriers, Label
    <2>3. \A i \in Ports : PortOk("finalize", p, i, thr[<<r, i>>])
      BY DEF PortOk, Open, ToOpen, IsClosed, Closed
    <2>4. FsOk("finalize", a) /\ \A i \in Ports : ObjectOk("finalize", p, i, thr[<<r, i>>], a)
      BY <1>3 DEF FsOk, ObjectOk
    <2>5. FlushOk("finalize", r, fl, st) /\ \A i : ~Deleted("finalize", p, i)
      BY DEF FlushOk, Deleted
    <2>6. pc' = [pc EXCEPT ![r] = "finalize"]
      BY <1>6 DEF Goto
    <2> QED BY <1>0, <1>1, <2>1, <2>2, <2>3, <2>4, <2>5, <2>6, PlainStep
  <1> QED BY <1>5, <1>6 DEF OpenFilesystem

\* A rank whose db or port cannot be opened gives up: its threads go on.
LEMMA GiveUp ==
    ASSUME ServerInv, NEW r \in Rank, NEW a \in SUBSET ({Fs} \cup Ports),
           pc[r] \in {"openport", "bgstart", "info"}, alive[r] \subseteq a,
           pc' = [pc EXCEPT ![r] = "finalize"], alive' = [alive EXCEPT ![r] = a],
           port' = port, entered' = entered, flushed' = flushed, flush_status' = flush_status,
           flags' = flags, req' = req, by' = by, db' = db, SigTyped', CountsKept
    PROVE  ServerInv'
  <1> DEFINE p == port[r]
             e == entered[r]
             fl == flushed[r]
             st == flush_status[r]
             l == pc[r]
             b == alive[r]
  <1>0. /\ p \in 1 .. ports_per_rank + 1 /\ e \in 0 .. 3 /\ fl \in SUBSET Requests /\ st \in FlushStatus
        /\ port' = [port EXCEPT ![r] = p] /\ entered' = [entered EXCEPT ![r] = e]
        /\ flushed' = [flushed EXCEPT ![r] = fl] /\ flush_status' = [flush_status EXCEPT ![r] = st]
        /\ l \in {"openport", "bgstart", "info"} /\ b \subseteq a
    BY RankFacts
  <1>1. RankOk(l, p, e) /\ (\A i \in Ports : ObjectOk(l, p, i, thr[<<r, i>>], b))
    BY RankFacts
  <1> HIDE DEF p, e, fl, st, l, b
  <1>2. "finalize" \in Label /\ RankOk("finalize", p, e)
    BY <1>0, <1>1 DEF RankOk, Barriers, Label
  <1>3. \A i \in Ports : PortOk("finalize", p, i, thr[<<r, i>>])
    BY DEF PortOk, Open, ToOpen, IsClosed, Closed
  <1>4. FsOk("finalize", a) /\ \A i \in Ports : ObjectOk("finalize", p, i, thr[<<r, i>>], a)
    BY <1>0, <1>1 DEF FsOk, ObjectOk, Deleted
  <1>5. FlushOk("finalize", r, fl, st) /\ \A i : ~Deleted("finalize", p, i)
    BY DEF FlushOk, Deleted
  <1> QED BY <1>0, <1>2, <1>3, <1>4, <1>5, PlainStep

LEMMA OpenPortStep ==
    ASSUME ServerInv, NEW r \in Rank, OpenPort(r), flags' = flags
    PROVE  ServerInv'
  <1> DEFINE p == port[r]
             e == entered[r]
             fl == flushed[r]
             st == flush_status[r]
             b == alive[r]
             a == b \cup {p}
             s == <<r, p>>
  <1>0. /\ p \in 1 .. ports_per_rank + 1 /\ e \in 0 .. 3 /\ fl \in SUBSET Requests /\ st \in FlushStatus
        /\ p <= ports_per_rank
        /\ port' = [port EXCEPT ![r] = p] /\ entered' = [entered EXCEPT ![r] = e]
        /\ flushed' = [flushed EXCEPT ![r] = fl]
        /\ flush_status' = [flush_status EXCEPT ![r] = st] /\ b \in SUBSET ({Fs} \cup Ports)
        /\ req' = req /\ by' = by /\ db' = db /\ SigTyped'
        /\ alive' = [alive EXCEPT ![r] = a] /\ pc[r] = "openport"
    BY RankFacts DEF OpenPort, reqVars, dbVars, sigVars, SigTyped, MaxSignals
  <1>1. /\ RankOk("openport", p, e) /\ (\A i \in Ports : PortOk("openport", p, i, thr[<<r, i>>]))
        /\ FsOk("openport", b)
        /\ \A i \in Ports : ObjectOk("openport", p, i, thr[<<r, i>>], b)
    BY RankFacts DEF OpenPort
  <1>2. CASE Goto(r, "finalize") /\ UNCHANGED rpcVars
    <2>1. CountsKept
      BY <1>2, CountsKeptBy DEF rpcVars
    <2>2. p \in Ports /\ a \in SUBSET ({Fs} \cup Ports) /\ alive[r] \subseteq a
      BY <1>0, PortInt DEF Ports
    <2>3. port' = port /\ entered' = entered /\ flushed' = flushed /\ flush_status' = flush_status
      BY DEF OpenPort, dbVars
    <2> HIDE DEF p, e, fl, st, a, b
    <2> QED BY <1>0, <1>2, <2>1, <2>2, <2>3, GiveUp DEF Goto
  <1>3. CASE OpenServer(s) /\ Goto(r, "bgstart")
    <2>1. p \in Ports /\ a \in SUBSET ({Fs} \cup Ports) /\ s \in Svr /\ s[1] = r
      BY <1>0, PortInt, SvrFacts DEF Ports
    <2> DEFINE new == [t \in Thread |-> "new"]
    <2>2. new \in [Thread -> ThrState] /\ Opened(new) /\ Active(new) = {}
      BY DEF ThrState, Opened, Active
    <2>3. thr' = [thr EXCEPT ![s] = new]
      BY <1>3 DEF OpenServer
    <2>4. svr' = [svr EXCEPT ![s].bg_n = @ + rpc_threads, ![s].waiting = TRUE]
      BY <1>3 DEF OpenServer
    <2>5. Unopened(thr[s])
      BY <1>0, <1>1, <2>1, PortInt DEF PortOk, ToOpen
    <2> HIDE DEF new
    <2>6. /\ thr' \in [Svr -> [Thread -> ThrState]] /\ thr'[s] = new
          /\ \A u \in Svr \ {s} : thr'[u] = thr[u]
      BY <2>1, <2>2, <2>3, TypeParts
    <2>7. svr[s].bg_n = 0 /\ svr[s].bg_threads = Cardinality(Active(thr[s]))
      BY <2>1, <2>5, ThreadFinite DEF ServerInv, ThreadsCounted, CountOk, Opened, Unopened
    <2>8. Active(thr[s]) = {}
      BY <2>5 DEF Active, Unopened
    <2>9. svr[s].bg_threads = 0
      BY <2>7, <2>8, FS_EmptySet
    <2>10. svr \in [Svr -> SvrState] /\ rpc_threads \in Nat /\ svr[s] \in SvrState
      BY <2>1, TypeParts, ServerJobAssumption
    <2> DEFINE v == [svr[s] EXCEPT !.bg_n = rpc_threads, !.waiting = TRUE]
    <2>11. v \in SvrState /\ v.bg_n = rpc_threads /\ v.bg_threads = 0 /\ v.bg_count = svr[s].bg_count
      BY <2>9, <2>10 DEF SvrState
    <2>12. svr' = [svr EXCEPT ![s] = v]
      <3>1. svr[s].bg_n + rpc_threads = rpc_threads
        BY <2>7, <2>10
      <3>2. svr' = [svr EXCEPT ![s] = [@ EXCEPT !.bg_n = svr[s].bg_n + rpc_threads,
                                                !.waiting = TRUE]]
        BY <2>4, <2>1, <2>10 DEF SvrState
      <3> QED BY <3>1, <3>2
    <2> HIDE DEF v
    <2>13. /\ svr' \in [Svr -> SvrState] /\ svr'[s] = v
           /\ \A u \in Svr \ {s} : svr'[u] = svr[u]
      BY <2>1, <2>10, <2>11, <2>12
    <2>14. \A u \in Svr : CountOk(svr'[u], thr'[u]) /\ svr'[u].bg_count = svr[u].bg_count
      <3>1. CountOk(v, new)
        BY <2>2, <2>11, FS_EmptySet DEF CountOk
      <3> QED BY <3>1, <2>6, <2>13, <2>11 DEF ServerInv, ThreadsCounted
    <2>15. \A u \in Svr : u[1] # r => thr'[u] = thr[u]
      BY <2>1, <2>6
    <2>16. \A q \in Requests : InCall(q) \/ by[q] # None => thr'[Target[q]] = thr[Target[q]]
      <3>1. ASSUME NEW q \in Requests, InCall(q) \/ by[q] # None PROVE Target[q] # s
        <4>1. InCall(q)
          BY <3>1 DEF ServerInv, Calls, InCall
        <4>2. Opened(thr[Target[q]])
          BY <4>1 DEF ServerInv, Calls
        <4> QED BY <4>2, <2>5, ThreadFinite DEF Opened, Unopened
      <3> QED BY <3>1, <2>6, SvrFacts
    <2>17. \A i \in Ports : thr'[<<r, i>>] = IF i = p THEN new ELSE thr[<<r, i>>]
      BY <2>6, SvrFacts
    <2> HIDE DEF s
    <2>18. "bgstart" \in Label /\ RankOk("bgstart", p, e)
      BY <1>1, <2>1 DEF RankOk, Barriers, Label
    <2>19. \A i \in Ports : PortOk("bgstart", p, i, thr'[<<r, i>>])
      BY <1>1, <1>0, <2>17, <2>2, PortInt DEF PortOk, ToOpen, Open, IsClosed, Closed
    <2>20. FsOk("bgstart", a) /\ \A i \in Ports : ObjectOk("bgstart", p, i, thr'[<<r, i>>], a)
      BY <1>1, <2>17, <2>2 DEF FsOk, ObjectOk, Deleted
    <2>21. FlushOk("bgstart", r, fl, st) /\ \A i : ~Deleted("bgstart", p, i)
      BY DEF FlushOk, Deleted
    <2>22. pc' = [pc EXCEPT ![r] = "bgstart"]
      BY <1>3 DEF Goto
    <2> HIDE DEF p, e, fl, st, a, b
    <2> QED BY <1>0, <2>1, <2>6, <2>13, <2>14, <2>15, <2>16, <2>18, <2>19, <2>20, <2>21, <2>22,
               MainStep
  <1> QED BY <1>2, <1>3 DEF OpenPort

\* A rank goes on to a label at which all it has opened is still there.
LEMMA MoveStep ==
    ASSUME ServerInv, NEW r \in Rank, NEW l \in Label, NEW p \in 1 .. ports_per_rank + 1,
           NEW e \in 0 .. 3, pc[r] \notin {"open", "delete", "done", "finalize"},
           l \notin {"flushed", "delete", "done"},
           pc' = [pc EXCEPT ![r] = l], port' = [port EXCEPT ![r] = p],
           entered' = [entered EXCEPT ![r] = e], alive' = alive, flushed' = flushed,
           flush_status' = flush_status,
           flags' = flags, req' = req, by' = by, db' = db, SigTyped', CountsKept,
           RankOk(l, p, e), \A i \in Ports : PortOk(l, p, i, thr[<<r, i>>])
    PROVE  ServerInv'
  <1> DEFINE k == pc[r]
             o == port[r]
             a == alive[r]
             fl == flushed[r]
             st == flush_status[r]
  <1>1. /\ a \in SUBSET ({Fs} \cup Ports) /\ fl \in SUBSET Requests /\ st \in FlushStatus
        /\ alive' = [alive EXCEPT ![r] = a] /\ flushed' = [flushed EXCEPT ![r] = fl]
        /\ flush_status' = [flush_status EXCEPT ![r] = st]
    BY RankFacts
  <1>2. FsOk(k, a) /\ \A i \in Ports : ObjectOk(k, o, i, thr[<<r, i>>], a)
    BY RankFacts
  <1>3. k \notin {"open", "delete", "done", "finalize"}
    OBVIOUS
  <1> HIDE DEF k, o, a, fl, st
  <1>4. FsOk(l, a) /\ \A i \in Ports : ObjectOk(l, p, i, thr[<<r, i>>], a)
    BY <1>2, <1>3 DEF FsOk, ObjectOk, Deleted
  <1>5. FlushOk(l, r, fl, st) /\ \A i : ~Deleted(l, p, i)
    BY DEF FlushOk, Deleted
  <1> QED BY <1>1, <1>4, <1>5, PlainStep

LEMMA BGStartStep ==
    ASSUME ServerInv, NEW r \in Rank, BGStart(r), flags' = flags
    PROVE  ServerInv'
  <1> DEFINE p == port[r]
             e == entered[r]
             s == <<r, p>>
             started == svr[s].bg_threads >= svr[s].bg_n
  <1>0. /\ e \in 0 .. 3 /\ entered' = [entered EXCEPT ![r] = e] /\ alive' = alive
        /\ flushed' = flushed
        /\ flush_status' = flush_status /\ req' = req /\ by' = by /\ db' = db /\ SigTyped'
        /\ pc[r] = "bgstart" /\ p \in 1 .. ports_per_rank + 1
        /\ entered' = entered
    BY RankFacts DEF BGStart, reqVars, dbVars, sigVars, SigTyped, MaxSignals
  <1>1. /\ RankOk("bgstart", p, e)
        /\ \A i \in Ports : PortOk("bgstart", p, i, thr[<<r, i>>])
    BY RankFacts DEF BGStart
  <1>2. p \in Ports /\ s \in Svr /\ e = 0
    BY <1>1, SvrFacts DEF RankOk, Barriers
  <1>3. CountsKept
    <2>1. (~started) \in BOOLEAN /\ svr' = [svr EXCEPT ![s].waiting = ~started] /\ thr' = thr
      BY DEF BGStart
    <2> HIDE DEF started
    <2> QED BY <1>2, <2>1, CountsKeptBy
  <1>4. CASE ~started
    <2>1. pc' = [pc EXCEPT ![r] = "bgstart"] /\ port' = [port EXCEPT ![r] = p]
      BY <1>4, <1>0 DEF BGStart
    <2>2. "bgstart" \in Label
      BY DEF Label
    <2> HIDE DEF p, e, s, started
    <2> QED BY <1>0, <1>1, <1>3, <2>1, <2>2, MoveStep
  <1>5. CASE started /\ svr[s].failed
    <2>1. pc' = [pc EXCEPT ![r] = "finalize"] /\ port' = [port EXCEPT ![r] = p]
      BY <1>5 DEF BGStart
    <2>2. port' = port /\ alive' = [alive EXCEPT ![r] = alive[r]]
          /\ alive[r] \in SUBSET ({Fs} \cup Ports)
      BY <1>0, <2>1, RankFacts
    <2> HIDE DEF p, e, s, started
    <2> QED BY <1>0, <1>3, <2>1, <2>2, GiveUp
  <1>6. CASE started /\ ~svr[s].failed
    <2>1. pc' = [pc EXCEPT ![r] = "openport"] /\ port' = [port EXCEPT ![r] = p + 1]
      BY <1>6 DEF BGStart
    <2>2. "openport" \in Label /\ p + 1 \in 1 .. ports_per_rank + 1 /\ RankOk("openport", p + 1, e)
      BY <1>2, PortInt DEF Label, RankOk, Barriers
    <2>3. Opened(thr[s])
      BY <1>1, <1>2 DEF PortOk
    <2>4. Started(thr[s])
      <3>1. svr[s].bg_threads = Cardinality(Active(thr[s])) /\ svr[s].bg_n = rpc_threads
        BY <1>2, <2>3, ThreadFinite DEF ServerInv, ThreadsCounted, CountOk, Opened, Unopened
      <3>2. thr[s] \in [Thread -> ThrState]
        BY <1>2, TypeParts
      <3> QED BY <3>1, <3>2, <1>6, PhaseFacts
    <2>5. \A i \in Ports : PortOk("openport", p + 1, i, thr[<<r, i>>])
      <3>1. \A i \in Ports : i >= p + 1 => i > p
        BY <1>2, PortInt
      <3>2. \A i \in Ports : i < p + 1 => i < p \/ i = p
        BY <1>2, PortInt
      <3> HIDE DEF p
      <3>3. \A i \in Ports : i < p + 1 => Started(thr[<<r, i>>])
        BY <3>2, <1>1, <2>4 DEF PortOk, Open
      <3>4. \A i \in Ports : i >= p + 1 => Unopened(thr[<<r, i>>])
        BY <3>1, <1>1 DEF PortOk, ToOpen
      <3> QED BY <3>3, <3>4 DEF PortOk, ToOpen, Open, IsClosed, Closed
    <2> DEFINE o == p + 1
    <2> HIDE DEF p, e, s, started, o
    <2> QED BY <1>0, <1>3, <2>1, <2>2, <2>5, MoveStep DEF o
  <1> QED BY <1>4, <1>5, <1>6

LEMMA PortsOpenStep ==
    ASSUME ServerInv, NEW r \in Rank, PortsOpen(r), flags' = flags
    PROVE  ServerInv'
  <1> DEFINE p == port[r]
  <1>0. /\ p \in 1 .. ports_per_rank + 1 /\ port' = [port EXCEPT ![r] = p] /\ p > ports_per_rank
        /\ flushed' = flushed
        /\ flush_status' = flush_status /\ req' = req /\ by' = by /\ db' = db /\ SigTyped'
        /\ alive' = alive /\ pc[r] = "openport" /\ pc' = [pc EXCEPT ![r] = "info"]
    BY RankFacts DEF PortsOpen, Goto, reqVars, dbVars, sigVars, SigTyped, MaxSignals
  <1>1. CountsKept
    BY CountsKeptBy DEF PortsOpen, rpcVars
  <1>2. /\ RankOk("openport", p, entered[r])
        /\ \A i \in Ports : PortOk("openport", p, i, thr[<<r, i>>])
    BY RankFacts DEF PortsOpen
  <1>3. entered' = [entered EXCEPT ![r] = 1]
    <2>1. entered[r] = 0
      BY <1>2 DEF RankOk, Barriers
    <2> QED BY <2>1 DEF PortsOpen, Enter
  <1> HIDE DEF p
  <1>4. "info" \in Label /\ RankOk("info", p, 1)
    BY DEF Label, RankOk, Barriers
  <1>5. \A i \in Ports : i < p
    BY <1>0, PortInt
  <1>6. \A i \in Ports : PortOk("info", p, i, thr[<<r, i>>])
    BY <1>2, <1>5 DEF PortOk, ToOpen, Open, IsClosed, Closed
  <1> DEFINE e == 1
  <1>7. e \in 0 .. 3 /\ entered' = [entered EXCEPT ![r] = e] /\ RankOk("info", p, e)
    BY <1>3, <1>4
  <1> HIDE DEF e
  <1> QED BY <1>0, <1>1, <1>4, <1>6, <1>7, MoveStep

\* Moves among the labels at which all ports are open.
Serving == {"info", "setinfo", "run", "test", "sleep"}

LEMMA ServingStep ==
    ASSUME ServerInv, NEW r \in Rank, NEW l \in Serving \cup {"close"},
           NEW p \in 1 .. ports_per_rank + 1, l = "close" => p = 1, pc[r] \in Serving,
           pc' = [pc EXCEPT ![r] = l], port' = [port EXCEPT ![r] = p],
           entered' = entered, alive' = alive, flushed' = flushed,
           flush_status' = flush_status, UNCHANGED rpcVars,
           flags' = flags, req' = req, by' = by, db' = db, SigTyped'
    PROVE  ServerInv'
  <1> DEFINE e == entered[r]
             k == pc[r]
             o == port[r]
  <1>0. /\ e \in 0 .. 3 /\ entered' = [entered EXCEPT ![r] = e] /\ k \in Serving
        /\ RankOk(k, o, e) /\ \A i \in Ports : PortOk(k, o, i, thr[<<r, i>>])
    BY RankFacts
  <1>1. CountsKept
    BY CountsKeptBy DEF rpcVars
  <1>2. l \in Label /\ pc[r] \notin {"open", "delete", "done", "finalize"}
        /\ l \notin {"flushed", "delete", "done"}
    BY DEF Serving, Label
  <1> HIDE DEF e, k, o
  <1>3. RankOk(l, p, e)
    BY <1>0 DEF RankOk, Barriers, Serving
  <1>4. \A i \in Ports : i >= 1
    BY PortInt
  <1>5. \A i \in Ports : Started(thr[<<r, i>>])
    BY <1>0 DEF PortOk, Open, Serving
  <1>6. \A i \in Ports : ~ToOpen(l, p, i) /\ ~IsClosed(l, p, i)
    BY <1>4, PortInt DEF ToOpen, IsClosed, Closed, Serving
  <1>7. \A i \in Ports : PortOk(l, p, i, thr[<<r, i>>])
    BY <1>5, <1>6 DEF PortOk, Serving
  <1> QED BY <1>0, <1>1, <1>2, <1>3, <1>7, MoveStep

LEMMA ServingActions ==
    ASSUME ServerInv, NEW r \in Rank, flags' = flags,
           OpenInfoPort(r) \/ SetInfo(r) \/ LockMu(r) \/ WaitForSignal(r)
    PROVE  ServerInv'
  <1> DEFINE p == port[r]
  <1>0. p \in 1 .. ports_per_rank + 1 /\ port = [port EXCEPT ![r] = p] /\ SigTyped
    BY RankFacts
  <1>1. CASE OpenInfoPort(r)
    <2>1. /\ port' = [port EXCEPT ![r] = p] /\ entered' = entered /\ flushed' = flushed
          /\ flush_status' = flush_status
          /\ req' = req /\ by' = by /\ db' = db /\ alive' = alive /\ UNCHANGED rpcVars
          /\ pc[r] = "info" /\ UNCHANGED sigVars /\ port' = port
      BY <1>0, <1>1 DEF OpenInfoPort, reqVars, dbVars
    <2>2. SigTyped'
      BY <1>0, <1>1, <2>1 DEF SigTyped, sigVars, OpenInfoPort, MaxSignals
    <2>3. CASE Goto(r, "finalize")
      <3>1. CountsKept
        BY <2>1, CountsKeptBy DEF rpcVars
      <3>2. alive' = [alive EXCEPT ![r] = alive[r]] /\ alive[r] \in SUBSET ({Fs} \cup Ports)
        BY <2>1, RankFacts
      <3> HIDE DEF p
      <3> QED BY <2>1, <2>2, <2>3, <3>1, <3>2, GiveUp DEF Goto
    <2>4. CASE Goto(r, IF r = 0 THEN "setinfo" ELSE "run")
      <3> DEFINE l == IF r = 0 THEN "setinfo" ELSE "run"
      <3>1. l \in Serving /\ l # "close" /\ pc' = [pc EXCEPT ![r] = l] /\ pc[r] \in Serving
        BY <2>1, <2>4 DEF Goto, Serving
      <3> HIDE DEF p, l
      <3> QED BY <1>0, <2>1, <2>2, <3>1, ServingStep
    <2> QED BY <1>1, <2>3, <2>4 DEF OpenInfoPort
  <1>2. CASE SetInfo(r)
    <2>1. /\ port' = [port EXCEPT ![r] = p] /\ entered' = entered /\ flushed' = flushed
          /\ flush_status' = flush_status
          /\ req' = req /\ by' = by /\ db' = db /\ alive' = alive /\ UNCHANGED rpcVars
          /\ pc[r] \in Serving /\ pc' = [pc EXCEPT ![r] = "run"] /\ "run" \in Serving
      BY <1>0, <1>2 DEF SetInfo, reqVars, dbVars, Goto, Serving
    <2>2. SigTyped'
      BY <1>0, <1>2 DEF SigTyped, sigVars, SetInfo, MaxSignals
    <2> HIDE DEF p
    <2> QED BY <1>0, <2>1, <2>2, ServingStep
  <1>3. CASE LockMu(r)
    <2>1. /\ port' = [port EXCEPT ![r] = p] /\ entered' = entered /\ flushed' = flushed
          /\ flush_status' = flush_status
          /\ req' = req /\ by' = by /\ db' = db /\ alive' = alive /\ UNCHANGED rpcVars
          /\ pc[r] \in Serving /\ pc' = [pc EXCEPT ![r] = "test"] /\ "test" \in Serving
      BY <1>0, <1>3 DEF LockMu, reqVars, dbVars, Goto, Serving
    <2>2. SigTyped'
      BY <1>0, <1>3 DEF SigTyped, LockMu, MaxSignals
    <2> HIDE DEF p
    <2> QED BY <1>0, <2>1, <2>2, ServingStep
  <1>4. CASE WaitForSignal(r)
    <2> DEFINE l == IF shutting_down[r] THEN "close" ELSE "sleep"
               o == 1
    <2>1. /\ port' = [port EXCEPT ![r] = o] /\ entered' = entered /\ flushed' = flushed
          /\ flush_status' = flush_status
          /\ req' = req /\ by' = by /\ db' = db /\ alive' = alive /\ UNCHANGED rpcVars
          /\ pc[r] \in Serving /\ pc' = [pc EXCEPT ![r] = l] /\ l \in Serving \cup {"close"}
      BY <1>4 DEF WaitForSignal, reqVars, dbVars, Goto, Serving
    <2>2. SigTyped'
      <3>1. shutting_down[r] \in BOOLEAN
        BY <1>0 DEF SigTyped
      <3>2. mu' \in [Rank -> BOOLEAN]
        BY <1>0, <1>4, <3>1 DEF SigTyped, WaitForSignal
      <3>3. imap' \in {"closed", "empty", "set"}
        BY <1>0, <1>4 DEF SigTyped, WaitForSignal
      <3> QED BY <1>0, <1>4, <3>2, <3>3 DEF SigTyped, WaitForSignal, MaxSignals
    <2>3. o \in 1 .. ports_per_rank + 1 /\ (l = "close" => o = 1)
      BY PortInt
    <2> HIDE DEF p, l, o
    <2> QED BY <2>1, <2>2, <2>3, ServingStep
  <1> QED BY <1>1, <1>2, <1>3, <1>4

LEMMA CloseStep ==
    ASSUME ServerInv, NEW r \in Rank, Close(r), flags' = flags
    PROVE  ServerInv'
  <1> DEFINE p == port[r]
             e == entered[r]
             s == <<r, p>>
             w == svr[s].bg_threads # 0
  <1>0. /\ p \in 1 .. ports_per_rank + 1 /\ port' = [port EXCEPT ![r] = p] /\ p <= ports_per_rank
        /\ e \in 0 .. 3 /\ entered' = [entered EXCEPT ![r] = e]
        /\ flushed' = flushed
        /\ flush_status' = flush_status /\ req' = req /\ by' = by /\ db' = db /\ SigTyped'
        /\ alive' = alive /\ pc[r] = "close" /\ pc' = [pc EXCEPT ![r] = "bgstop"]
    BY RankFacts DEF Close, Goto, reqVars, dbVars, sigVars, SigTyped, MaxSignals
  <1>1. /\ RankOk("close", p, e) /\ \A i \in Ports : PortOk("close", p, i, thr[<<r, i>>])
    BY RankFacts DEF Close
  <1>2. p \in Ports /\ s \in Svr
    BY <1>0, PortInt, SvrFacts DEF Ports
  <1>3. CountsKept
    <2>1. w \in BOOLEAN /\ svr' = [svr EXCEPT ![s].stop = TRUE, ![s].waiting = w] /\ thr' = thr
      BY DEF Close
    <2> HIDE DEF w
    <2> QED BY <1>2, <2>1, CountsKeptBy
  <1> HIDE DEF p, e, s, w
  <1>4. "bgstop" \in Label /\ RankOk("bgstop", p, e)
    BY <1>1, <1>2 DEF Label, RankOk, Barriers
  <1>5. \A i \in Ports : PortOk("bgstop", p, i, thr[<<r, i>>])
    BY <1>1 DEF PortOk, ToOpen, Open, IsClosed, Closed
  <1> QED BY <1>0, <1>3, <1>4, <1>5, MoveStep

LEMMA BGStopStep ==
    ASSUME ServerInv, NEW r \in Rank, BGStop(r), flags' = flags
    PROVE  ServerInv'
  <1> DEFINE p == port[r]
             e == entered[r]
             s == <<r, p>>
             stopped == svr[s].bg_threads = 0
  <1>0. /\ e \in 0 .. 3 /\ entered' = [entered EXCEPT ![r] = e] /\ alive' = alive
        /\ flushed' = flushed
        /\ flush_status' = flush_status /\ req' = req /\ by' = by /\ db' = db /\ SigTyped'
        /\ pc[r] = "bgstop" /\ p \in 1 .. ports_per_rank + 1
    BY RankFacts DEF BGStop, reqVars, dbVars, sigVars, SigTyped, MaxSignals
  <1>1. /\ RankOk("bgstop", p, e)
        /\ \A i \in Ports : PortOk("bgstop", p, i, thr[<<r, i>>])
    BY RankFacts DEF BGStop
  <1>2. p \in Ports /\ s \in Svr /\ e = 1
    BY <1>1, SvrFacts DEF RankOk, Barriers
  <1>3. CountsKept
    <2>1. (~stopped) \in BOOLEAN /\ svr' = [svr EXCEPT ![s].waiting = ~stopped] /\ thr' = thr
      BY DEF BGStop
    <2> HIDE DEF stopped
    <2> QED BY <1>2, <2>1, CountsKeptBy
  <1>4. CASE ~stopped
    <2>1. pc' = [pc EXCEPT ![r] = "bgstop"] /\ port' = [port EXCEPT ![r] = p]
      BY <1>4 DEF BGStop, Goto
    <2>2. "bgstop" \in Label
      BY DEF Label
    <2> HIDE DEF p, e, s, stopped
    <2> QED BY <1>0, <1>1, <1>3, <2>1, <2>2, MoveStep
  <1>5. CASE stopped
    <2>1. pc' = [pc EXCEPT ![r] = "close"] /\ port' = [port EXCEPT ![r] = p + 1]
      BY <1>5 DEF BGStop, Goto
    <2>2. "close" \in Label /\ p + 1 \in 1 .. ports_per_rank + 1 /\ RankOk("close", p + 1, e)
      BY <1>2, PortInt DEF Label, RankOk, Barriers
    <2>3. \A i \in Ports : Started(thr[<<r, i>>])
      BY <1>1 DEF PortOk, Open
    <2>4. Stopped(thr[s])
      <3>1. svr[s].bg_threads = Cardinality(Active(thr[s]))
        BY <1>2 DEF ServerInv, ThreadsCounted, CountOk
      <3>2. thr[s] \in [Thread -> ThrState] /\ Started(thr[s])
        BY <1>2, <2>3, TypeParts
      <3> QED BY <3>1, <3>2, <1>5, PhaseFacts
    <2>5. \A i \in Ports : PortOk("close", p + 1, i, thr[<<r, i>>])
      <3>2. \A i \in Ports : i < p + 1 => i < p \/ i = p
        BY <1>2, PortInt
      <3> HIDE DEF p
      <3>3. \A i \in Ports : i < p + 1 => Stopped(thr[<<r, i>>])
        BY <3>2, <1>1, <2>4 DEF PortOk, IsClosed
      <3> QED BY <3>3, <2>3 DEF PortOk, ToOpen, IsClosed, Closed
    <2> DEFINE o == p + 1
    <2> HIDE DEF p, e, s, stopped, o
    <2> QED BY <1>0, <1>3, <2>1, <2>2, <2>5, MoveStep DEF o
  <1> QED BY <1>4, <1>5

LEMMA PortsClosedStep ==
    ASSUME ServerInv, NEW r \in Rank, PortsClosed(r), flags' = flags
    PROVE  ServerInv'
  <1> DEFINE p == port[r]
             e == 2
  <1>0. /\ p \in 1 .. ports_per_rank + 1 /\ port' = [port EXCEPT ![r] = p] /\ p > ports_per_rank
        /\ flushed' = flushed
        /\ flush_status' = flush_status /\ req' = req /\ by' = by /\ db' = db /\ SigTyped'
        /\ alive' = alive /\ pc[r] = "close" /\ pc' = [pc EXCEPT ![r] = "flush"]
    BY RankFacts DEF PortsClosed, Goto, reqVars, dbVars, sigVars, SigTyped, MaxSignals
  <1>1. CountsKept
    BY CountsKeptBy DEF PortsClosed, rpcVars
  <1>2. /\ RankOk("close", p, entered[r])
        /\ \A i \in Ports : PortOk("close", p, i, thr[<<r, i>>])
    BY RankFacts DEF PortsClosed
  <1>3. e \in 0 .. 3 /\ entered' = [entered EXCEPT ![r] = e]
    <2>1. entered[r] = 1
      BY <1>2 DEF RankOk, Barriers
    <2> QED BY <2>1 DEF PortsClosed, Enter
  <1>4. "flush" \in Label /\ RankOk("flush", p, e)
    BY DEF Label, RankOk, Barriers
  <1> HIDE DEF p, e
  <1>5. \A i \in Ports : i < p
    BY <1>0, PortInt
  <1>6. \A i \in Ports : PortOk("flush", p, i, thr[<<r, i>>])
    BY <1>2, <1>5 DEF PortOk, ToOpen, Open, IsClosed
  <1> QED BY <1>0, <1>1, <1>3, <1>4, <1>6, MoveStep

LEMMA FlushStep ==
    ASSUME ServerInv, NEW r \in Rank, Flush(r), flags' = flags
    PROVE  ServerInv'
  <1> DEFINE p == port[r]
             e == 3
             a == alive[r]
  <1>0. /\ p \in 1 .. ports_per_rank + 1 /\ port' = [port EXCEPT ![r] = p]
        /\ a \in SUBSET ({Fs} \cup Ports) /\ alive' = [alive EXCEPT ![r] = a]
        /\ req' = req /\ by' = by /\ db' = db
        /\ SigTyped' /\ pc' = [pc EXCEPT ![r] = "flushed"]
    BY RankFacts DEF Flush, Goto, reqVars, sigVars, SigTyped, MaxSignals
  <1>1. CountsKept
    BY CountsKeptBy DEF Flush, rpcVars
  <1>2. PICK fl \in SUBSET Requests, st \in FlushStatus :
            /\ flushed' = [flushed EXCEPT ![r] = fl]
            /\ flush_status' = [flush_status EXCEPT ![r] = st]
            /\ fl = db[r] \/ st # Ok
    <2>1. /\ db[r] \in SUBSET Requests /\ flushed[r] \in SUBSET Requests
          /\ flush_status[r] \in FlushStatus /\ "error" # Ok
          /\ flushed = [flushed EXCEPT ![r] = flushed[r]]
          /\ flush_status = [flush_status EXCEPT ![r] = flush_status[r]]
      BY TypeParts, RankFacts DEF Ok, FlushStatus
    <2>2. CASE flushed' = [flushed EXCEPT ![r] = db[r]] /\ flush_status' = flush_status
      BY <2>1, <2>2
    <2>3. CASE flush_status' = [flush_status EXCEPT ![r] = "error"] /\ flushed' = flushed
      BY <2>1, <2>3 DEF FlushStatus
    <2> QED BY <2>2, <2>3 DEF Flush
  <1>3. /\ RankOk("flush", p, entered[r]) /\ (\A i \in Ports : PortOk("flush", p, i, thr[<<r, i>>]))
        /\ FsOk("flush", a) /\ (\A i \in Ports : ObjectOk("flush", p, i, thr[<<r, i>>], a))
    BY RankFacts DEF Flush
  <1>4. e \in 0 .. 3 /\ entered' = [entered EXCEPT ![r] = e]
    <2>1. entered[r] = 2
      BY <1>3 DEF RankOk, Barriers
    <2> QED BY <2>1 DEF Flush, Enter
  <1>5. "flushed" \in Label /\ RankOk("flushed", p, e)
    BY DEF Label, RankOk, Barriers
  <1>6. FlushOk("flushed", r, fl, st) /\ \A i : ~Deleted("flushed", p, i)
    BY <1>2 DEF FlushOk, Deleted, ServerInv, Calls
  <1> HIDE DEF p, e, a
  <1>7. \A i \in Ports : PortOk("flushed", p, i, thr[<<r, i>>])
    BY <1>3 DEF PortOk, ToOpen, Open, IsClosed, Closed
  <1>8. FsOk("flushed", a) /\ \A i \in Ports : ObjectOk("flushed", p, i, thr[<<r, i>>], a)
    BY <1>3 DEF FsOk, ObjectOk, Deleted
  <1> QED BY <1>0, <1>1, <1>2, <1>4, <1>5, <1>6, <1>7, <1>8, PlainStep

LEMMA FinishStep ==
    ASSUME ServerInv, NEW r \in Rank, Finish(r), flags' = flags
    PROVE  ServerInv'
  <1> DEFINE p == 1
             e == entered[r]
             a == alive[r]
             fl == flushed[r]
             st == flush_status[r]
             o == port[r]
  <1>0. /\ p \in 1 .. ports_per_rank + 1 /\ port' = [port EXCEPT ![r] = p]
        /\ e \in 0 .. 3 /\ entered' = [entered EXCEPT ![r] = e]
        /\ a \in SUBSET ({Fs} \cup Ports) /\ alive' = [alive EXCEPT ![r] = a]
        /\ fl \in SUBSET Requests /\ st \in FlushStatus /\ flushed' = [flushed EXCEPT ![r] = fl]
        /\ flush_status' = [flush_status EXCEPT ![r] = st]
        /\ req' = req /\ by' = by /\ db' = db /\ pc' = [pc EXCEPT ![r] = "delete"]
    BY RankFacts, PortInt DEF Finish, Goto, reqVars, dbVars
  <1>1. SigTyped'
    BY RankFacts DEF Finish, SigTyped, MaxSignals
  <1>2. CountsKept
    BY CountsKeptBy DEF Finish, rpcVars
  <1>3. /\ RankOk("flushed", o, e) /\ (\A i \in Ports : PortOk("flushed", o, i, thr[<<r, i>>]))
        /\ FsOk("flushed", a) /\ (\A i \in Ports : ObjectOk("flushed", o, i, thr[<<r, i>>], a))
        /\ FlushOk("flushed", r, fl, st)
    BY RankFacts DEF Finish
  <1>4. \A i \in Ports : ~Deleted("delete", p, i)
    BY PortInt DEF Deleted
  <1> HIDE DEF p, e, a, fl, st, o
  <1>5. "delete" \in Label /\ RankOk("delete", p, e)
    BY <1>3 DEF Label, RankOk, Barriers
  <1>6. \A i \in Ports : PortOk("delete", p, i, thr[<<r, i>>])
    BY <1>3 DEF PortOk, ToOpen, Open, IsClosed, Closed
  <1>7. FsOk("delete", a) /\ \A i \in Ports : ObjectOk("delete", p, i, thr[<<r, i>>], a)
    BY <1>3, <1>4 DEF FsOk, ObjectOk, Deleted
  <1>8. FlushOk("delete", r, fl, st)
    BY <1>3 DEF FlushOk
  <1>9. \A q \in Requests : Target[q][1] = r /\ Deleted("delete", p, Target[q][2]) => ~InCall(q)
    BY <1>4, SvrFacts
  <1> QED BY <1>0, <1>1, <1>2, <1>5, <1>6, <1>7, <1>8, <1>9, PlainStep

\* A port whose threads have ended and whose pool is idle has no call.
LEMMA IdlePort ==
    ASSUME ServerInv, NEW s \in Svr, Stopped(thr[s]), svr[s].bg_count = 0
    PROVE  \A q \in Requests : Target[q] = s => ~InCall(q)
  <1>1. PoolCalls(s) = {}
    BY PoolFinite DEF ServerInv, PoolCounted
  <1> SUFFICES ASSUME NEW q \in Requests, Target[q] = s, InCall(q) PROVE FALSE
    OBVIOUS
  <1>2. by[q] # None
    BY <1>1 DEF PoolCalls, Pooled
  <1>3. thr[s][by[q]] = "call" /\ by[q] \in Thread
    BY <1>2 DEF ServerInv, Calls, TypeOK
  <1> QED BY <1>3 DEF Stopped

LEMMA DeletePortStep ==
    ASSUME ServerInv, NEW r \in Rank, DeletePort(r), flags' = flags
    PROVE  ServerInv'
  <1> DEFINE p == port[r]
             e == entered[r]
             a == alive[r]
             fl == flushed[r]
             st == flush_status[r]
             s == <<r, p>>
             idle == svr[s].bg_count = 0
  <1>0. /\ p \in 1 .. ports_per_rank + 1 /\ p <= ports_per_rank
        /\ e \in 0 .. 3 /\ entered' = [entered EXCEPT ![r] = e]
        /\ a \in SUBSET ({Fs} \cup Ports)
        /\ fl \in SUBSET Requests /\ st \in FlushStatus /\ flushed' = [flushed EXCEPT ![r] = fl]
        /\ flush_status' = [flush_status EXCEPT ![r] = st]
        /\ req' = req /\ by' = by /\ db' = db /\ SigTyped'
        /\ pc[r] = "delete" /\ pc' = [pc EXCEPT ![r] = "delete"]
    BY RankFacts DEF DeletePort, reqVars, dbVars, sigVars, SigTyped, MaxSignals
  <1>1. p \in Ports /\ s \in Svr
    BY <1>0, PortInt, SvrFacts DEF Ports
  <1>2. CountsKept
    <2>1. (~idle) \in BOOLEAN /\ svr' = [svr EXCEPT ![s].waiting = ~idle] /\ thr' = thr
      BY DEF DeletePort
    <2> HIDE DEF idle
    <2> QED BY <1>1, <2>1, CountsKeptBy
  <1>3. /\ RankOk("delete", p, e) /\ (\A i \in Ports : PortOk("delete", p, i, thr[<<r, i>>]))
        /\ FsOk("delete", a) /\ (\A i \in Ports : ObjectOk("delete", p, i, thr[<<r, i>>], a))
        /\ FlushOk("delete", r, fl, st) /\ "delete" \in Label
        /\ \A q \in Requests : Target[q][1] = r /\ Deleted("delete", p, Target[q][2]) => ~InCall(q)
    BY <1>0, RankFacts
  <1>4. CASE ~idle
    <2>1. port' = [port EXCEPT ![r] = p] /\ alive' = [alive EXCEPT ![r] = a]
      BY <1>4 DEF DeletePort
    <2> HIDE DEF p, e, a, fl, st, s, idle
    <2> QED BY <1>0, <1>2, <1>3, <2>1, PlainStep
  <1>5. CASE idle
    <2> DEFINE o == p + 1
               b == a \ {p}
    <2>1. port' = [port EXCEPT ![r] = o] /\ alive' = [alive EXCEPT ![r] = b]
      BY <1>5 DEF DeletePort
    <2>2. o \in 1 .. ports_per_rank + 1 /\ b \in SUBSET ({Fs} \cup Ports)
      BY <1>0, <1>1, PortInt
    <2>3. Stopped(thr[s])
      BY <1>1, <1>3 DEF PortOk, IsClosed, Closed
    <2>4. \A q \in Requests : Target[q] = s => ~InCall(q)
      BY <1>1, <1>5, <2>3, IdlePort
    <2>5. \A i \in Ports : Deleted("delete", o, i) => Deleted("delete", p, i) \/ i = p
      BY <1>1, PortInt DEF Deleted
    <2>6. \A i \in Ports : Deleted("delete", p, i) \/ i = p => Deleted("delete", o, i)
      BY <1>1, PortInt DEF Deleted
    <2>7. Fs # p
      BY <1>1, PortInt DEF Fs
    <2>8. \A q \in Requests : Target[q] = <<Target[q][1], Target[q][2]>> /\ Target[q][2] \in Ports
      BY SvrFacts
    <2> HIDE DEF o, p, a, e, fl, st, idle
    <2>9. RankOk("delete", o, e) /\ \A i \in Ports : PortOk("delete", o, i, thr[<<r, i>>])
      BY <1>3 DEF RankOk, PortOk, ToOpen, Open, IsClosed, Closed
    <2>10. FsOk("delete", b) /\ \A i \in Ports : ObjectOk("delete", o, i, thr[<<r, i>>], b)
      BY <1>3, <2>6, <2>7 DEF FsOk, ObjectOk
    <2>11. \A q \in Requests : Target[q][1] = r /\ Deleted("delete", o, Target[q][2]) => ~InCall(q)
      BY <1>3, <2>4, <2>5, <2>8
    <2> HIDE DEF b, s
    <2> QED BY <1>0, <1>2, <1>3, <2>1, <2>2, <2>9, <2>10, <2>11, PlainStep
  <1> QED BY <1>4, <1>5

LEMMA DeleteFsStep ==
    ASSUME ServerInv, NEW r \in Rank, DeleteFs(r), flags' = flags
    PROVE  ServerInv'
  <1> DEFINE p == port[r]
             e == entered[r]
             a == alive[r] \ {Fs}
             fl == flushed[r]
             st == flush_status[r]
  <1>0. /\ p \in 1 .. ports_per_rank + 1 /\ port' = [port EXCEPT ![r] = p] /\ p > ports_per_rank
        /\ e \in 0 .. 3 /\ entered' = [entered EXCEPT ![r] = e]
        /\ a \in SUBSET ({Fs} \cup Ports) /\ alive' = [alive EXCEPT ![r] = a]
        /\ fl \in SUBSET Requests /\ st \in FlushStatus /\ flushed' = [flushed EXCEPT ![r] = fl]
        /\ flush_status' = [flush_status EXCEPT ![r] = st]
        /\ req' = req /\ by' = by /\ db' = db /\ SigTyped'
        /\ pc' = [pc EXCEPT ![r] = "done"]
    BY RankFacts DEF DeleteFs, Goto, reqVars, dbVars, sigVars, SigTyped, MaxSignals
  <1>1. CountsKept
    BY CountsKeptBy DEF DeleteFs, rpcVars
  <1>2. /\ RankOk("delete", p, e) /\ (\A i \in Ports : PortOk("delete", p, i, thr[<<r, i>>]))
        /\ FlushOk("delete", r, fl, st)
        /\ \A q \in Requests : Target[q][1] = r /\ Deleted("delete", p, Target[q][2]) => ~InCall(q)
    BY RankFacts DEF DeleteFs
  <1> HIDE DEF p, e, a, fl, st
  <1>3. \A i \in Ports : Deleted("delete", p, i)
    BY <1>0, PortInt DEF Deleted
  <1>4. "done" \in Label /\ RankOk("done", p, e)
    BY <1>2 DEF Label, RankOk, Barriers
  <1>5. \A i \in Ports : PortOk("done", p, i, thr[<<r, i>>])
    BY <1>2 DEF PortOk, ToOpen, Open, IsClosed, Closed
  <1>6. FsOk("done", a) /\ \A i \in Ports : ObjectOk("done", p, i, thr[<<r, i>>], a)
    BY DEF FsOk, ObjectOk, Deleted
  <1>7. FlushOk("done", r, fl, st)
    BY <1>2 DEF FlushOk
  <1>8. \A q \in Requests : Target[q][1] = r /\ Deleted("done", p, Target[q][2]) => ~InCall(q)
    BY <1>2, <1>3, SvrFacts
  <1> QED BY <1>0, <1>1, <1>4, <1>5, <1>6, <1>7, <1>8, PlainStep

(***************************************************************************)
(* The signal handler.                                                     *)
(***************************************************************************)
LEMMA SignalTypes ==
    ASSUME ServerInv, NEW r \in Rank, flags' = flags,
           Interrupt(r) \/ \E t \in {MainThread} \cup (Ports \X Thread) : Deliver(r, t)
    PROVE  SigTyped'
  <1>0. SigTyped
    BY RankFacts
  <1>1. CASE Interrupt(r)
    <2>1. shutting_down' \in [Rank -> BOOLEAN]
      BY <1>1, <1>0 DEF SigTyped, Interrupt
    <2> QED BY <1>1, <1>0, <2>1 DEF SigTyped, Interrupt, MaxSignals
  <1>2. CASE \E t \in {MainThread} \cup (Ports \X Thread) : Deliver(r, t)
    <2>1. MaxSignals \in Nat
      BY ServerJobAssumption DEF ServerInv, TypeOK, MaxSignals
    <2>2. signals' \in [Rank -> 0 .. MaxSignals]
      BY <1>2, <1>0, <2>1 DEF SigTyped, Deliver
    <2>3. handler' \in [Rank -> {Nobody, MainThread} \cup (Ports \X Thread)]
      BY <1>2, <1>0 DEF SigTyped, Deliver
    <2> QED BY <1>2, <1>0, <2>2, <2>3 DEF SigTyped, Deliver, MaxSignals
  <1> QED BY <1>1, <1>2

LEMMA SignalStep ==
    ASSUME ServerInv, NEW r \in Rank, flags' = flags, thr' = thr,
           Interrupt(r) \/ \E t \in {MainThread} \cup (Ports \X Thread) : Deliver(r, t)
    PROVE  ServerInv'
  <1> DEFINE l == pc[r]
             p == port[r]
             e == entered[r]
             a == alive[r]
             fl == flushed[r]
             st == flush_status[r]
  <1>0. /\ l \in Label /\ p \in 1 .. ports_per_rank + 1 /\ e \in 0 .. 3
        /\ a \in SUBSET ({Fs} \cup Ports) /\ fl \in SUBSET Requests /\ st \in FlushStatus
        /\ pc = [pc EXCEPT ![r] = l] /\ port = [port EXCEPT ![r] = p]
        /\ entered = [entered EXCEPT ![r] = e] /\ alive = [alive EXCEPT ![r] = a]
        /\ flushed = [flushed EXCEPT ![r] = fl] /\ flush_status = [flush_status EXCEPT ![r] = st]
        /\ RankOk(l, p, e) /\ (\A i \in Ports : PortOk(l, p, i, thr[<<r, i>>]))
        /\ FsOk(l, a) /\ (\A i \in Ports : ObjectOk(l, p, i, thr[<<r, i>>], a))
        /\ FlushOk(l, r, fl, st) /\ SigTyped
        /\ \A q \in Requests : Target[q][1] = r /\ Deleted(l, p, Target[q][2]) => ~InCall(q)
    BY RankFacts
  <1>1. /\ port' = port /\ entered' = entered /\ alive' = alive /\ flushed' = flushed
        /\ flush_status' = flush_status
        /\ req' = req /\ by' = by /\ db' = db /\ UNCHANGED rpcVars
    BY DEF Interrupt, Deliver, mainVars, reqVars, dbVars, rpcVars
  <1>2. CountsKept
    BY <1>1, CountsKeptBy DEF rpcVars
  <1>3. SigTyped'
    BY SignalTypes
  <1>4. CASE pc' = pc
    <2> HIDE DEF l, p, e, a, fl, st
    <2> QED BY <1>0, <1>1, <1>2, <1>3, <1>4, PlainStep
  <1>5. CASE pc' # pc
    <2>1. l = "sleep" /\ pc' = [pc EXCEPT ![r] = "run"]
      BY <1>5, <1>0 DEF Interrupt, Deliver, mainVars
    <2>2. pc[r] \in Serving /\ "run" \in Serving
      BY <2>1 DEF Serving
    <2> HIDE DEF l, p, e, a, fl, st
    <2> QED BY <1>0, <1>1, <1>3, <2>1, <2>2, ServingStep
  <1> QED BY <1>4, <1>5
-----------------------------------------------------------------------------
(***************************************************************************)
(* A step of a receiving thread or of a call.                              *)
(***************************************************************************)
MainKept == flags' = flags /\ UNCHANGED mainVars /\ SigTyped' /\ alive' = alive /\ imap' = imap

LEMMA SigKept ==
    ASSUME ServerInv, flags' = flags, UNCHANGED sigVars, imap' = imap
    PROVE  SigTyped'
  <1>1. SigTyped
    BY DEF ServerInv, TypeOK, SigTyped
  <1> QED BY <1>1 DEF SigTyped, sigVars, MaxSignals

LEMMA RxStep ==
    ASSUME ServerInv, NEW s \in Svr, NEW t \in Thread, NEW x \in {"test", "recv", "eintr", "call", "ended"},
           thr[s][t] \in {"new", "test", "recv", "eintr", "call"}, thr' = [thr EXCEPT ![s][t] = x], MainKept
    PROVE  /\ thr' \in [Svr -> [Thread -> ThrState]]
           /\ thr[s] \in [Thread -> ThrState] /\ thr'[s] = [thr[s] EXCEPT ![t] = x]
           /\ \A u \in Svr \ {s} : thr'[u] = thr[u]
           /\ \A u \in Svr : Opened(thr[u]) => Opened(thr'[u])
           /\ Opened(thr[s]) /\ ~Stopped(thr[s])
           /\ Phases' /\ Objects'
  <1> DEFINE f == thr[s]
             g == [f EXCEPT ![t] = x]
  <1>1. f \in [Thread -> ThrState]
    BY TypeParts
  <1>2. g \in [Thread -> ThrState] /\ g[t] = x /\ \A w \in Thread \ {t} : g[w] = f[w]
    BY <1>1 DEF ThrState
  <1>3. thr' = [thr EXCEPT ![s] = g]
    OBVIOUS
  <1> HIDE DEF g
  <1>4. /\ thr' \in [Svr -> [Thread -> ThrState]] /\ thr'[s] = g
        /\ \A u \in Svr \ {s} : thr'[u] = thr[u]
    BY <1>2, <1>3, TypeParts
  <1>5. f[t] \in {"new", "test", "recv", "eintr", "call"}
    OBVIOUS
  <1>6. Opened(f)
    BY <1>5 DEF ServerInv, ThreadsCounted, CountOk, Unopened
  <1> HIDE DEF f
  <1>7. ~Unopened(f) /\ ~Stopped(f) /\ (Started(f) => Started(g)) /\ Opened(g)
    BY <1>2, <1>5, <1>6 DEF Unopened, Opened, Started, Stopped
  <1>8. \A u \in Svr : Opened(thr[u]) => Opened(thr'[u])
    BY <1>4, <1>7 DEF f
  <1>9. pc' = pc /\ port' = port /\ entered' = entered /\ alive' = alive
    BY DEF MainKept, mainVars
  <1>10. Phases'
    <2>1. ASSUME NEW r \in Rank, NEW i \in Ports PROVE PortOk(pc[r], port[r], i, thr[<<r, i>>])'
      <3>1. PortOk(pc[r], port[r], i, thr[<<r, i>>]) /\ <<r, i>> \in Svr
        BY SvrFacts DEF ServerInv, Phases
      <3>2. CASE <<r, i>> = s
        <4>1. PortOk(pc[r], port[r], i, f)
          BY <3>1, <3>2 DEF f
        <4>2. PortOk(pc[r], port[r], i, g)
          BY <4>1, <1>7 DEF PortOk
        <4> QED BY <4>2, <3>2, <1>4, <1>9
      <3>3. CASE <<r, i>> # s
        BY <3>1, <3>3, <1>4, <1>9
      <3> QED BY <3>2, <3>3
    <2>2. \A r \in Rank : RankOk(pc[r], port[r], entered[r])'
      BY <1>9 DEF ServerInv, Phases
    <2> QED BY <2>1, <2>2 DEF Phases
  <1>11. Objects'
    <2>1. ASSUME NEW r \in Rank, NEW i \in Ports
          PROVE  ObjectOk(pc[r], port[r], i, thr[<<r, i>>], alive[r])'
      <3>1. ObjectOk(pc[r], port[r], i, thr[<<r, i>>], alive[r]) /\ <<r, i>> \in Svr
        BY SvrFacts DEF ServerInv, Objects
      <3>2. Opened(thr'[<<r, i>>]) => Opened(thr[<<r, i>>])
        BY <3>1, <1>4, <1>6 DEF f
      <3> QED BY <3>1, <3>2, <1>9 DEF ObjectOk
    <2>2. \A r \in Rank : FsOk(pc[r], alive[r])'
      BY <1>9 DEF ServerInv, Objects
    <2> QED BY <2>1, <2>2 DEF Objects
  <1> QED BY <1>1, <1>4, <1>6, <1>7, <1>8, <1>10, <1>11 DEF f, g

LEMMA SvrStep ==
    ASSUME ServerInv, NEW s \in Svr, NEW v \in SvrState, svr' = [svr EXCEPT ![s] = v],
           \A u \in Svr \ {s} : thr'[u] = thr[u], CountOk(v, thr'[s])
    PROVE  /\ svr' \in [Svr -> SvrState] /\ svr'[s] = v /\ \A u \in Svr \ {s} : svr'[u] = svr[u]
           /\ ThreadsCounted'
  <1>1. svr' \in [Svr -> SvrState] /\ svr'[s] = v /\ \A u \in Svr \ {s} : svr'[u] = svr[u]
    BY TypeParts
  <1>2. ASSUME NEW u \in Svr PROVE CountOk(svr'[u], thr'[u])
    BY <1>1 DEF ServerInv, ThreadsCounted
  <1> QED BY <1>1, <1>2 DEF ThreadsCounted

LEMMA TypeStep ==
    ASSUME ServerInv, MainKept, svr' \in [Svr -> SvrState], thr' \in [Svr -> [Thread -> ThrState]],
           req' \in [Requests -> {"idle", "sent", "received", "queued", "running", "stored", "acked"}],
           by' \in [Requests -> Thread \cup {None}], db' \in [Rank -> SUBSET Requests],
           flushed' = flushed /\ flush_status' = flush_status
    PROVE  TypeOK'
  BY DEF ServerInv, TypeOK, MainKept, mainVars, SigTyped, SvrState, ThrState

\* A receiving thread that makes no call, before the step or after it.
LEMMA QuietStep ==
    ASSUME ServerInv, NEW s \in Svr, NEW t \in Thread, NEW x \in {"test", "recv", "eintr", "ended"},
           thr[s][t] \in {"new", "test", "recv", "eintr"}, thr' = [thr EXCEPT ![s][t] = x], MainKept,
           UNCHANGED reqVars, UNCHANGED dbVars, NEW v \in SvrState, svr' = [svr EXCEPT ![s] = v],
           CountOk(v, [thr[s] EXCEPT ![t] = x]), v.bg_count = svr[s].bg_count
    PROVE  ServerInv'
  <1>1. /\ thr' \in [Svr -> [Thread -> ThrState]]
        /\ thr[s] \in [Thread -> ThrState] /\ thr'[s] = [thr[s] EXCEPT ![t] = x]
        /\ \A u \in Svr \ {s} : thr'[u] = thr[u]
        /\ \A u \in Svr : Opened(thr[u]) => Opened(thr'[u])
        /\ Phases' /\ Objects'
    BY RxStep
  <1>2. /\ svr' \in [Svr -> SvrState] /\ svr'[s] = v /\ \A u \in Svr \ {s} : svr'[u] = svr[u]
        /\ ThreadsCounted'
    BY <1>1, SvrStep
  <1>3. req' = req /\ by' = by /\ db' = db /\ flushed' = flushed /\ flush_status' = flush_status
    BY DEF reqVars, dbVars
  <1>4. TypeOK'
    BY <1>1, <1>2, <1>3, TypeStep DEF ServerInv, TypeOK
  <1>5. pc' = pc /\ port' = port /\ flags' = flags
    BY DEF MainKept, mainVars
  <1>6. Calls'
    <2>1. \A q \in Requests : (InCall(q)' <=> InCall(q)) /\ (Pooled(q)' <=> Pooled(q))
      BY <1>3 DEF InCall, Pooled
    <2>2. ASSUME NEW q \in Requests, by[q] # None PROVE thr'[Target[q]][by[q]] = "call"
      <3>1. thr[Target[q]][by[q]] = "call" /\ by[q] \in Thread /\ Target[q] \in Svr
        BY <2>2, SvrFacts DEF ServerInv, Calls, TypeOK
      <3>2. Target[q] = s => by[q] # t
        BY <3>1
      <3> QED BY <3>1, <3>2, <1>1
    <2>3. \A q \in Requests : InCall(q) => Opened(thr'[Target[q]])
      BY <1>1, SvrFacts DEF ServerInv, Calls
    <2> QED BY <1>3, <1>5, <2>1, <2>2, <2>3 DEF ServerInv, Calls, rpc_worker_threads
  <1>7. PoolCounted'
    <2>1. \A u : PoolCalls(u)' = PoolCalls(u)
      BY <1>3 DEF PoolCalls, Pooled, InCall
    <2> QED BY <2>1, <1>2 DEF ServerInv, PoolCounted
  <1>8. AckedFlushed'
    BY <1>3, <1>5 DEF AckedFlushed, ServerInv, rpc_worker_threads
  <1> QED BY <1>1, <1>2, <1>4, <1>6, <1>7, <1>8 DEF ServerInv

LEMMA ThreadCount ==
    ASSUME ServerInv, NEW s \in Svr, NEW t \in Thread, NEW x \in ThrState
    PROVE  LET f == thr[s]
               n == svr[s].bg_threads
               g == [f EXCEPT ![t] = x]
           IN  /\ f[t] \in {"test", "recv", "eintr", "call"} /\ x \in {"test", "recv", "eintr", "call"}
                      => CountOk(svr[s], g)
               /\ f[t] = "new" /\ x = "test" =>
                      /\ n + 1 \in 0 .. rpc_threads
                      /\ \A v \in SvrState : v.bg_n = svr[s].bg_n /\ v.bg_threads = n + 1
                                                 => CountOk(v, g)
               /\ f[t] \in {"test", "recv", "eintr", "call"} /\ x = "ended" =>
                      /\ n - 1 \in 0 .. rpc_threads
                      /\ \A v \in SvrState : v.bg_n = svr[s].bg_n /\ v.bg_threads = n - 1
                                                 => CountOk(v, g)
  <1> DEFINE f == thr[s]
             n == svr[s].bg_threads
             g == [f EXCEPT ![t] = x]
  <1>1. f \in [Thread -> ThrState] /\ CountOk(svr[s], f)
    BY TypeParts DEF ServerInv, ThreadsCounted
  <1>2. /\ g \in [Thread -> ThrState] /\ g[t] = x /\ \A u \in Thread \ {t} : g[u] = f[u]
    BY <1>1
  <1>3. /\ t \in Active(f) /\ x \in {"test", "recv", "eintr", "call"} => Active(g) = Active(f)
        /\ f[t] = "new" /\ x = "test" => Cardinality(Active(g)) = Cardinality(Active(f)) + 1
        /\ t \in Active(f) /\ x = "ended" => Cardinality(Active(g)) = Cardinality(Active(f)) - 1
    BY <1>1, ActiveChange
  <1> HIDE DEF f, g
  <1>4. f[t] # "none" => Opened(f) /\ svr[s].bg_n = rpc_threads
    BY <1>1 DEF CountOk, Unopened
  <1>5. f[t] # "none" /\ x # "none" => Opened(g)
    BY <1>2, <1>4 DEF Opened
  <1>6. f[t] \in {"test", "recv", "eintr", "call"} <=> t \in Active(f)
    BY DEF Active
  <1>7. Cardinality(Active(g)) \in 0 .. rpc_threads
    BY ActiveFinite
  <1>8. n = Cardinality(Active(f))
    BY <1>1 DEF CountOk
  <1> HIDE DEF n
  <1>9. f[t] \in {"test", "recv", "eintr", "call"} /\ x \in {"test", "recv", "eintr", "call"} => CountOk(svr[s], g)
    BY <1>1, <1>3, <1>4, <1>5, <1>6 DEF CountOk
  <1>10. f[t] = "new" /\ x = "test" =>
            /\ n + 1 \in 0 .. rpc_threads
            /\ \A v \in SvrState : v.bg_n = svr[s].bg_n /\ v.bg_threads = n + 1 => CountOk(v, g)
    BY <1>3, <1>4, <1>5, <1>7, <1>8 DEF CountOk
  <1>11. f[t] \in {"test", "recv", "eintr", "call"} /\ x = "ended" =>
            /\ n - 1 \in 0 .. rpc_threads
            /\ \A v \in SvrState : v.bg_n = svr[s].bg_n /\ v.bg_threads = n - 1 => CountOk(v, g)
    BY <1>3, <1>4, <1>5, <1>6, <1>7, <1>8 DEF CountOk
  <1> QED BY <1>9, <1>10, <1>11 DEF f, g, n

LEMMA BGCallStep ==
    ASSUME ServerInv, NEW s \in Svr, NEW t \in Thread, BGCall(s, t), flags' = flags
    PROVE  ServerInv'
  <1> DEFINE n == svr[s].bg_threads + 1
             w == svr[s].waiting /\ n # svr[s].bg_n
             v == [svr[s] EXCEPT !.bg_threads = n, !.waiting = w]
  <1>0. /\ thr[s][t] = "new" /\ thr' = [thr EXCEPT ![s][t] = "test"] /\ MainKept
        /\ UNCHANGED reqVars /\ UNCHANGED dbVars
    BY SigKept DEF BGCall, SetThr, MainKept
  <1>1. svr \in [Svr -> SvrState] /\ svr[s] \in SvrState
    BY TypeParts
  <1>2. "test" \in ThrState
    BY DEF ThrState
  <1>3. /\ n \in 0 .. rpc_threads
        /\ \A z \in SvrState : z.bg_n = svr[s].bg_n /\ z.bg_threads = n
                                   => CountOk(z, [thr[s] EXCEPT ![t] = "test"])
    BY <1>0, <1>2, ThreadCount
  <1>4. svr' = [svr EXCEPT ![s] = v]
    BY <1>1 DEF BGCall, SvrState
  <1>5. v \in SvrState /\ v.bg_n = svr[s].bg_n /\ v.bg_threads = n /\ v.bg_count = svr[s].bg_count
    <2>1. w \in BOOLEAN
      OBVIOUS
    <2> HIDE DEF n, w
    <2> QED BY <1>1, <1>3, <2>1 DEF SvrState
  <1> HIDE DEF v, n, w
  <1> QED BY <1>0, <1>3, <1>4, <1>5, QuietStep

\* The loop of a receiving thread ends.
LEMMA EndsStep ==
    ASSUME ServerInv, NEW s \in Svr, NEW t \in Thread, NEW failed \in BOOLEAN,
           BGCallEnds(s, t, failed), thr[s][t] \in {"test", "recv", "eintr"}, MainKept,
           UNCHANGED reqVars, UNCHANGED dbVars
    PROVE  ServerInv'
  <1> DEFINE n == svr[s].bg_threads - 1
             d == svr[s].failed \/ failed
             w == svr[s].waiting /\ svr[s].bg_threads # 1
             v == [svr[s] EXCEPT !.bg_threads = n, !.failed = d, !.waiting = w]
  <1>0. thr' = [thr EXCEPT ![s][t] = "ended"]
    BY DEF BGCallEnds, SetThr
  <1>1. svr \in [Svr -> SvrState] /\ svr[s] \in SvrState
    BY TypeParts
  <1>2. "ended" \in ThrState
    BY DEF ThrState
  <1>3. /\ n \in 0 .. rpc_threads
        /\ \A z \in SvrState : z.bg_n = svr[s].bg_n /\ z.bg_threads = n
                                   => CountOk(z, [thr[s] EXCEPT ![t] = "ended"])
    BY <1>2, ThreadCount
  <1>4. svr' = [svr EXCEPT ![s] = v]
    BY <1>1 DEF BGCallEnds, SvrState
  <1>5. v \in SvrState /\ v.bg_n = svr[s].bg_n /\ v.bg_threads = n /\ v.bg_count = svr[s].bg_count
    <2>1. w \in BOOLEAN /\ d \in BOOLEAN
      OBVIOUS
    <2> HIDE DEF n, w, d
    <2> QED BY <1>1, <1>3, <2>1 DEF SvrState
  <1> HIDE DEF v, n, w, d
  <1> QED BY <1>0, <1>3, <1>4, <1>5, QuietStep

LEMMA LoopStep ==
    ASSUME ServerInv, NEW s \in Svr, NEW t \in Thread, BGLoop(s, t) \/ Poll(s, t), flags' = flags
    PROVE  ServerInv'
  <1>0. /\ MainKept /\ UNCHANGED reqVars /\ UNCHANGED dbVars
        /\ thr[s][t] \in {"test", "recv", "eintr"}
    BY SigKept DEF BGLoop, Poll, MainKept
  <1>1. CASE BGCallEnds(s, t, FALSE) \/ BGCallEnds(s, t, TRUE)
    BY <1>0, <1>1, EndsStep
  <1>2. ASSUME NEW x \in {"test", "recv"}, SetThr(s, t, x), svr' = svr PROVE ServerInv'
    <2> DEFINE v == svr[s]
    <2>1. v \in SvrState /\ svr' = [svr EXCEPT ![s] = v] /\ v.bg_count = svr[s].bg_count
      BY <1>2, TypeParts
    <2>2. x \in ThrState
      BY DEF ThrState
    <2>3. CountOk(v, [thr[s] EXCEPT ![t] = x])
      BY <1>0, <2>2, ThreadCount
    <2>4. thr' = [thr EXCEPT ![s][t] = x]
      BY <1>2 DEF SetThr
    <2> HIDE DEF v
    <2> QED BY <1>0, <2>1, <2>3, <2>4, QuietStep
  <1> QED BY <1>1, <1>2 DEF BGLoop, Poll

\* A signal finds a receiving thread in poll.
LEMMA InterruptedStep ==
    ASSUME ServerInv, NEW r \in Rank, NEW t \in {MainThread} \cup (Ports \X Thread), Deliver(r, t),
           flags' = flags, thr' # thr
    PROVE  ServerInv'
  <1>1. /\ t # MainThread /\ thr[<<r, t[1]>>][t[2]] = "recv"
        /\ thr' = [thr EXCEPT ![<<r, t[1]>>][t[2]] = "eintr"]
        /\ UNCHANGED mainVars /\ svr' = svr /\ UNCHANGED reqVars /\ UNCHANGED dbVars
        /\ alive' = alive /\ imap' = imap
    BY DEF Deliver
  <1>2. t[1] \in Ports /\ t[2] \in Thread
    BY <1>1
  <1> DEFINE s == <<r, t[1]>>
             u == t[2]
             v == svr[s]
  <1>3. s \in Svr
    BY <1>2, SvrFacts
  <1>4. v \in SvrState /\ svr' = [svr EXCEPT ![s] = v] /\ "eintr" \in ThrState
    BY <1>1, <1>3, TypeParts DEF ThrState
  <1>5. CountOk(v, [thr[s] EXCEPT ![u] = "eintr"])
    BY <1>1, <1>2, <1>3, <1>4, ThreadCount
  <1>6. MainKept
    BY <1>1, SignalTypes DEF MainKept
  <1>7. u \in Thread /\ thr[s][u] = "recv" /\ thr' = [thr EXCEPT ![s][u] = "eintr"]
    BY <1>1, <1>2
  <1>8. v.bg_count = svr[s].bg_count
    OBVIOUS
  <1> HIDE DEF s, u, v
  <1> QED BY <1>1, <1>3, <1>4, <1>5, <1>6, <1>7, <1>8, QuietStep

(***************************************************************************)
(* The calls.                                                              *)
(***************************************************************************)
CallState == {"received", "queued", "running", "stored"}
ReqState == {"idle", "sent", "received", "queued", "running", "stored", "acked"}

\* The ports of a rank that has closed them have no threads.
LEMMA NotClosed ==
    ASSUME ServerInv, NEW s \in Svr, ~Stopped(thr[s])
    PROVE  pc[s[1]] \notin Closed /\ ~Deleted(pc[s[1]], port[s[1]], s[2])
  <1>1. PortOk(pc[s[1]], port[s[1]], s[2], thr[s])
    BY SvrFacts DEF ServerInv, Phases
  <1> QED BY <1>1 DEF PortOk, IsClosed, Deleted, Closed

\* Request q goes on, in the hands of thread b.
LEMMA CallStep ==
    ASSUME ServerInv, NEW q \in Requests, NEW x \in ReqState, NEW b \in Thread \cup {None},
           req' = [req EXCEPT ![q] = x], by' = [by EXCEPT ![q] = b], MainKept, flushed' = flushed,
           flush_status' = flush_status,
           \A w \in Requests : Opened(thr[Target[w]]) => Opened(thr'[Target[w]]),
           \A w \in Requests \ {q} : by[w] # None => thr'[Target[w]][by[w]] = "call",
           \A r \in Rank : db[r] \subseteq db'[r],
           x \in CallState => Opened(thr'[Target[q]]),
           b # None => x \in {"received", "stored"} /\ thr'[Target[q]][b] = "call",
           x = "received" => b # None,
           x \in {"stored", "acked"} => q \in db'[Target[q][1]],
           rpc_worker_threads = 0 => ~(x \in CallState /\ b = None),
           Deleted(pc[Target[q][1]], port[Target[q][1]], Target[q][2]) => x \notin CallState,
           b # None => \A w \in Requests \ {q} : by[w] = b => Target[w] # Target[q],
           x = "acked" /\ rpc_worker_threads = 0 => pc[Target[q][1]] \notin Closed
    PROVE  /\ Calls' /\ AckedFlushed' /\ by' \in [Requests -> Thread \cup {None}]
           /\ req' \in [Requests -> ReqState]
           /\ \A w \in Requests \ {q} : Pooled(w)' <=> Pooled(w)
           /\ Pooled(q)' <=> x \in CallState /\ b = None
  <1>0. req \in [Requests -> ReqState] /\ by \in [Requests -> Thread \cup {None}]
    BY DEF ServerInv, TypeOK, ReqState
  <1>1. /\ req'[q] = x /\ by'[q] = b
        /\ \A w \in Requests \ {q} : req'[w] = req[w] /\ by'[w] = by[w]
        /\ by' \in [Requests -> Thread \cup {None}] /\ req' \in [Requests -> ReqState]
    BY <1>0
  <1>2. pc' = pc /\ port' = port /\ flags' = flags
    BY DEF MainKept, mainVars
  <1>3. \A w \in Requests \ {q} : (Pooled(w)' <=> Pooled(w)) /\ (InCall(w)' <=> InCall(w))
    BY <1>1 DEF Pooled, InCall
  <1>4. (Pooled(q)' <=> x \in CallState /\ b = None) /\ (InCall(q)' <=> x \in CallState)
    BY <1>1 DEF Pooled, InCall, CallState
  <1>5. \A w \in Requests : Target[w][1] \in Rank
    BY SvrFacts
  <1>6. ASSUME NEW w \in Requests
        PROVE  /\ InCall(w)' => Opened(thr'[Target[w]])
               /\ by'[w] # None => req'[w] \in {"received", "stored"} /\ thr'[Target[w]][by'[w]] = "call"
               /\ req'[w] = "received" => by'[w] # None
               /\ req'[w] \in {"stored", "acked"} => w \in db'[Target[w][1]]
               /\ rpc_worker_threads' = 0 => ~Pooled(w)'
               /\ Deleted(pc'[Target[w][1]], port'[Target[w][1]], Target[w][2]) => ~InCall(w)'
    <2>1. CASE w = q
      BY <2>1, <1>1, <1>2, <1>4 DEF rpc_worker_threads
    <2>2. CASE w # q
      BY <2>2, <1>1, <1>2, <1>3, <1>5 DEF rpc_worker_threads, ServerInv, Calls
    <2> QED BY <2>1, <2>2
  <1>7. ASSUME NEW u \in Requests, NEW w \in Requests,
               by'[u] # None, by'[u] = by'[w], Target[u] = Target[w]
        PROVE  u = w
    <2>1. CASE u # q /\ w # q
      BY <2>1, <1>7, <1>1 DEF ServerInv, Calls
    <2>2. CASE u = q \/ w = q
      BY <2>2, <1>7, <1>1
    <2> QED BY <2>1, <2>2
  <1>8. Calls'
    BY <1>6, <1>7 DEF Calls
  <1>9. AckedFlushed'
    <2> SUFFICES ASSUME rpc_worker_threads = 0, NEW r \in Rank,
                        pc[r] \in {"flushed", "delete", "done"}, flush_status[r] = Ok,
                        NEW w \in Requests,
                        Target[w][1] = r, req'[w] = "acked"
                 PROVE  w \in flushed[r]
      BY <1>2 DEF AckedFlushed, rpc_worker_threads
    <2>1. w # q
      BY <1>1 DEF Closed
    <2> QED BY <2>1, <1>1 DEF ServerInv, AckedFlushed
  <1> QED BY <1>1, <1>3, <1>4, <1>8, <1>9

LEMMA SubsetCount ==
    ASSUME NEW P \in SUBSET Requests
    PROVE  IsFiniteSet(P) /\ Cardinality(P) \in 0 .. Cardinality(Requests)
  <1>1. IsFiniteSet(P) /\ Cardinality(P) <= Cardinality(Requests) /\ IsFiniteSet(Requests)
    BY ServerJobAssumption, FS_Subset
  <1>2. Cardinality(P) \in Nat /\ Cardinality(Requests) \in Nat
    BY <1>1, FS_CardinalityType
  <1> QED BY <1>1, <1>2

\* Whether q is one of the pool's calls.
LEMMA PoolChange ==
    ASSUME ServerInv, NEW q \in Requests, \A w \in Requests \ {q} : Pooled(w)' <=> Pooled(w)
    PROVE  /\ \A u : u # Target[q] => PoolCalls(u)' = PoolCalls(u)
           /\ (Pooled(q)' <=> Pooled(q)) => \A u : PoolCalls(u)' = PoolCalls(u)
           /\ Pooled(q)' /\ ~Pooled(q) =>
                  Cardinality(PoolCalls(Target[q])') = Cardinality(PoolCalls(Target[q])) + 1
           /\ ~Pooled(q)' /\ Pooled(q) =>
                  Cardinality(PoolCalls(Target[q])') = Cardinality(PoolCalls(Target[q])) - 1
           /\ Cardinality(PoolCalls(Target[q])') \in 0 .. Cardinality(Requests)
  <1> DEFINE s == Target[q]
  <1>1. \A u : u # s => PoolCalls(u)' = PoolCalls(u)
    BY DEF PoolCalls
  <1>2. (Pooled(q)' <=> Pooled(q)) => \A u : PoolCalls(u)' = PoolCalls(u)
    BY DEF PoolCalls
  <1>3. ASSUME Pooled(q)', ~Pooled(q)
        PROVE  Cardinality(PoolCalls(s)') = Cardinality(PoolCalls(s)) + 1
    <2>1. PoolCalls(s)' = PoolCalls(s) \cup {q} /\ q \notin PoolCalls(s)
      BY <1>3 DEF PoolCalls
    <2> QED BY <2>1, PoolFinite, FS_AddElement
  <1>4. ASSUME ~Pooled(q)', Pooled(q)
        PROVE  Cardinality(PoolCalls(s)') = Cardinality(PoolCalls(s)) - 1
    <2>1. PoolCalls(s)' = PoolCalls(s) \ {q} /\ q \in PoolCalls(s)
      BY <1>4 DEF PoolCalls
    <2> QED BY <2>1, PoolFinite, FS_RemoveElement
  <1>5. Cardinality(PoolCalls(s)') \in 0 .. Cardinality(Requests)
    <2>1. PoolCalls(s)' \in SUBSET Requests
      BY DEF PoolCalls
    <2> QED BY <2>1, SubsetCount
  <1> QED BY <1>1, <1>2, <1>3, <1>4, <1>5

\* A step of a request that is received by no thread, and that leaves the threads and the
\* pool as they are.
LEMMA RequestStep ==
    ASSUME ServerInv, NEW q \in Requests, NEW x \in ReqState,
           req' = [req EXCEPT ![q] = x], UNCHANGED rpcVars, by' = by, MainKept, flushed' = flushed,
           flush_status' = flush_status,
           db' \in [Rank -> SUBSET Requests], \A r \in Rank : db[r] \subseteq db'[r],
           x \in CallState <=> InCall(q), x # "acked", x # "received",
           x = "stored" => q \in db'[Target[q][1]],
           by[q] # None => x = "stored"
    PROVE  ServerInv'
  <1> DEFINE b == by[q]
  <1>0. b \in Thread \cup {None} /\ by' = [by EXCEPT ![q] = b] /\ req \in [Requests -> ReqState]
        /\ by \in [Requests -> Thread \cup {None}]
    BY DEF ServerInv, TypeOK, ReqState
  <1>1. svr' = svr /\ thr' = thr /\ pc' = pc /\ port' = port /\ alive' = alive /\ flags' = flags
        /\ entered' = entered
    BY DEF rpcVars, MainKept, mainVars
  <1>2. /\ \A w \in Requests : Opened(thr[Target[w]]) => Opened(thr'[Target[w]])
        /\ \A w \in Requests \ {q} : by[w] # None => thr'[Target[w]][by[w]] = "call"
        /\ x \in CallState => Opened(thr'[Target[q]])
        /\ b # None => x \in {"received", "stored"} /\ thr'[Target[q]][b] = "call"
        /\ rpc_worker_threads = 0 => ~(x \in CallState /\ b = None)
        /\ Deleted(pc[Target[q][1]], port[Target[q][1]], Target[q][2]) => x \notin CallState
        /\ b # None => \A w \in Requests \ {q} : by[w] = b => Target[w] # Target[q]
    BY <1>1 DEF ServerInv, Calls, Pooled
  <1>3. x \in CallState /\ b = None <=> Pooled(q)
    BY DEF Pooled
  <1> HIDE DEF b
  <1>4. /\ Calls' /\ AckedFlushed' /\ by' \in [Requests -> Thread \cup {None}]
        /\ req' \in [Requests -> ReqState]
        /\ \A w \in Requests \ {q} : Pooled(w)' <=> Pooled(w)
        /\ Pooled(q)' <=> x \in CallState /\ b = None
    BY <1>0, <1>2, CallStep
  <1>5. \A u : PoolCalls(u)' = PoolCalls(u)
    BY <1>3, <1>4, PoolChange
  <1>6. PoolCounted'
    BY <1>1, <1>5 DEF ServerInv, PoolCounted
  <1>7. ThreadsCounted' /\ Phases' /\ Objects'
    BY <1>1 DEF ServerInv, ThreadsCounted, Phases, Objects
  <1>8. TypeOK'
    <2>1. svr' \in [Svr -> SvrState] /\ thr' \in [Svr -> [Thread -> ThrState]]
      BY <1>1, TypeParts
    <2> QED BY <1>4, <2>1, TypeStep DEF ReqState
  <1> QED BY <1>4, <1>6, <1>7, <1>8 DEF ServerInv

LEMMA SendStep ==
    ASSUME ServerInv, NEW q \in Requests, Send(q), flags' = flags
    PROVE  ServerInv'
  <1>1. /\ req' = [req EXCEPT ![q] = "sent"] /\ UNCHANGED rpcVars /\ by' = by /\ db' = db
        /\ flushed' = flushed /\ flush_status' = flush_status /\ req[q] = "idle" /\ MainKept
    BY SigKept DEF Send, MainKept, dbVars
  <1>2. "sent" \in ReqState /\ "sent" \notin CallState /\ ~InCall(q)
    BY <1>1 DEF ReqState, CallState, InCall
  <1>3. by[q] = None
    BY <1>1 DEF ServerInv, Calls
  <1>4. db' \in [Rank -> SUBSET Requests]
    BY <1>1, TypeParts
  <1> QED BY <1>1, <1>2, <1>3, <1>4, RequestStep

LEMMA BGThreadStep ==
    ASSUME ServerInv, NEW s \in Svr, NEW q \in Requests, BGThread(s, q), flags' = flags
    PROVE  ServerInv'
  <1>1. /\ req' = [req EXCEPT ![q] = "running"] /\ UNCHANGED rpcVars /\ by' = by /\ db' = db
        /\ flushed' = flushed /\ flush_status' = flush_status /\ req[q] = "queued" /\ MainKept
    BY SigKept DEF BGThread, MainKept, dbVars
  <1>2. "running" \in ReqState /\ "running" \in CallState /\ InCall(q)
    BY <1>1 DEF ReqState, CallState, InCall
  <1>3. by[q] = None
    BY <1>1 DEF ServerInv, Calls
  <1>4. db' \in [Rank -> SUBSET Requests]
    BY <1>1, TypeParts
  <1> QED BY <1>1, <1>2, <1>3, <1>4, RequestStep

LEMMA PutStep ==
    ASSUME ServerInv, NEW s \in Svr, NEW q \in Requests, Put(s, q), flags' = flags
    PROVE  ServerInv'
  <1>1. /\ req' = [req EXCEPT ![q] = "stored"] /\ UNCHANGED rpcVars /\ by' = by
        /\ db' = [db EXCEPT ![s[1]] = @ \cup {q}] /\ Target[q] = s
        /\ flushed' = flushed
        /\ flush_status' = flush_status /\ req[q] \in {"received", "running"} /\ MainKept
    BY SigKept DEF Put, MainKept
  <1>2. "stored" \in ReqState /\ "stored" \in CallState /\ InCall(q)
    BY <1>1 DEF ReqState, CallState, InCall
  <1>3. s[1] \in Rank
    BY SvrFacts
  <1>4. /\ db' \in [Rank -> SUBSET Requests] /\ (\A r \in Rank : db[r] \subseteq db'[r])
        /\ q \in db'[Target[q][1]]
    BY <1>1, <1>3, TypeParts
  <1> QED BY <1>1, <1>2, <1>4, RequestStep

LEMMA RecvStep ==
    ASSUME ServerInv, NEW s \in Svr, NEW t \in Thread, NEW q \in Requests, Recv(s, t, q),
           flags' = flags
    PROVE  ServerInv'
  <1>0. /\ thr[s][t] = "recv" /\ req[q] = "sent" /\ Target[q] = s /\ MainKept
        /\ UNCHANGED dbVars /\ db' = db /\ flushed' = flushed /\ flush_status' = flush_status
    BY SigKept DEF Recv, MainKept, dbVars
  <1>1. /\ req \in [Requests -> ReqState] /\ by \in [Requests -> Thread \cup {None}]
        /\ db' \in [Rank -> SUBSET Requests] /\ svr \in [Svr -> SvrState]
        /\ svr[s] \in SvrState /\ svr = [svr EXCEPT ![s] = svr[s]]
    BY <1>0, TypeParts DEF ServerInv, TypeOK, ReqState
  <1>2. by[q] = None /\ ~InCall(q) /\ ~Pooled(q)
    BY <1>0 DEF ServerInv, Calls, InCall, Pooled
  <1>3. \A r \in Rank : db[r] \subseteq db'[r]
    BY <1>0
  <1>4. ASSUME NEW x \in {"test", "call"}, SetThr(s, t, x)
        PROVE  /\ thr' \in [Svr -> [Thread -> ThrState]] /\ Phases' /\ Objects'
               /\ \A u \in Svr \ {s} : thr'[u] = thr[u]
               /\ thr'[s] = [thr[s] EXCEPT ![t] = x] /\ thr'[s][t] = x
               /\ \A w \in Requests : Opened(thr[Target[w]]) => Opened(thr'[Target[w]])
               /\ \A w \in Requests \ {q} : by[w] # None => thr'[Target[w]][by[w]] = "call"
               /\ Opened(thr'[Target[q]])
               /\ ~Deleted(pc[Target[q][1]], port[Target[q][1]], Target[q][2])
               /\ CountOk(svr[s], thr'[s])
               /\ \A w \in Requests \ {q} : by[w] = t => Target[w] # Target[q]
    <2>1. thr' = [thr EXCEPT ![s][t] = x]
      BY <1>4 DEF SetThr
    <2>2. /\ thr' \in [Svr -> [Thread -> ThrState]]
          /\ thr[s] \in [Thread -> ThrState] /\ thr'[s] = [thr[s] EXCEPT ![t] = x]
          /\ \A u \in Svr \ {s} : thr'[u] = thr[u]
          /\ \A u \in Svr : Opened(thr[u]) => Opened(thr'[u])
          /\ Opened(thr[s]) /\ ~Stopped(thr[s])
          /\ Phases' /\ Objects'
      BY <1>0, <2>1, RxStep
    <2>3. \A w \in Requests : by[w] # None =>
              /\ thr[Target[w]][by[w]] = "call" /\ by[w] \in Thread /\ Target[w] \in Svr
              /\ Target[w] = s => by[w] # t
      BY <1>0, SvrFacts DEF ServerInv, Calls, TypeOK
    <2>4. \A w \in Requests : by[w] # None => thr'[Target[w]][by[w]] = "call"
      BY <2>2, <2>3
    <2>5. ~Deleted(pc[Target[q][1]], port[Target[q][1]], Target[q][2])
      BY <1>0, <2>2, NotClosed
    <2>6. CountOk(svr[s], thr'[s])
      <3>1. x \in ThrState
        BY DEF ThrState
      <3> QED BY <1>0, <2>2, <3>1, ThreadCount
    <2>7. None # t
      BY ServerJobAssumption
    <2>8. \A w \in Requests : Opened(thr[Target[w]]) => Opened(thr'[Target[w]])
      BY <2>2, SvrFacts
    <2> QED BY <1>0, <2>2, <2>3, <2>4, <2>5, <2>6, <2>7, <2>8
  <1>5. CASE rpc_worker_threads > 0
    <2> DEFINE v == [svr[s] EXCEPT !.bg_count = @ + 1]
               b == None
    <2>1. /\ svr' = [svr EXCEPT ![s].bg_count = @ + 1] /\ req' = [req EXCEPT ![q] = "queued"]
          /\ SetThr(s, t, "test") /\ by' = by
      BY <1>5 DEF Recv
    <2>2. by' = [by EXCEPT ![q] = b] /\ b \in Thread \cup {None} /\ b = None
      BY <1>1, <1>2, <2>1
    <2>3. "queued" \in ReqState /\ "queued" \in CallState
      BY DEF ReqState, CallState
    <2>4. rpc_worker_threads # 0
      BY <1>5, ServerJobAssumption DEF ServerInv, TypeOK, rpc_worker_threads
    <2> HIDE DEF b
    <2>5. /\ Calls' /\ AckedFlushed' /\ by' \in [Requests -> Thread \cup {None}]
          /\ req' \in [Requests -> ReqState]
          /\ \A w \in Requests \ {q} : Pooled(w)' <=> Pooled(w)
          /\ Pooled(q)'
      BY <1>0, <1>3, <1>4, <2>1, <2>2, <2>3, <2>4, CallStep
    <2>6. /\ \A u : u # s => PoolCalls(u)' = PoolCalls(u)
          /\ Cardinality(PoolCalls(s)') = Cardinality(PoolCalls(s)) + 1
          /\ Cardinality(PoolCalls(s)') \in 0 .. Cardinality(Requests)
      BY <1>0, <1>2, <2>5, PoolChange
    <2>7. svr[s].bg_count = Cardinality(PoolCalls(s))
      BY DEF ServerInv, PoolCounted
    <2>8. v \in SvrState /\ v.bg_n = svr[s].bg_n /\ v.bg_threads = svr[s].bg_threads
          /\ v.bg_count = svr[s].bg_count + 1
      BY <1>1, <2>6, <2>7 DEF SvrState
    <2>9. svr' = [svr EXCEPT ![s] = v]
      BY <1>1, <2>1
    <2> HIDE DEF v
    <2>10. CountOk(v, thr'[s])
      BY <1>4, <2>1, <2>8 DEF CountOk
    <2>11. /\ svr' \in [Svr -> SvrState] /\ svr'[s] = v /\ \A u \in Svr \ {s} : svr'[u] = svr[u]
           /\ ThreadsCounted'
      BY <1>4, <2>1, <2>8, <2>9, <2>10, SvrStep
    <2>12. PoolCounted'
      BY <2>6, <2>7, <2>8, <2>11 DEF ServerInv, PoolCounted
    <2>13. TypeOK'
      BY <1>0, <1>1, <1>4, <2>1, <2>5, <2>11, TypeStep DEF ReqState
    <2> QED BY <1>4, <2>1, <2>5, <2>11, <2>12, <2>13 DEF ServerInv
  <1>6. CASE ~(rpc_worker_threads > 0)
    <2>1. /\ svr' = svr /\ req' = [req EXCEPT ![q] = "received"]
          /\ SetThr(s, t, "call") /\ by' = [by EXCEPT ![q] = t]
      BY <1>6 DEF Recv
    <2>2. "received" \in ReqState /\ "received" \in CallState /\ t \in Thread \cup {None} /\ t # None
      BY ServerJobAssumption DEF ReqState, CallState
    <2>3. /\ Calls' /\ AckedFlushed' /\ by' \in [Requests -> Thread \cup {None}]
          /\ req' \in [Requests -> ReqState]
          /\ \A w \in Requests \ {q} : Pooled(w)' <=> Pooled(w)
          /\ ~Pooled(q)'
      <3>1. /\ \A w \in Requests : Opened(thr[Target[w]]) => Opened(thr'[Target[w]])
            /\ \A w \in Requests \ {q} : by[w] # None => thr'[Target[w]][by[w]] = "call"
            /\ Opened(thr'[Target[q]]) /\ thr'[Target[q]][t] = "call"
            /\ ~Deleted(pc[Target[q][1]], port[Target[q][1]], Target[q][2])
            /\ \A w \in Requests \ {q} : by[w] = t => Target[w] # Target[q]
        BY <1>0, <1>4, <2>1
      <3> DEFINE x == "received"
                 b == t
      <3>2. /\ req' = [req EXCEPT ![q] = x] /\ by' = [by EXCEPT ![q] = b]
            /\ MainKept /\ flushed' = flushed
            /\ flush_status' = flush_status /\ \A r \in Rank : db[r] \subseteq db'[r]
        BY <1>0, <1>3, <2>1
      <3>3. x \in ReqState /\ b \in Thread \cup {None}
        BY <2>2
      <3>4. /\ x \in CallState => Opened(thr'[Target[q]])
            /\ b # None => x \in {"received", "stored"} /\ thr'[Target[q]][b] = "call"
            /\ x = "received" => b # None
            /\ x \in {"stored", "acked"} => q \in db'[Target[q][1]]
            /\ rpc_worker_threads = 0 => ~(x \in CallState /\ b = None)
            /\ Deleted(pc[Target[q][1]], port[Target[q][1]], Target[q][2]) => x \notin CallState
            /\ b # None => \A w \in Requests \ {q} : by[w] = b => Target[w] # Target[q]
            /\ x = "acked" /\ rpc_worker_threads = 0 => pc[Target[q][1]] \notin Closed
        BY <2>2, <3>1
      <3>5. b # None
        BY <2>2
      <3> HIDE DEF x, b
      <3>6. /\ Calls' /\ AckedFlushed' /\ by' \in [Requests -> Thread \cup {None}]
            /\ req' \in [Requests -> ReqState]
            /\ \A w \in Requests \ {q} : Pooled(w)' <=> Pooled(w)
            /\ Pooled(q)' <=> x \in CallState /\ b = None
        BY <3>1, <3>2, <3>3, <3>4, CallStep
      <3> QED BY <3>5, <3>6
    <2>4. \A u : PoolCalls(u)' = PoolCalls(u)
      BY <1>2, <2>3, PoolChange
    <2>5. PoolCounted'
      BY <2>1, <2>4 DEF ServerInv, PoolCounted
    <2>6. svr' \in [Svr -> SvrState] /\ ThreadsCounted'
      <3> DEFINE v == svr[s]
      <3>1. v \in SvrState /\ svr' = [svr EXCEPT ![s] = v] /\ CountOk(v, thr'[s])
        BY <1>1, <1>4, <2>1
      <3> HIDE DEF v
      <3> QED BY <1>4, <2>1, <3>1, SvrStep
    <2>7. TypeOK'
      BY <1>0, <1>1, <1>4, <2>1, <2>3, <2>6, TypeStep DEF ReqState
    <2> QED BY <1>4, <2>1, <2>3, <2>5, <2>6, <2>7 DEF ServerInv
  <1> QED BY <1>5, <1>6

LEMMA ReplyStep ==
    ASSUME ServerInv, NEW s \in Svr, NEW q \in Requests, Reply(s, q), flags' = flags
    PROVE  ServerInv'
  <1> DEFINE b == None
  <1>0. /\ req[q] = "stored" /\ Target[q] = s /\ MainKept /\ UNCHANGED dbVars
        /\ db' = db /\ flushed' = flushed /\ flush_status' = flush_status
        /\ req' = [req EXCEPT ![q] = "acked"] /\ by' = [by EXCEPT ![q] = b]
    BY SigKept DEF Reply, MainKept, dbVars
  <1>1. /\ req \in [Requests -> ReqState] /\ by \in [Requests -> Thread \cup {None}]
        /\ db' \in [Rank -> SUBSET Requests] /\ svr \in [Svr -> SvrState]
        /\ svr[s] \in SvrState /\ svr = [svr EXCEPT ![s] = svr[s]]
    BY <1>0, TypeParts DEF ServerInv, TypeOK, ReqState
  <1>2. /\ "acked" \in ReqState /\ "acked" \notin CallState /\ "acked" # "received"
        /\ b = None /\ b \in Thread \cup {None}
        /\ \A r \in Rank : db[r] \subseteq db'[r]
    BY <1>0 DEF ReqState, CallState
  <1>3. q \in db'[Target[q][1]] /\ InCall(q) /\ (rpc_worker_threads = 0 => by[q] # None)
    BY <1>0 DEF ServerInv, Calls, InCall, Pooled
  <1>4. Pooled(q) <=> by[q] = None
    BY <1>3 DEF Pooled
  <1> HIDE DEF b
  <1>5. CASE by[q] # None
    <2> DEFINE t == by[q]
               v == svr[s]
    <2>1. t \in Thread /\ thr[s][t] = "call"
      BY <1>0, <1>1, <1>5 DEF ServerInv, Calls
    <2>2. thr' = [thr EXCEPT ![s][t] = "test"] /\ svr' = svr
      BY <1>5 DEF Reply, SetThr
    <2>3. \A w \in Requests \ {q} : by[w] # None =>
              /\ thr[Target[w]][by[w]] = "call" /\ by[w] \in Thread /\ Target[w] \in Svr
              /\ Target[w] = s => by[w] # t
      BY <1>0, <1>5, SvrFacts DEF ServerInv, Calls, TypeOK
    <2> HIDE DEF t
    <2>4. /\ thr' \in [Svr -> [Thread -> ThrState]]
          /\ thr[s] \in [Thread -> ThrState] /\ thr'[s] = [thr[s] EXCEPT ![t] = "test"]
          /\ \A u \in Svr \ {s} : thr'[u] = thr[u]
          /\ \A u \in Svr : Opened(thr[u]) => Opened(thr'[u])
          /\ Opened(thr[s]) /\ ~Stopped(thr[s])
          /\ Phases' /\ Objects'
      BY <1>0, <2>1, <2>2, RxStep
    <2>5. \A w \in Requests \ {q} : by[w] # None => thr'[Target[w]][by[w]] = "call"
      BY <2>3, <2>4
    <2>6. \A w \in Requests : Opened(thr[Target[w]]) => Opened(thr'[Target[w]])
      BY <2>4, SvrFacts
    <2>7. pc[Target[q][1]] \notin Closed
      BY <1>0, <2>4, NotClosed
    <2>8. /\ Calls' /\ AckedFlushed' /\ by' \in [Requests -> Thread \cup {None}]
          /\ req' \in [Requests -> ReqState]
          /\ \A w \in Requests \ {q} : Pooled(w)' <=> Pooled(w)
          /\ ~Pooled(q)'
      BY <1>0, <1>2, <1>3, <2>5, <2>6, <2>7, CallStep
    <2>9. \A u : PoolCalls(u)' = PoolCalls(u)
      BY <1>4, <1>5, <2>8, PoolChange
    <2>10. PoolCounted'
      BY <2>2, <2>9 DEF ServerInv, PoolCounted
    <2>11. svr' \in [Svr -> SvrState] /\ ThreadsCounted'
      <3>1. "test" \in ThrState
        BY DEF ThrState
      <3>2. v \in SvrState /\ svr' = [svr EXCEPT ![s] = v] /\ CountOk(v, thr'[s])
        BY <1>1, <2>1, <2>2, <2>4, <3>1, ThreadCount
      <3> HIDE DEF v
      <3> QED BY <2>4, <3>2, SvrStep
    <2>12. TypeOK'
      BY <1>0, <1>1, <2>4, <2>8, <2>11, TypeStep DEF ReqState
    <2> QED BY <2>4, <2>8, <2>10, <2>11, <2>12 DEF ServerInv
  <1>6. CASE by[q] = None
    <2> DEFINE n == svr[s].bg_count - 1
               z == svr[s].waiting /\ svr[s].bg_count # 1
               v == [svr[s] EXCEPT !.bg_count = n, !.waiting = z]
    <2>1. thr' = thr
      BY <1>6 DEF Reply
    <2>2. svr' = [svr EXCEPT ![s] = v]
      BY <1>1, <1>6 DEF Reply, SvrState
    <2>3. /\ \A w \in Requests \ {q} : by[w] # None => thr'[Target[w]][by[w]] = "call"
          /\ \A w \in Requests : Opened(thr[Target[w]]) => Opened(thr'[Target[w]])
      BY <2>1 DEF ServerInv, Calls
    <2>4. rpc_worker_threads # 0
      BY <1>3, <1>6
    <2>5. /\ Calls' /\ AckedFlushed' /\ by' \in [Requests -> Thread \cup {None}]
          /\ req' \in [Requests -> ReqState]
          /\ \A w \in Requests \ {q} : Pooled(w)' <=> Pooled(w)
          /\ ~Pooled(q)'
      BY <1>0, <1>2, <1>3, <2>3, <2>4, CallStep
    <2>6. /\ \A u : u # s => PoolCalls(u)' = PoolCalls(u)
          /\ Cardinality(PoolCalls(s)') = Cardinality(PoolCalls(s)) - 1
          /\ Cardinality(PoolCalls(s)') \in 0 .. Cardinality(Requests)
      BY <1>0, <1>4, <1>6, <2>5, PoolChange
    <2>7. n = Cardinality(PoolCalls(s)')
      BY <2>6 DEF ServerInv, PoolCounted
    <2>8. v \in SvrState /\ v.bg_n = svr[s].bg_n /\ v.bg_threads = svr[s].bg_threads
          /\ v.bg_count = n
      <3>1. z \in BOOLEAN /\ n \in 0 .. Cardinality(Requests)
        BY <2>6, <2>7
      <3> HIDE DEF z, n
      <3> QED BY <1>1, <3>1 DEF SvrState
    <2> HIDE DEF v
    <2>9. CountOk(v, thr'[s])
      BY <2>1, <2>8 DEF CountOk, ServerInv, ThreadsCounted
    <2>10. /\ svr' \in [Svr -> SvrState] /\ svr'[s] = v /\ \A u \in Svr \ {s} : svr'[u] = svr[u]
           /\ ThreadsCounted'
      BY <2>1, <2>2, <2>8, <2>9, SvrStep
    <2>11. PoolCounted'
      BY <2>6, <2>7, <2>8, <2>10 DEF ServerInv, PoolCounted
    <2>12. thr' \in [Svr -> [Thread -> ThrState]] /\ Phases' /\ Objects'
      BY <1>0, <2>1, TypeParts DEF ServerInv, Phases, Objects, MainKept, mainVars
    <2>13. TypeOK'
      BY <1>0, <1>1, <2>5, <2>10, <2>12, TypeStep DEF ReqState
    <2> QED BY <2>5, <2>10, <2>11, <2>12, <2>13 DEF ServerInv
  <1> QED BY <1>5, <1>6
-----------------------------------------------------------------------------
(***************************************************************************)
(* The invariant is inductive.                                             *)
(***************************************************************************)
LEMMA StutterServer ==
    ASSUME ServerInv, UNCHANGED <<flags, vars>>
    PROVE  ServerInv'
  <1>1. /\ flags' = flags /\ pc' = pc /\ port' = port /\ entered' = entered /\ mu' = mu
        /\ shutting_down' = shutting_down /\ signals' = signals /\ handler' = handler
        /\ svr' = svr /\ thr' = thr /\ req' = req /\ by' = by /\ db' = db /\ flushed' = flushed
        /\ flush_status' = flush_status
        /\ alive' = alive /\ imap' = imap
    BY DEF vars, mainVars, sigVars, rpcVars, reqVars, dbVars
  <1>2. TypeOK'
    BY <1>1 DEF ServerInv, TypeOK, MaxSignals
  <1>3. ThreadsCounted' /\ Phases' /\ Objects'
    BY <1>1 DEF ServerInv, ThreadsCounted, Phases, Objects
  <1>4. Calls' /\ PoolCounted' /\ AckedFlushed'
    BY <1>1 DEF ServerInv, Calls, PoolCounted, PoolCalls, Pooled, InCall, AckedFlushed,
                rpc_worker_threads
  <1> QED BY <1>2, <1>3, <1>4 DEF ServerInv

LEMMA MainInductive ==
    ASSUME ServerInv, NEW r \in Rank, Main(r), flags' = flags
    PROVE  ServerInv'
  BY OpenFilesystemStep, OpenPortStep, BGStartStep, PortsOpenStep, ServingActions, CloseStep,
     BGStopStep, PortsClosedStep, FlushStep, FinishStep, DeletePortStep, DeleteFsStep DEF Main

LEMMA ServerInductive ==
    ASSUME ServerInv, [Next]_<<flags, vars>>
    PROVE  ServerInv'
  <1>1. CASE UNCHANGED <<flags, vars>>
    BY <1>1, StutterServer
  <1>2. CASE Next
    <2>0. flags' = flags
      BY <1>2 DEF Next
    <2>1. ASSUME NEW r \in Rank, Main(r) \/ Interrupt(r)
                     \/ \E t \in {MainThread} \cup (Ports \X Thread) : Deliver(r, t)
          PROVE  ServerInv'
      <3>1. CASE Main(r)
        BY <2>0, <3>1, MainInductive
      <3>2. CASE Interrupt(r)
        <4>1. thr' = thr
          BY <3>2 DEF Interrupt, rpcVars
        <4> QED BY <2>0, <3>2, <4>1, SignalStep
      <3>3. CASE \E t \in {MainThread} \cup (Ports \X Thread) : Deliver(r, t)
        BY <2>0, <3>3, SignalStep, InterruptedStep
      <3> QED BY <2>1, <3>1, <3>2, <3>3
    <2>2. ASSUME NEW s \in Svr, NEW t \in Thread, Rx(s, t) PROVE ServerInv'
      BY <2>0, <2>2, BGCallStep, LoopStep, RecvStep DEF Rx
    <2>3. ASSUME NEW s \in Svr, NEW q \in Requests, Worker(s, q) PROVE ServerInv'
      BY <2>0, <2>3, BGThreadStep, PutStep, ReplyStep DEF Worker
    <2>4. ASSUME NEW q \in Requests, Send(q) PROVE ServerInv'
      BY <2>0, <2>4, SendStep
    <2> QED BY <1>2, <2>1, <2>2, <2>3, <2>4 DEF Next
  <1> QED BY <1>1, <1>2

LEMMA ServerInvariant == Spec => []ServerInv
  <1>1. Init => ServerInv
    BY InitServer
  <1>2. ServerInv /\ [Next]_<<flags, vars>> => ServerInv'
    BY ServerInductive
  <1> QED BY <1>1, <1>2, PTL DEF Spec
-----------------------------------------------------------------------------
\* The variables of the job keep to their sets: no thread is counted twice or counted out
\* before it was counted in, bg_count stays within the requests, and no rank enters more
\* than three barriers.
THEOREM ServerTypes == Spec => []TypeOK
  <1>1. ServerInv => TypeOK
    BY DEF ServerInv
  <1> QED BY <1>1, ServerInvariant, PTL

\* With no pool, a flush that succeeds has in it every create the rank acknowledges, then
\* or ever: Close has waited for the threads that make the calls (a flush that fails is
\* excepted: Run, deltafs_bm_svr.cc, drops its status).
THEOREM AckedFlushedTheorem == Spec => []AckedFlushed
  <1>1. ServerInv => AckedFlushed
    BY DEF ServerInv
  <1> QED BY <1>1, ServerInvariant, PTL

\* A call under way finds its port, its file system and its db: BGStop has waited for the
\* receiving threads of a port before ~Server, and ~PosixUDPServer waits for its pool.
THEOREM NoUseAfterFreeTheorem == Spec => []NoUseAfterFree
  <1>1. ServerInv => NoUseAfterFree
    <2> SUFFICES ASSUME ServerInv, NEW q \in Requests, InCall(q)
                 PROVE  {Target[q][2], Fs} \subseteq alive[Target[q][1]]
      BY DEF NoUseAfterFree, InCall
    <2> DEFINE s == Target[q]
    <2>1. s \in Svr /\ s[1] \in Rank /\ s[2] \in Ports /\ s = <<s[1], s[2]>>
      BY SvrFacts
    <2>2. Opened(thr[s]) /\ ~Deleted(pc[s[1]], port[s[1]], s[2])
      BY DEF ServerInv, Calls
    <2>3. ObjectOk(pc[s[1]], port[s[1]], s[2], thr[s], alive[s[1]])
      BY <2>1 DEF ServerInv, Objects
    <2> QED BY <2>2, <2>3 DEF ObjectOk
  <1> QED BY <1>1, ServerInvariant, PTL
=============================================================================
