--------------------------- MODULE CompactorProofs ---------------------------
(***************************************************************************)
(* Proofs that the compactor loses no key: for any number of ranks, any    *)
(* sources and routes, and whatever the batch sizes and sender threads.    *)
(***************************************************************************)
EXTENDS Compactor, TLAPS

(***************************************************************************)
(* A sender and what it has yet to deliver.                                *)
(***************************************************************************)
Pending(s) == Range(s.buf.kvs) \cup Range(s.in_.kvs)

\* A sender that has been given keys of `seen' only, and whose rank has dst in its db.
SenderOk(s, seen, dst) ==
    /\ s.buf.n = Len(s.buf.kvs) /\ s.in_.n = Len(s.in_.kvs)
    /\ s.scheduled <=> s.call # "none"
    /\ ~s.scheduled => s.in_ = Empty
    /\ s.call = "ok" => Range(s.in_.kvs) \subseteq dst
    /\ IsInjective(s.buf.kvs) /\ IsInjective(s.in_.kvs)
    /\ Range(s.buf.kvs) \cap Range(s.in_.kvs) = {}
    /\ Pending(s) \subseteq seen

\* Key k is still to be delivered, or there, or the sender has failed.
Delivers(s, k, dst) ==
    s.status # Ok \/ s.call = "error" \/ k \in Pending(s) \/ k \in dst

Seen(r) == {Source[r][n] : n \in 1 .. pos[r] - 1}

SendersOk == \A r, i \in Rank : SenderOk(snd[r][i], Seen(r), db[i])
Delivered == \A r \in Rank : \A k \in Seen(r) : Delivers(snd[r][Route[k]], k, db[Route[k]])

(***************************************************************************)
(* Where a rank is.                                                        *)
(***************************************************************************)
Label == {"opendbs", "openport", "opensenders", "start", "map", "send", "flush", "wait",
          "inline", "dbflush", "report", "done", "finalize"}
Cursor == [sender : 0 .. comm_size, then : {"map", "flush"}]
Ended == {"dbflush", "report", "done"}

\* The barriers a rank has entered.
Barriers(label) ==
    IF label \in {"opendbs", "openport", "finalize"} THEN 0
    ELSE IF label = "opensenders" THEN 1
    ELSE IF label = "dbflush" THEN 3
    ELSE IF label \in {"report", "done"} THEN 4 ELSE 2

\* A rank r at a label, with the given position, sender, number of barriers and status
\* of the iterator.
RankOk(r, label, p, m, e, o) ==
    /\ e = Barriers(label)
    /\ p \in 1 .. Len(Source[r]) + 1
    /\ label \in {"send", "inline"} => m.sender \in Rank
    /\ label \in {"opendbs", "openport", "opensenders", "start", "map", "finalize"}
          => m.then = "map"
    /\ label \in {"flush", "wait"} \cup Ended => m.then = "flush"
    /\ m.then = "flush" /\ o = Ok => p = Len(Source[r]) + 1

Control == \A r \in Rank : RankOk(r, pc[r], pos[r], next[r], entered[r], iter[r])

\* The senders a rank has flushed, and those it has waited for.
HasFlushed(r, i) == \/ pc[r] \in {"wait"} \cup Ended
                    \/ next[r].then = "flush" /\ i < next[r].sender
                    \/ next[r].then = "flush" /\ i = next[r].sender /\ pc[r] = "inline"
HasWaited(r, i) == pc[r] \in Ended \/ (pc[r] = "wait" /\ i < next[r].sender)

Flushed == \A r, i \in Rank : HasFlushed(r, i) => snd[r][i].buf.n = 0
Waited == \A r, i \in Rank : HasWaited(r, i) => ~snd[r][i].scheduled /\ snd[r][i].status = Ok

\* Behind the barrier nobody scans, and what was read for the rank is in its db.
Landed == \A r \in Rank : pc[r] \in {"report", "done"} =>
              \A u \in Rank : /\ pc[u] \in Ended
                              /\ \A k \in Seen(u) : Route[k] = r => k \in flushed[r]

CompactorInv == TypeOK /\ SendersOk /\ Delivered /\ Control /\ Flushed /\ Waited /\ Landed
-----------------------------------------------------------------------------
LEMMA RankInt ==
    /\ comm_size \in Nat
    /\ \A r \in Rank : r \in Nat /\ r < comm_size /\ r \in 0 .. comm_size /\ r + 1 \in 0 .. comm_size
  BY CompactorAssumption DEF Rank

LEMMA SourceType ==
    \A r \in Rank : /\ Source[r] \in Seq(DOMAIN Route) /\ Len(Source[r]) \in Nat
                    /\ DOMAIN Source[r] = 1 .. Len(Source[r])
                    /\ IsInjective(Source[r])
  BY CompactorAssumption

(***************************************************************************)
(* What each operation does to a sender.                                   *)
(***************************************************************************)
LEMMA RangeFacts ==
    ASSUME NEW S, NEW q \in Seq(S), NEW k \in S
    PROVE  /\ Range(Append(q, k)) = Range(q) \cup {k}
           /\ IsInjective(q) /\ k \notin Range(q) => IsInjective(Append(q, k))
           /\ Range(SubSeq(q, 1, Len(q))) = Range(q)
  <1> DEFINE p == Append(q, k)
  <1>1. /\ DOMAIN p = 1 .. Len(q) + 1 /\ DOMAIN q = 1 .. Len(q) /\ Len(q) \in Nat
        /\ p[Len(q) + 1] = k
        /\ \A j \in 1 .. Len(q) : p[j] = q[j]
    OBVIOUS
  <1> HIDE DEF p
  <1>2. \A j \in DOMAIN p : (j \in DOMAIN q /\ p[j] = q[j]) \/ (j = Len(q) + 1 /\ p[j] = k)
    BY <1>1
  <1>3. \A j \in DOMAIN q : j \in DOMAIN p /\ p[j] = q[j]
    BY <1>1
  <1>4. Len(q) + 1 \in DOMAIN p
    BY <1>1
  <1>5. Range(p) = Range(q) \cup {k}
    BY <1>1, <1>2, <1>3, <1>4 DEF Range
  <1>6. IsInjective(q) /\ k \notin Range(q) => IsInjective(p)
    BY <1>2 DEF IsInjective, Range
  <1>7. SubSeq(q, 1, Len(q)) = q
    OBVIOUS
  <1> QED BY <1>5, <1>6, <1>7 DEF p

LEMMA EmptyFacts ==
    /\ Empty \in Message /\ Empty.n = 0 /\ Empty.kvs = <<>> /\ Len(Empty.kvs) = 0
    /\ Range(Empty.kvs) = {} /\ IsInjective(Empty.kvs)
  BY DEF Empty, Message, Range, IsInjective

LEMMA AddKVOk ==
    ASSUME NEW s \in Sender, NEW k \in Keys, NEW seen, NEW dst, SenderOk(s, seen, dst), k \notin seen
    PROVE  /\ AddKV(s, k) \in Sender
           /\ SenderOk(AddKV(s, k), seen \cup {k}, dst)
           /\ \A x : Delivers(s, x, dst) => Delivers(AddKV(s, k), x, dst)
           /\ Delivers(AddKV(s, k), k, dst)
           /\ AddKV(s, k).scheduled = s.scheduled /\ AddKV(s, k).status = s.status
  <1> DEFINE q == s.buf.kvs
             z == AddKV(s, k)
  <1>1. q \in Seq(Keys) /\ s.buf.n \in Nat /\ k \notin Range(q) /\ k \notin Range(s.in_.kvs)
    BY DEF Sender, Message, SenderOk, Pending
  <1>2. /\ Range(Append(q, k)) = Range(q) \cup {k}
        /\ IsInjective(q) => IsInjective(Append(q, k))
        /\ Append(q, k) \in Seq(Keys) /\ Len(Append(q, k)) = Len(q) + 1
    BY <1>1, RangeFacts
  <1>3. z = [s EXCEPT !.buf = [n |-> s.buf.n + 1, kvs |-> Append(q, k)]]
    BY DEF AddKV
  <1>4. /\ z.buf.n = s.buf.n + 1 /\ z.buf.kvs = Append(q, k)
        /\ z.in_ = s.in_ /\ z.call = s.call /\ z.scheduled = s.scheduled /\ z.status = s.status
    BY <1>3 DEF Sender
  <1>5. z \in Sender
    <2>1. [n |-> s.buf.n + 1, kvs |-> Append(q, k)] \in Message
      BY <1>1, <1>2 DEF Message
    <2> QED BY <1>3, <2>1 DEF Sender
  <1> HIDE DEF z, q
  <1>6. SenderOk(z, seen \cup {k}, dst)
    BY <1>1, <1>2, <1>4 DEF SenderOk, Pending, q
  <1>7. (\A x : Delivers(s, x, dst) => Delivers(z, x, dst)) /\ Delivers(z, k, dst)
    BY <1>2, <1>4 DEF Delivers, Pending, q
  <1> QED BY <1>4, <1>5, <1>6, <1>7 DEF z

LEMMA ScheduleOk ==
    ASSUME NEW s \in Sender, NEW seen, NEW dst, SenderOk(s, seen, dst), ~s.scheduled
    PROVE  /\ Schedule(s) \in Sender
           /\ SenderOk(Schedule(s), seen, dst)
           /\ \A x : Delivers(s, x, dst) => Delivers(Schedule(s), x, dst)
           /\ Schedule(s).buf = Empty
  <1> DEFINE z == Schedule(s)
  <1>1. /\ z.buf = Empty /\ z.in_ = s.buf /\ z.call = "queued" /\ z.scheduled = TRUE
        /\ z.status = s.status /\ z \in Sender
    BY EmptyFacts DEF Schedule, Sender
  <1>2. s.in_ = Empty /\ s.call = "none"
    BY DEF SenderOk
  <1> HIDE DEF z
  <1>3. SenderOk(z, seen, dst)
    BY <1>1, <1>2, EmptyFacts DEF SenderOk, Pending
  <1>4. \A x : Delivers(s, x, dst) => Delivers(z, x, dst)
    BY <1>1, <1>2, EmptyFacts DEF Delivers, Pending
  <1> QED BY <1>1, <1>3, <1>4 DEF z

LEMMA WaitingOk ==
    ASSUME NEW s \in Sender, NEW seen, NEW dst, SenderOk(s, seen, dst), NEW w \in BOOLEAN
    PROVE  LET z == [s EXCEPT !.waiting = w]
           IN  /\ z \in Sender
               /\ SenderOk(z, seen, dst)
               /\ \A x : Delivers(s, x, dst) => Delivers(z, x, dst)
               /\ z.buf = s.buf /\ z.scheduled = s.scheduled /\ z.status = s.status
  <1> DEFINE z == [s EXCEPT !.waiting = w]
  <1>1. /\ z.buf = s.buf /\ z.in_ = s.in_ /\ z.call = s.call /\ z.scheduled = s.scheduled
        /\ z.status = s.status /\ z \in Sender
    BY DEF Sender
  <1> HIDE DEF z
  <1>2. SenderOk(z, seen, dst) /\ \A x : Delivers(s, x, dst) => Delivers(z, x, dst)
    BY <1>1 DEF SenderOk, Delivers, Pending
  <1> QED BY <1>1, <1>2 DEF z

\* The call goes on, with dst growing to new by what it carries when it succeeds.
LEMMA CallOk ==
    ASSUME NEW s \in Sender, NEW seen, NEW dst, NEW new, SenderOk(s, seen, dst), dst \subseteq new,
           s.call # "none", NEW c \in {"sent", "ok", "error"},
           c = "ok" => Range(s.in_.kvs) \subseteq new,
           s.call = "error" => c = "error"
    PROVE  LET z == [s EXCEPT !.call = c]
           IN  /\ z \in Sender
               /\ SenderOk(z, seen, new)
               /\ \A x : Delivers(s, x, dst) => Delivers(z, x, new)
               /\ z.buf = s.buf
  <1> DEFINE z == [s EXCEPT !.call = c]
  <1>1. /\ z.buf = s.buf /\ z.in_ = s.in_ /\ z.call = c /\ z.scheduled = s.scheduled
        /\ z.status = s.status /\ z \in Sender
    BY DEF Sender
  <1> HIDE DEF z
  <1>2. SenderOk(z, seen, new)
    BY <1>1 DEF SenderOk, Pending
  <1>3. \A x : Delivers(s, x, dst) => Delivers(z, x, new)
    BY <1>1 DEF Delivers, Pending
  <1> QED BY <1>1, <1>2, <1>3 DEF z

LEMMA SentOk ==
    ASSUME NEW s \in Sender, NEW seen, NEW dst, SenderOk(s, seen, dst), s.call \in {"ok", "error"}
    PROVE  /\ Sent(s) \in Sender
           /\ SenderOk(Sent(s), seen, dst)
           /\ \A x : Delivers(s, x, dst) => Delivers(Sent(s), x, dst)
           /\ Sent(s).buf = s.buf
  <1> DEFINE z == Sent(s)
             e == IF s.status = Ok /\ s.call = "error" THEN "error" ELSE s.status
  <1>0. e \in {Ok, "error"} /\ (e = Ok => s.call = "ok" /\ s.status = Ok)
    BY DEF Sender, Ok
  <1>1. z = [s EXCEPT !.scheduled = FALSE, !.call = "none", !.in_ = Empty, !.waiting = FALSE,
                      !.status = e]
    BY DEF Sent
  <1> HIDE DEF z, e
  <1>2. /\ z.buf = s.buf /\ z.in_ = Empty /\ z.call = "none" /\ z.scheduled = FALSE
        /\ z.status = e /\ z \in Sender
    BY <1>0, <1>1, EmptyFacts DEF Sender
  <1>3. SenderOk(z, seen, dst)
    BY <1>2, EmptyFacts DEF SenderOk, Pending
  <1>4. \A x : Delivers(s, x, dst) => Delivers(z, x, dst)
    BY <1>0, <1>2 DEF Delivers, Pending, SenderOk
  <1> QED BY <1>2, <1>3, <1>4 DEF z
-----------------------------------------------------------------------------
(***************************************************************************)
(* Steps that change one sender.                                           *)
(***************************************************************************)
LEMMA SeenType == ASSUME Control, NEW r \in Rank PROVE Seen(r) \subseteq Keys
  <1>1. pos[r] \in 1 .. Len(Source[r]) + 1 /\ Source[r] \in Seq(DOMAIN Route)
    BY SourceType DEF Control, RankOk
  <1>2. \A n \in 1 .. pos[r] - 1 : n \in DOMAIN Source[r]
    BY <1>1
  <1> QED BY <1>2 DEF Seen, Keys, Range

LEMMA KeysRouted == \A k \in Keys : k \in DOMAIN Route /\ Route[k] \in Rank
  BY CompactorAssumption, SourceType DEF Keys, Range

LEMMA GrowingDb ==
    ASSUME NEW s, NEW seen, NEW dst, NEW new, dst \subseteq new
    PROVE  /\ SenderOk(s, seen, dst) => SenderOk(s, seen, new)
           /\ \A x : Delivers(s, x, dst) => Delivers(s, x, new)
  BY DEF SenderOk, Delivers

LEMMA SndUpdate ==
    ASSUME snd \in [Rank -> [Rank -> Sender]], NEW r \in Rank, NEW i \in Rank, NEW z \in Sender,
           snd' = [snd EXCEPT ![r][i] = z]
    PROVE  /\ snd' \in [Rank -> [Rank -> Sender]]
           /\ snd'[r][i] = z
           /\ \A u, j \in Rank : u # r \/ j # i => snd'[u][j] = snd[u][j]
  OBVIOUS

LEMMA OneSender ==
    ASSUME CompactorInv, NEW r \in Rank, NEW i \in Rank, NEW z \in Sender,
           snd' = [snd EXCEPT ![r][i] = z], UNCHANGED pos,
           \A j \in Rank : db[j] \subseteq db'[j],
           SenderOk(z, Seen(r), db'[i]),
           \A x : Delivers(snd[r][i], x, db[i]) => Delivers(z, x, db'[i])
    PROVE  SendersOk' /\ Delivered'
  <1>1. /\ snd'[r][i] = z
        /\ \A u, j \in Rank : u # r \/ j # i => snd'[u][j] = snd[u][j]
    BY SndUpdate DEF CompactorInv, TypeOK
  <1>2. \A u : Seen(u)' = Seen(u)
    BY DEF Seen
  <1>3. SendersOk'
    <2> SUFFICES ASSUME NEW u \in Rank, NEW j \in Rank
                 PROVE  SenderOk(snd'[u][j], Seen(u), db'[j])
      BY <1>2 DEF SendersOk
    <2>1. CASE u = r /\ j = i
      BY <2>1, <1>1
    <2>2. CASE u # r \/ j # i
      BY <2>2, <1>1, GrowingDb DEF CompactorInv, SendersOk
    <2> QED BY <2>1, <2>2
  <1>4. Delivered'
    <2> SUFFICES ASSUME NEW u \in Rank, NEW k \in Seen(u)
                 PROVE  Delivers(snd'[u][Route[k]], k, db'[Route[k]])
      BY <1>2 DEF Delivered, Delivers, Pending
    <2>1. Route[k] \in Rank
      BY SeenType, KeysRouted DEF CompactorInv
    <2>2. Delivers(snd[u][Route[k]], k, db[Route[k]])
      BY DEF CompactorInv, Delivered
    <2>3. CASE u = r /\ Route[k] = i
      BY <2>2, <2>3, <1>1
    <2>4. CASE u # r \/ Route[k] # i
      BY <2>1, <2>2, <2>4, <1>1, GrowingDb
    <2> QED BY <2>3, <2>4
  <1> QED BY <1>3, <1>4

\* A step of a call, at a pool thread or the receiver.
LEMMA CallStep ==
    ASSUME CompactorInv, UNCHANGED <<flags, iter>>, NEW r \in Rank, NEW i \in Rank, NEW z \in Sender,
           snd' = [snd EXCEPT ![r][i] = z],
           UNCHANGED <<pc, pos, next, entered, open, flushed, aborted>>,
           db' \in [Rank -> SUBSET Keys], \A j \in Rank : db[j] \subseteq db'[j],
           SenderOk(z, Seen(r), db'[i]),
           \A x : Delivers(snd[r][i], x, db[i]) => Delivers(z, x, db'[i]),
           z.buf = snd[r][i].buf, snd[r][i].scheduled
    PROVE  CompactorInv'
  <1>1. /\ snd' \in [Rank -> [Rank -> Sender]]
        /\ snd'[r][i] = z
        /\ \A u, j \in Rank : u # r \/ j # i => snd'[u][j] = snd[u][j]
    BY SndUpdate DEF CompactorInv, TypeOK
  <1>2. TypeOK'
    BY <1>1 DEF CompactorInv, TypeOK
  <1>3. SendersOk' /\ Delivered'
    BY OneSender
  <1>4. Control' /\ Landed'
    BY DEF CompactorInv, Control, Landed, Seen
  <1>5. \A u, j \in Rank : snd'[u][j].buf = snd[u][j].buf
    BY <1>1
  <1>6. Flushed'
    BY <1>5 DEF CompactorInv, Flushed, HasFlushed, Ended
  <1>7. Waited'
    <2> SUFFICES ASSUME NEW u \in Rank, NEW j \in Rank, HasWaited(u, j)
                 PROVE  ~snd'[u][j].scheduled /\ snd'[u][j].status = Ok
      BY DEF Waited, HasWaited
    <2>1. ~snd[u][j].scheduled /\ snd[u][j].status = Ok
      BY DEF CompactorInv, Waited
    <2>2. u # r \/ j # i
      BY <2>1
    <2> QED BY <2>1, <2>2, <1>1
  <1> QED BY <1>2, <1>3, <1>4, <1>6, <1>7 DEF CompactorInv

LEMMA SendItStep ==
    ASSUME CompactorInv, UNCHANGED <<flags, iter>>, NEW r \in Rank, NEW i \in Rank, SendIt(r, i)
    PROVE  CompactorInv'
  <1> DEFINE s == snd[r][i]
             z == [s EXCEPT !.call = "sent"]
  <1>1. s \in Sender /\ SenderOk(s, Seen(r), db[i]) /\ db \in [Rank -> SUBSET Keys]
    BY DEF CompactorInv, TypeOK, SendersOk
  <1>2. /\ s.call = "queued" /\ snd' = [snd EXCEPT ![r][i] = z]
        /\ UNCHANGED <<pc, pos, next, entered, open, db, flushed, aborted>>
    BY DEF SendIt
  <1>3. /\ z \in Sender /\ SenderOk(z, Seen(r), db[i])
        /\ \A x : Delivers(s, x, db[i]) => Delivers(z, x, db[i])
        /\ z.buf = s.buf
    BY <1>1, <1>2, CallOk
  <1>4. s.scheduled
    BY <1>1, <1>2 DEF SenderOk
  <1> HIDE DEF z
  <1> QED BY <1>1, <1>2, <1>3, <1>4, CallStep

LEMMA CallAtStep ==
    ASSUME CompactorInv, UNCHANGED <<flags, iter>>, NEW r \in Rank, NEW i \in Rank, Call(r, i)
    PROVE  CompactorInv'
  <1> DEFINE s == snd[r][i]
             m == s.in_
  <1>1. s \in Sender /\ SenderOk(s, Seen(r), db[i]) /\ db \in [Rank -> SUBSET Keys]
    BY DEF CompactorInv, TypeOK, SendersOk
  <1>2. s.call = "sent" /\ UNCHANGED <<pc, pos, next, entered, open, flushed, aborted>>
    BY DEF Call
  <1>3. PICK written \in BOOLEAN :
           /\ db' = [db EXCEPT ![i] = IF written THEN db[i] \cup Range(SubSeq(m.kvs, 1, m.n))
                                      ELSE db[i]]
           /\ snd' = [snd EXCEPT ![r][i].call = IF written THEN "ok" ELSE "error"]
    BY DEF Call
  <1> DEFINE c == IF written THEN "ok" ELSE "error"
             z == [s EXCEPT !.call = c]
             new == IF written THEN db[i] \cup Range(m.kvs) ELSE db[i]
  <1>4. m.kvs \in Seq(Keys) /\ m.n = Len(m.kvs) /\ Range(m.kvs) \subseteq Keys
    BY <1>1 DEF Sender, Message, SenderOk, Range
  <1>5. Range(SubSeq(m.kvs, 1, m.n)) = Range(m.kvs)
    <2>1. SubSeq(m.kvs, 1, m.n) = m.kvs
      BY <1>4
    <2> QED BY <2>1
  <1>6. db' = [db EXCEPT ![i] = new] /\ snd' = [snd EXCEPT ![r][i] = z]
    BY <1>3, <1>5
  <1>7. /\ c \in {"sent", "ok", "error"} /\ db[i] \subseteq new /\ new \subseteq Keys
        /\ c = "ok" => Range(m.kvs) \subseteq new
    BY <1>1, <1>4
  <1> HIDE DEF c, new
  <1>8. /\ z \in Sender /\ SenderOk(z, Seen(r), new)
        /\ \A x : Delivers(s, x, db[i]) => Delivers(z, x, new)
        /\ z.buf = s.buf
    BY <1>1, <1>2, <1>7, CallOk
  <1>9. /\ s.scheduled /\ db' \in [Rank -> SUBSET Keys] /\ db'[i] = new
        /\ \A j \in Rank : db[j] \subseteq db'[j]
    BY <1>1, <1>2, <1>6, <1>7 DEF SenderOk
  <1> HIDE DEF z
  <1> QED BY <1>2, <1>6, <1>8, <1>9, CallStep

LEMMA TimeoutStep ==
    ASSUME CompactorInv, UNCHANGED <<flags, iter>>, NEW r \in Rank, NEW i \in Rank, Timeout(r, i)
    PROVE  CompactorInv'
  <1> DEFINE s == snd[r][i]
             z == [s EXCEPT !.call = "error"]
  <1>1. s \in Sender /\ SenderOk(s, Seen(r), db[i]) /\ db \in [Rank -> SUBSET Keys]
    BY DEF CompactorInv, TypeOK, SendersOk
  <1>2. /\ s.call \in {"sent", "ok"} /\ snd' = [snd EXCEPT ![r][i] = z]
        /\ UNCHANGED <<pc, pos, next, entered, open, db, flushed, aborted>>
    BY DEF Timeout
  <1>3. /\ z \in Sender /\ SenderOk(z, Seen(r), db[i])
        /\ \A x : Delivers(s, x, db[i]) => Delivers(z, x, db[i])
        /\ z.buf = s.buf
    BY <1>1, <1>2, CallOk
  <1>4. s.scheduled
    BY <1>1, <1>2 DEF SenderOk
  <1> HIDE DEF z
  <1> QED BY <1>1, <1>2, <1>3, <1>4, CallStep

LEMMA RepliedStep ==
    ASSUME CompactorInv, UNCHANGED <<flags, iter>>, NEW r \in Rank, NEW i \in Rank, Replied(r, i)
    PROVE  CompactorInv'
  <1> DEFINE s == snd[r][i]
             z == Sent(s)
  <1>1. s \in Sender /\ SenderOk(s, Seen(r), db[i]) /\ db \in [Rank -> SUBSET Keys]
    BY DEF CompactorInv, TypeOK, SendersOk
  <1>2. /\ s.call \in {"ok", "error"} /\ snd' = [snd EXCEPT ![r][i] = z]
        /\ UNCHANGED <<pc, pos, next, entered, open, db, flushed, aborted>>
    BY DEF Replied
  <1>3. /\ z \in Sender /\ SenderOk(z, Seen(r), db[i])
        /\ \A x : Delivers(s, x, db[i]) => Delivers(z, x, db[i])
        /\ z.buf = s.buf
    BY <1>1, <1>2, SentOk
  <1>4. s.scheduled
    BY <1>1, <1>2 DEF SenderOk
  <1> HIDE DEF z
  <1> QED BY <1>1, <1>2, <1>3, <1>4, CallStep
-----------------------------------------------------------------------------
(***************************************************************************)
(* The main thread.                                                        *)
(***************************************************************************)
LEMMA InitCompactor == Init => CompactorInv
  <1> SUFFICES ASSUME Init PROVE CompactorInv
    OBVIOUS
  <1> DEFINE s == [buf |-> Empty, in_ |-> Empty, call |-> "none",
                   scheduled |-> FALSE, waiting |-> FALSE, status |-> Ok]
  <1>1. s \in Sender /\ s.buf = Empty /\ s.in_ = Empty /\ s.call = "none" /\ s.scheduled = FALSE
    BY EmptyFacts DEF Sender
  <1> HIDE DEF s
  <1>2. snd = [r \in Rank |-> [i \in Rank |-> s]]
    BY DEF Init, s
  <1>3. TypeOK
    <2>1. snd \in [Rank -> [Rank -> Sender]]
      BY <1>1, <1>2
    <2>2. next \in [Rank -> [sender : 0 .. comm_size, then : {"map", "flush"}]]
      BY RankInt DEF Init
    <2>3. /\ open \in [Rank -> SUBSET {"srcdb", "dstdb", "port"}]
          /\ db \in [Rank -> SUBSET Keys] /\ flushed \in [Rank -> SUBSET Keys]
      BY DEF Init
    <2>4. /\ pc \in [Rank -> Label] /\ pos \in [Rank -> Nat] /\ entered \in [Rank -> 0 .. 4]
      <3>1. "opendbs" \in Label
        BY DEF Label
      <3> QED BY <3>1 DEF Init
    <2>5. flags \in Flags /\ aborted \in BOOLEAN /\ iter \in [Rank -> {Ok, "error"}]
      BY DEF Init
    <2> QED BY <2>1, <2>2, <2>3, <2>4, <2>5 DEF TypeOK, Label
  <1>4. \A r \in Rank : Seen(r) = {}
    BY DEF Init, Seen
  <1>5. SendersOk
    BY <1>1, <1>2, EmptyFacts DEF SendersOk, SenderOk, Pending
  <1>6. Delivered
    BY <1>4 DEF Delivered
  <1>7. Control
    <2> SUFFICES ASSUME NEW r \in Rank PROVE RankOk(r, pc[r], pos[r], next[r], entered[r], iter[r])
      BY DEF Control
    <2>1. Len(Source[r]) \in Nat
      BY SourceType
    <2> QED BY <2>1 DEF Init, RankOk, Barriers, Ended
  <1>8. Flushed /\ Waited /\ Landed
    BY DEF Init, Flushed, HasFlushed, Waited, HasWaited, Ended, Landed
  <1> QED BY <1>3, <1>5, <1>6, <1>7, <1>8 DEF CompactorInv

\* A step that leaves the senders and the dbs alone.
LEMMA QuietStep ==
    ASSUME CompactorInv, UNCHANGED <<snd, pos, db>>
    PROVE  SendersOk' /\ Delivered'
  <1>1. \A r : Seen(r)' = Seen(r)
    BY DEF Seen
  <1> QED BY <1>1 DEF CompactorInv, SendersOk, Delivered

LEMMA AbortStep ==
    ASSUME CompactorInv, UNCHANGED <<flags, iter>>, MPI_Abort
    PROVE  CompactorInv'
  <1>1. SendersOk' /\ Delivered'
    BY QuietStep DEF MPI_Abort
  <1> QED BY <1>1 DEF MPI_Abort, CompactorInv, TypeOK, Control, Barriers, Ended, Flushed, HasFlushed,
                      Waited, HasWaited, Landed, Seen

LEMMA RankFacts ==
    ASSUME CompactorInv, NEW r \in Rank
    PROVE  /\ pc \in [Rank -> Label] /\ pos \in [Rank -> Nat] /\ next \in [Rank -> Cursor]
           /\ entered \in [Rank -> 0 .. 4]
           /\ pc[r] \in Label /\ pos[r] \in Nat /\ next[r] \in Cursor
           /\ next[r].sender \in 0 .. comm_size /\ next[r].then \in {"map", "flush"}
           /\ RankOk(r, pc[r], pos[r], next[r], entered[r], iter[r])
           /\ Source[r] \in Seq(DOMAIN Route) /\ Len(Source[r]) \in Nat
           /\ DOMAIN Source[r] = 1 .. Len(Source[r])
  <1>1. /\ pc \in [Rank -> Label] /\ pos \in [Rank -> Nat] /\ next \in [Rank -> Cursor]
        /\ entered \in [Rank -> 0 .. 4]
    BY DEF CompactorInv, TypeOK, Label, Cursor
  <1>2. RankOk(r, pc[r], pos[r], next[r], entered[r], iter[r])
    BY DEF CompactorInv, Control
  <1>3. next[r].sender \in 0 .. comm_size /\ next[r].then \in {"map", "flush"}
    BY <1>1 DEF Cursor
  <1> QED BY <1>1, <1>2, <1>3, SourceType

LEMMA IterSame ==
    ASSUME CompactorInv, UNCHANGED iter
    PROVE  iter' \in [Rank -> {Ok, "error"}] /\ \A u \in Rank : iter'[u] = iter[u]
  BY DEF CompactorInv, TypeOK

\* The main thread of r goes to a label.
LEMMA MainStep ==
    ASSUME CompactorInv, NEW r \in Rank, NEW to \in Label, NEW p \in Nat, NEW m \in Cursor, NEW e,
           \A u \in Rank \ {r} : iter'[u] = iter[u],
           pc' = [pc EXCEPT ![r] = to], pos' = [pos EXCEPT ![r] = p],
           next' = [next EXCEPT ![r] = m], entered' = [entered EXCEPT ![r] = e],
           RankOk(r, to, p, m, e, iter'[r])
    PROVE  /\ pc' \in [Rank -> Label] /\ pos' \in [Rank -> Nat] /\ next' \in [Rank -> Cursor]
           /\ entered' \in [Rank -> 0 .. 4]
           /\ pc'[r] = to /\ next'[r] = m
           /\ \A u \in Rank \ {r} : pc'[u] = pc[u] /\ next'[u] = next[u]
           /\ Control'
  <1>1. /\ pc \in [Rank -> Label] /\ pos \in [Rank -> Nat] /\ next \in [Rank -> Cursor]
        /\ entered \in [Rank -> 0 .. 4]
    BY RankFacts
  <1>2. e \in 0 .. 4
    BY DEF RankOk, Barriers
  <1>3. /\ pc' \in [Rank -> Label] /\ pos' \in [Rank -> Nat] /\ next' \in [Rank -> Cursor]
        /\ entered' \in [Rank -> 0 .. 4]
    BY <1>1, <1>2
  <1>4. /\ pc'[r] = to /\ next'[r] = m /\ pos'[r] = p /\ entered'[r] = e
        /\ \A u \in Rank \ {r} : /\ pc'[u] = pc[u] /\ next'[u] = next[u]
                                 /\ pos'[u] = pos[u] /\ entered'[u] = entered[u]
    BY <1>1
  <1>5. Control'
    <2> SUFFICES ASSUME NEW u \in Rank PROVE RankOk(u, pc'[u], pos'[u], next'[u], entered'[u], iter'[u])
      BY DEF Control
    <2> QED BY <1>4, RankFacts
  <1> QED BY <1>3, <1>4, <1>5

\* Before the map loop.
LEMMA StartStep ==
    ASSUME CompactorInv, UNCHANGED <<flags, iter>>, NEW r \in Rank,
           OpenDbs(r) \/ OpenPort(r) \/ OpenSenders(r) \/ Start(r)
    PROVE  CompactorInv'
  <1>0. CASE MPI_Abort
    BY <1>0, AbortStep
  <1>1. CASE ~MPI_Abort
    <2>0. /\ entered[r] = Barriers(pc[r]) /\ entered \in [Rank -> 0 .. 4]
          /\ open \in [Rank -> SUBSET {"srcdb", "dstdb", "port"}]
      BY RankFacts DEF RankOk, CompactorInv, TypeOK
    <2>1. PICK to \in {"openport", "opensenders", "start", "map", "finalize"} :
             /\ pc' = [pc EXCEPT ![r] = to]
             /\ entered' = [entered EXCEPT ![r] = Barriers(to)]
      <3>1. CASE OpenDbs(r)
        BY <1>1, <2>0, <3>1 DEF OpenDbs, Goto, Barriers
      <3>2. CASE OpenPort(r)
        BY <2>0, <3>2 DEF OpenPort, Goto, Enter, Barriers
      <3>3. CASE OpenSenders(r)
        <4>1. Barriers("opensenders") = 1 /\ Barriers("start") = 2
          BY DEF Barriers
        <4>2. entered[r] + 1 = Barriers("start")
          BY <2>0, <3>3, <4>1 DEF OpenSenders
        <4> QED BY <3>3, <4>2 DEF OpenSenders, Goto, Enter
      <3>4. CASE Start(r)
        BY <2>0, <3>4 DEF Start, Goto, Barriers
      <3> QED BY <3>1, <3>2, <3>3, <3>4
    <2>2. /\ pc[r] \in {"opendbs", "openport", "opensenders", "start"}
          /\ open' \in [Rank -> SUBSET {"srcdb", "dstdb", "port"}]
          /\ UNCHANGED <<pos, next, snd, db, flushed, aborted>>
      <3>1. CASE OpenDbs(r)
        BY <1>1, <2>0, <3>1 DEF OpenDbs
      <3>2. CASE OpenPort(r)
        <4>1. open' = open \/ open' = [open EXCEPT ![r] = open[r] \cup {"port"}]
          BY <3>2 DEF OpenPort
        <4>2. open' \in [Rank -> SUBSET {"srcdb", "dstdb", "port"}]
          BY <4>1, <2>0
        <4> QED BY <3>2, <4>2 DEF OpenPort
      <3>3. CASE OpenSenders(r) \/ Start(r)
        BY <2>0, <3>3 DEF OpenSenders, Start
      <3> QED BY <3>1, <3>2, <3>3
    <2>3. SendersOk' /\ Delivered'
      BY <2>2, QuietStep
    <2>4. to \in Label /\ RankOk(r, to, pos[r], next[r], Barriers(to), iter[r])
      BY <2>2, RankFacts DEF RankOk, Label, Ended
    <2>5. /\ pos' = [pos EXCEPT ![r] = pos[r]] /\ next' = [next EXCEPT ![r] = next[r]]
          /\ pos[r] \in Nat /\ next[r] \in Cursor /\ next[r].then = "map"
      BY <2>2, RankFacts DEF RankOk
    <2>6. /\ pc' \in [Rank -> Label] /\ pos' \in [Rank -> Nat] /\ next' \in [Rank -> Cursor]
          /\ entered' \in [Rank -> 0 .. 4]
          /\ pc'[r] = to /\ \A u \in Rank \ {r} : pc'[u] = pc[u]
          /\ Control'
      BY <2>1, <2>4, <2>5, IterSame, MainStep
    <2>7. TypeOK'
      BY <2>2, <2>6 DEF CompactorInv, TypeOK, Label, Cursor
    <2>8. Flushed'
      BY <2>2, <2>5, <2>6 DEF CompactorInv, Flushed, HasFlushed, Ended
    <2>9. Waited' /\ Landed'
      BY <2>2, <2>6 DEF CompactorInv, Waited, HasWaited, Ended, Landed
    <2> QED BY <2>3, <2>6, <2>7, <2>8, <2>9 DEF CompactorInv
  <1> QED BY <1>0, <1>1

LEMMA SendStep ==
    ASSUME CompactorInv, UNCHANGED <<flags, iter>>, NEW r \in Rank, Send(r)
    PROVE  CompactorInv'
  <1> DEFINE k == Source[r][pos[r]]
             i == Route[k]
             s == snd[r][i]
             z == AddKV(s, k)
             m == [next[r] EXCEPT !.sender = i]
             p == pos[r] + 1
  <1>1. /\ pc[r] = "map" /\ pos[r] <= Len(Source[r])
        /\ snd' = [snd EXCEPT ![r][i] = z]
        /\ next' = [next EXCEPT ![r] = m]
        /\ pos' = [pos EXCEPT ![r] = p]
        /\ pc' = [pc EXCEPT ![r] = "send"]
        /\ UNCHANGED <<entered, open, db, flushed, aborted>>
    BY DEF Send, Goto, SelectServer
  <1>2. /\ pos[r] \in 1 .. Len(Source[r]) /\ pos \in [Rank -> Nat] /\ p \in Nat
        /\ DOMAIN Source[r] = 1 .. Len(Source[r]) /\ Len(Source[r]) \in Nat
        /\ IsInjective(Source[r])
    BY <1>1, RankFacts, SourceType DEF RankOk
  <1>3. k \in Keys /\ i \in Rank
    <2>1. k \in Range(Source[r])
      BY <1>2 DEF Range
    <2>2. k \in Keys
      BY <2>1 DEF Keys
    <2> QED BY <2>2, KeysRouted
  <1>4. k \notin Seen(r)
    <2>1. ASSUME NEW n \in 1 .. pos[r] - 1 PROVE Source[r][n] # k
      <3>1. n \in DOMAIN Source[r] /\ pos[r] \in DOMAIN Source[r] /\ n # pos[r]
        BY <1>2
      <3> QED BY <1>2, <3>1 DEF IsInjective
    <2> QED BY <2>1 DEF Seen
  <1>5. s \in Sender /\ SenderOk(s, Seen(r), db[i])
    BY <1>3 DEF CompactorInv, TypeOK, SendersOk
  <1>6. next[r].then = "map" /\ m.then = "map" /\ m.sender = i /\ m \in Cursor
    <2>1. i \in 0 .. comm_size
      BY <1>3, RankInt
    <2>2. next[r] \in Cursor /\ next[r].then = "map"
      BY <1>1, RankFacts DEF RankOk
    <2> QED BY <2>1, <2>2 DEF Cursor
  <1> HIDE DEF i, k, z, m
  <1>7. /\ z \in Sender /\ SenderOk(z, Seen(r) \cup {k}, db[i])
        /\ \A x : Delivers(s, x, db[i]) => Delivers(z, x, db[i])
        /\ Delivers(z, k, db[i])
    BY <1>3, <1>4, <1>5, AddKVOk DEF z
  <1>8. /\ snd' \in [Rank -> [Rank -> Sender]]
        /\ snd'[r][i] = z
        /\ \A u, j \in Rank : u # r \/ j # i => snd'[u][j] = snd[u][j]
    BY <1>1, <1>3, <1>7, SndUpdate DEF CompactorInv, TypeOK
  <1>9. Seen(r)' = Seen(r) \cup {k}
    <2>1. pos'[r] = pos[r] + 1
      BY <1>1, <1>2
    <2>2. 1 .. pos'[r] - 1 = (1 .. pos[r] - 1) \cup {pos[r]}
      BY <2>1, <1>2
    <2> QED BY <2>2 DEF Seen, k
  <1>10. \A u \in Rank \ {r} : Seen(u)' = Seen(u)
    BY <1>1, <1>2 DEF Seen
  <1>11. SendersOk'
    <2> SUFFICES ASSUME NEW u \in Rank, NEW j \in Rank
                 PROVE  SenderOk(snd'[u][j], Seen(u)', db[j])
      BY <1>1 DEF SendersOk
    <2>1. SenderOk(snd[u][j], Seen(u), db[j])
      BY DEF CompactorInv, SendersOk
    <2>2. CASE u = r /\ j = i
      BY <2>2, <1>7, <1>8, <1>9
    <2>3. CASE u = r /\ j # i
      BY <2>1, <2>3, <1>8, <1>9 DEF SenderOk
    <2>4. CASE u # r
      BY <2>1, <2>4, <1>8, <1>10
    <2> QED BY <2>2, <2>3, <2>4
  <1>12. Delivered'
    <2> SUFFICES ASSUME NEW u \in Rank, NEW x \in Seen(u)'
                 PROVE  Delivers(snd'[u][Route[x]], x, db[Route[x]])
      BY <1>1 DEF Delivered
    <2>1. CASE u = r /\ x = k
      BY <2>1, <1>7, <1>8 DEF i
    <2>2. CASE x \in Seen(u)
      <3>1. Route[x] \in Rank /\ Delivers(snd[u][Route[x]], x, db[Route[x]])
        BY <2>2, SeenType, KeysRouted DEF CompactorInv, Delivered
      <3>2. CASE u = r /\ Route[x] = i
        BY <3>1, <3>2, <1>7, <1>8
      <3>3. CASE u # r \/ Route[x] # i
        BY <3>1, <3>3, <1>8
      <3> QED BY <3>2, <3>3
    <2> QED BY <2>1, <2>2, <1>9, <1>10
  <1>13. /\ pc' \in [Rank -> Label] /\ pos' \in [Rank -> Nat] /\ next' \in [Rank -> Cursor]
         /\ entered' \in [Rank -> 0 .. 4]
         /\ pc'[r] = "send" /\ next'[r] = m
         /\ \A u \in Rank \ {r} : pc'[u] = pc[u] /\ next'[u] = next[u]
         /\ Control'
    <2>1. "send" \in Label /\ entered[r] = Barriers("send") /\ entered \in [Rank -> 0 .. 4]
      BY <1>1, RankFacts DEF RankOk, Label, Barriers
    <2>2. RankOk(r, "send", p, m, entered[r], iter[r])
      BY <1>2, <1>3, <1>6, <2>1 DEF RankOk, Ended
    <2>3. entered' = [entered EXCEPT ![r] = entered[r]]
      BY <1>1, <2>1
    <2> HIDE DEF p
    <2> QED BY <1>1, <1>2, <1>6, <2>1, <2>2, <2>3, IterSame, MainStep
  <1>14. TypeOK'
    BY <1>1, <1>8, <1>13 DEF CompactorInv, TypeOK, Label, Cursor
  <1>15. Flushed' /\ Waited' /\ Landed'
    <2>1. \A u \in Rank \ {r} : \A j \in Rank : snd'[u][j] = snd[u][j]
      BY <1>8
    <2> QED BY <1>1, <1>6, <1>13, <2>1 DEF CompactorInv, Flushed, HasFlushed, Waited, HasWaited, Ended, Landed
  <1> QED BY <1>11, <1>12, <1>13, <1>14, <1>15 DEF CompactorInv

LEMMA LandedStays ==
    ASSUME CompactorInv, UNCHANGED <<pos, flushed>>, NEW r \in Rank,
           \A u \in Rank \ {r} : pc'[u] = pc[u],
           pc'[r] \in {"report", "done"} => pc[r] \in {"report", "done"},
           pc[r] \in Ended => pc'[r] \in Ended
    PROVE  Landed'
  <1>1. \A u : Seen(u)' = Seen(u)
    BY DEF Seen
  <1>2. \A u \in Rank : pc[u] \in Ended => pc'[u] \in Ended
    OBVIOUS
  <1> QED BY <1>1, <1>2 DEF CompactorInv, Landed

LEMMA SendLoopStep ==
    ASSUME CompactorInv, UNCHANGED <<flags, iter>>, NEW r \in Rank, SendLoop(r)
    PROVE  CompactorInv'
  <1> DEFINE i == next[r].sender
             s == snd[r][i]
             flushing == next[r].then = "flush"
             sending == next[r].then = "map"
             schedule == IF sending THEN SendMustSchedule(s) ELSE FlushMustSchedule(s)
             wait == IF sending THEN SendMustWait(s) ELSE FlushMustWait(s)
             m == [next[r] EXCEPT !.sender = IF sending THEN i ELSE i + 1]
  <1>0. CASE MPI_Abort
    BY <1>0, AbortStep
  <1>1. CASE ~MPI_Abort
    <2>1. /\ pc[r] = "send"
          /\ snd' = IF schedule THEN [snd EXCEPT ![r][i] = Schedule(s)]
                    ELSE IF wait THEN [snd EXCEPT ![r][i].waiting = TRUE] ELSE snd
          /\ IF schedule /\ Inline THEN Goto(r, "inline") /\ UNCHANGED next
             ELSE IF ~schedule /\ wait THEN UNCHANGED <<pc, next>>
             ELSE LoopDone(r)
          /\ UNCHANGED <<pos, entered, open, db, flushed, aborted>>
      BY <1>1 DEF SendLoop
    <2>2. /\ i \in Rank /\ RankOk(r, "send", pos[r], next[r], entered[r], iter[r])
          /\ next[r] \in Cursor /\ next[r].then \in {"map", "flush"}
      BY <2>1, RankFacts DEF RankOk
    <2>3. s \in Sender /\ SenderOk(s, Seen(r), db[i])
      BY <2>2 DEF CompactorInv, TypeOK, SendersOk
    <2>4. m \in Cursor /\ m.then = next[r].then /\ m.sender = IF sending THEN i ELSE i + 1
      BY <2>2, RankInt DEF Cursor
    <2>5. PICK z \in Sender :
             /\ snd' = [snd EXCEPT ![r][i] = z]
             /\ SenderOk(z, Seen(r), db[i])
             /\ \A x : Delivers(s, x, db[i]) => Delivers(z, x, db[i])
             /\ z.buf = Empty \/ (z.buf = s.buf /\ ~schedule)
      <3>1. CASE schedule
        <4>1. ~s.scheduled
          BY <3>1 DEF SendMustSchedule, FlushMustSchedule
        <4>2. snd' = [snd EXCEPT ![r][i] = Schedule(s)]
          BY <2>1, <3>1
        <4> QED BY <2>3, <4>1, <4>2, ScheduleOk
      <3>2. CASE ~schedule /\ wait
        <4> DEFINE z == [s EXCEPT !.waiting = TRUE]
        <4>1. snd' = [snd EXCEPT ![r][i] = z]
          BY <2>1, <3>2
        <4>2. /\ z \in Sender /\ SenderOk(z, Seen(r), db[i]) /\ z.buf = s.buf
              /\ \A x : Delivers(s, x, db[i]) => Delivers(z, x, db[i])
          BY <2>3, WaitingOk
        <4> QED BY <3>2, <4>1, <4>2
      <3>3. CASE ~schedule /\ ~wait
        <4>1. snd' = [snd EXCEPT ![r][i] = s]
          BY <2>1, <2>2, <3>3 DEF CompactorInv, TypeOK
        <4> QED BY <2>3, <3>3, <4>1
      <3> QED BY <3>1, <3>2, <3>3
    <2> DEFINE to == IF schedule /\ Inline THEN "inline"
                     ELSE IF ~schedule /\ wait THEN "send" ELSE next[r].then
               c == IF (schedule /\ Inline) \/ (~schedule /\ wait) THEN next[r] ELSE m
    <2>6. pc' = [pc EXCEPT ![r] = to] /\ next' = [next EXCEPT ![r] = c]
      <3>0. pc \in [Rank -> Label] /\ next \in [Rank -> Cursor]
        BY RankFacts
      <3>1. CASE schedule /\ Inline
        BY <2>1, <3>0, <3>1 DEF Goto
      <3>2. CASE ~(schedule /\ Inline) /\ ~schedule /\ wait
        BY <2>1, <3>0, <3>2
      <3>3. CASE ~(schedule /\ Inline) /\ ~(~schedule /\ wait)
        BY <2>1, <3>0, <3>3 DEF LoopDone, Goto
      <3> QED BY <3>1, <3>2, <3>3
    <2>7. /\ snd' \in [Rank -> [Rank -> Sender]]
          /\ snd'[r][i] = z
          /\ \A u, j \in Rank : u # r \/ j # i => snd'[u][j] = snd[u][j]
      BY <2>2, <2>5, SndUpdate DEF CompactorInv, TypeOK
    <2>8. SendersOk' /\ Delivered'
      BY <2>1, <2>2, <2>5, OneSender
    \* Where the loop ends for a flush, the buffer is empty.
    <2>9. flushing /\ (to = "inline" \/ c = m) => z.buf.n = 0
      <3> SUFFICES ASSUME flushing, to = "inline" \/ c = m PROVE z.buf.n = 0
        OBVIOUS
      <3>1. ~sending /\ m.sender = i + 1 /\ i \in Nat
        BY <2>2, <2>4, RankInt
      <3>2. m # next[r]
        <4> HIDE DEF m
        <4> QED BY <3>1
      <3>3. CASE schedule
        BY <2>5, <3>3, EmptyFacts
      <3>4. CASE ~schedule /\ ~wait
        <4>1. s.buf.n = 0
          BY <2>3, <3>1, <3>4 DEF FlushMustSchedule, FlushMustWait
        <4> QED BY <2>5, <4>1, EmptyFacts
      <3>5. CASE ~schedule /\ wait
        BY <3>2, <3>5
      <3> QED BY <3>3, <3>4, <3>5
    <2>10. /\ to \in {"inline", "send", next[r].then} /\ c \in Cursor /\ c.then = next[r].then
           /\ to \in {"inline", "send"} => c.sender = i
           /\ c = m \/ c = next[r]
           /\ to = "flush" => c = m /\ flushing
      BY <2>2, <2>4
    <2>11. flushing => c.sender = i \/ (c = m /\ c.sender = i + 1)
      BY <2>4, <2>10
    <2> HIDE DEF to, c, m, schedule, wait
    <2>12. /\ pc' \in [Rank -> Label] /\ pos' \in [Rank -> Nat] /\ next' \in [Rank -> Cursor]
           /\ entered' \in [Rank -> 0 .. 4]
           /\ pc'[r] = to /\ next'[r] = c
           /\ \A u \in Rank \ {r} : pc'[u] = pc[u] /\ next'[u] = next[u]
           /\ Control'
      <3>1. /\ pos' = [pos EXCEPT ![r] = pos[r]] /\ pos[r] \in Nat
            /\ entered' = [entered EXCEPT ![r] = entered[r]]
        BY <2>1, RankFacts
      <3>2. RankOk(r, to, pos[r], c, entered[r], iter[r]) /\ to \in Label
        BY <2>2, <2>10 DEF RankOk, Label, Barriers, Ended
      <3> QED BY <2>6, <2>10, <3>1, <3>2, IterSame, MainStep
    <2>13. TypeOK'
      BY <2>1, <2>7, <2>12 DEF CompactorInv, TypeOK, Label, Cursor
    <2>14. Flushed'
      <3> SUFFICES ASSUME NEW u \in Rank, NEW j \in Rank, HasFlushed(u, j)' PROVE snd'[u][j].buf.n = 0
        BY DEF Flushed
      <3>1. CASE u # r
        <4>1. HasFlushed(u, j)
          BY <2>12, <3>1 DEF HasFlushed, Ended
        <4> QED BY <2>7, <3>1, <4>1 DEF CompactorInv, Flushed
      <3>2. CASE u = r
        <4>1. flushing /\ (j < c.sender \/ (j = c.sender /\ to = "inline"))
          BY <2>2, <2>10, <2>12, <3>2 DEF HasFlushed, Ended
        <4>2. CASE j = i
          <5>1. i \in Int /\ (to = "inline" \/ c = m)
            BY <2>2, <2>11, <4>1, <4>2, RankInt
          <5> QED BY <2>7, <2>9, <3>2, <4>1, <4>2, <5>1
        <4>3. CASE j # i
          <5>1. j < i
            BY <2>2, <2>10, <2>11, <4>1, <4>3, RankInt
          <5>2. HasFlushed(r, j)
            BY <4>1, <5>1 DEF HasFlushed
          <5> QED BY <2>7, <3>2, <4>3, <5>2 DEF CompactorInv, Flushed
        <4> QED BY <4>2, <4>3
      <3> QED BY <3>1, <3>2
    <2>15. Waited'
      <3> SUFFICES ASSUME NEW u \in Rank, NEW j \in Rank, HasWaited(u, j)'
                   PROVE  ~snd'[u][j].scheduled /\ snd'[u][j].status = Ok
        BY DEF Waited
      <3>1. u # r
        BY <2>2, <2>10, <2>12 DEF HasWaited, Ended
      <3>2. HasWaited(u, j)
        BY <2>12, <3>1 DEF HasWaited, Ended
      <3> QED BY <2>7, <3>1, <3>2 DEF CompactorInv, Waited
    <2>16. Landed'
      BY <2>1, <2>2, <2>10, <2>12, LandedStays DEF Ended
    <2> QED BY <2>8, <2>12, <2>13, <2>14, <2>15, <2>16 DEF CompactorInv
  <1> QED BY <1>0, <1>1

\* What is left of the main thread's steps leaves the senders alone, but for the wait.
LEMMA PlainStep ==
    ASSUME CompactorInv, UNCHANGED flags, NEW r \in Rank, NEW to \in Label, NEW c \in Cursor, NEW e,
           iter' \in [Rank -> {Ok, "error"}], \A u \in Rank \ {r} : iter'[u] = iter[u],
           pc' = [pc EXCEPT ![r] = to], next' = [next EXCEPT ![r] = c],
           entered' = [entered EXCEPT ![r] = e],
           UNCHANGED <<pos, snd, db>>, open' \in [Rank -> SUBSET {"srcdb", "dstdb", "port"}],
           flushed' \in [Rank -> SUBSET Keys], aborted' = aborted,
           RankOk(r, to, pos[r], c, e, iter'[r]),
           \A j \in Rank : HasFlushed(r, j)' => snd[r][j].buf.n = 0,
           \A j \in Rank : HasWaited(r, j)' => ~snd[r][j].scheduled /\ snd[r][j].status = Ok,
           Landed'
    PROVE  CompactorInv'
  <1>1. pos' = [pos EXCEPT ![r] = pos[r]] /\ pos[r] \in Nat
    BY RankFacts
  <1>2. /\ pc' \in [Rank -> Label] /\ pos' \in [Rank -> Nat] /\ next' \in [Rank -> Cursor]
        /\ entered' \in [Rank -> 0 .. 4]
        /\ pc'[r] = to /\ next'[r] = c
        /\ \A u \in Rank \ {r} : pc'[u] = pc[u] /\ next'[u] = next[u]
        /\ Control'
    BY <1>1, MainStep
  <1>3. TypeOK'
    BY <1>2 DEF CompactorInv, TypeOK, Label, Cursor
  <1>4. SendersOk' /\ Delivered'
    BY QuietStep
  <1>5. \A u, j \in Rank : u # r => (HasFlushed(u, j)' => HasFlushed(u, j)) /\ (HasWaited(u, j)' => HasWaited(u, j))
    BY <1>2 DEF HasFlushed, HasWaited, Ended
  <1>6. Flushed' /\ Waited'
    BY <1>5 DEF CompactorInv, Flushed, Waited
  <1> QED BY <1>2, <1>3, <1>4, <1>6 DEF CompactorInv

LEMMA InlineSentStep ==
    ASSUME CompactorInv, UNCHANGED <<flags, iter>>, NEW r \in Rank, InlineSent(r)
    PROVE  CompactorInv'
  <1> DEFINE i == next[r].sender
             to == next[r].then
             c == [next[r] EXCEPT !.sender = IF to = "map" THEN i ELSE i + 1]
  <1>1. /\ pc[r] = "inline" /\ pc' = [pc EXCEPT ![r] = to] /\ next' = [next EXCEPT ![r] = c]
        /\ UNCHANGED <<pos, entered, snd, open, db, flushed, aborted>>
    BY DEF InlineSent, LoopDone, Goto
  <1>2. /\ i \in Rank /\ next[r] \in Cursor /\ to \in {"map", "flush"}
        /\ RankOk(r, "inline", pos[r], next[r], entered[r], iter[r])
        /\ pc \in [Rank -> Label] /\ next \in [Rank -> Cursor] /\ entered \in [Rank -> 0 .. 4]
    BY <1>1, RankFacts DEF RankOk
  <1>3. c \in Cursor /\ c.then = to /\ c.sender = IF to = "map" THEN i ELSE i + 1
    BY <1>2, RankInt DEF Cursor
  <1> HIDE DEF c
  <1>4. RankOk(r, to, pos[r], c, entered[r], iter[r]) /\ to \in Label
    BY <1>2, <1>3 DEF RankOk, Label, Barriers, Ended
  <1>5. pc'[r] = to /\ next'[r] = c /\ \A u \in Rank \ {r} : pc'[u] = pc[u]
    BY <1>1, <1>2
  <1>6. ASSUME NEW j \in Rank, HasFlushed(r, j)' PROVE snd[r][j].buf.n = 0
    <2>1. to = "flush" /\ j < i + 1
      BY <1>2, <1>3, <1>5, <1>6 DEF HasFlushed, Ended
    <2>2. j < i \/ j = i
      BY <2>1, <1>2, RankInt
    <2>3. HasFlushed(r, j)
      BY <2>1, <2>2, <1>1 DEF HasFlushed
    <2> QED BY <2>3 DEF CompactorInv, Flushed
  <1>7. \A j \in Rank : ~HasWaited(r, j)'
    BY <1>2, <1>5 DEF HasWaited, Ended
  <1>8. Landed'
    BY <1>1, <1>2, <1>5, LandedStays DEF Ended
  <1>9. /\ entered' = [entered EXCEPT ![r] = entered[r]]
        /\ open' \in [Rank -> SUBSET {"srcdb", "dstdb", "port"}] /\ flushed' \in [Rank -> SUBSET Keys]
    BY <1>1 DEF CompactorInv, TypeOK
  <1> QED BY <1>1, <1>3, <1>4, <1>6, <1>7, <1>8, <1>9, IterSame, PlainStep

LEMMA MapDoneStep ==
    ASSUME CompactorInv, UNCHANGED flags, NEW r \in Rank, MapDone(r)
    PROVE  CompactorInv'
  <1> DEFINE c == [sender |-> 0, then |-> "flush"]
  <1>1. /\ pc[r] = "map"
        /\ (pos[r] > Len(Source[r]) /\ iter' = iter) \/ iter' = [iter EXCEPT ![r] = "error"]
        /\ pc' = [pc EXCEPT ![r] = "flush"] /\ next' = [next EXCEPT ![r] = c]
        /\ UNCHANGED <<pos, entered, snd, open, db, flushed, aborted>>
    BY DEF MapDone, Goto
  <1>2. /\ RankOk(r, "map", pos[r], next[r], entered[r], iter[r])
        /\ pc \in [Rank -> Label] /\ next \in [Rank -> Cursor] /\ entered \in [Rank -> 0 .. 4]
    BY <1>1, RankFacts
  <1>3. c \in Cursor /\ c.then = "flush" /\ c.sender = 0
    BY RankInt DEF Cursor
  <1> HIDE DEF c
  <1>4. /\ iter' \in [Rank -> {Ok, "error"}] /\ \A u \in Rank \ {r} : iter'[u] = iter[u]
        /\ iter'[r] = Ok => pos[r] > Len(Source[r])
    <2>1. iter \in [Rank -> {Ok, "error"}] /\ Ok # "error"
      BY DEF CompactorInv, TypeOK, Ok
    <2> QED BY <1>1, <2>1
  <1>5. RankOk(r, "flush", pos[r], c, entered[r], iter'[r]) /\ "flush" \in Label
    BY <1>1, <1>2, <1>3, <1>4, SourceType DEF RankOk, Label, Barriers, Ended
  <1>6. pc'[r] = "flush" /\ next'[r] = c /\ \A u \in Rank \ {r} : pc'[u] = pc[u]
    BY <1>1, <1>2
  <1>7. \A j \in Rank : ~HasFlushed(r, j)' /\ ~HasWaited(r, j)'
    BY <1>3, <1>6, RankInt DEF HasFlushed, HasWaited, Ended
  <1>8. Landed'
    BY <1>1, <1>6, LandedStays DEF Ended
  <1>9. /\ entered' = [entered EXCEPT ![r] = entered[r]]
        /\ open' \in [Rank -> SUBSET {"srcdb", "dstdb", "port"}] /\ flushed' \in [Rank -> SUBSET Keys]
    BY <1>1 DEF CompactorInv, TypeOK
  <1> QED BY <1>1, <1>3, <1>4, <1>5, <1>7, <1>8, <1>9, PlainStep

LEMMA FlushStep ==
    ASSUME CompactorInv, UNCHANGED <<flags, iter>>, NEW r \in Rank, Flush(r)
    PROVE  CompactorInv'
  <1>1. /\ pc[r] = "flush" /\ next[r].sender < comm_size /\ pc' = [pc EXCEPT ![r] = "send"]
        /\ UNCHANGED <<pos, next, entered, snd, open, db, flushed, aborted>>
    BY DEF Flush, Goto
  <1>2. /\ RankOk(r, "flush", pos[r], next[r], entered[r], iter[r]) /\ next[r] \in Cursor
        /\ next[r].sender \in 0 .. comm_size
        /\ pc \in [Rank -> Label] /\ next \in [Rank -> Cursor] /\ entered \in [Rank -> 0 .. 4]
    BY <1>1, RankFacts
  <1>3. next[r].sender \in Rank
    BY <1>1, <1>2, RankInt DEF Rank
  <1>4. RankOk(r, "send", pos[r], next[r], entered[r], iter[r]) /\ "send" \in Label
    BY <1>2, <1>3 DEF RankOk, Label, Barriers, Ended
  <1>5. pc'[r] = "send" /\ \A u \in Rank \ {r} : pc'[u] = pc[u]
    BY <1>1, <1>2
  <1>6. \A j \in Rank : HasFlushed(r, j)' => HasFlushed(r, j)
    BY <1>1, <1>5 DEF HasFlushed, Ended
  <1>7. \A j \in Rank : HasFlushed(r, j)' => snd[r][j].buf.n = 0
    BY <1>6 DEF CompactorInv, Flushed
  <1>8. (\A j \in Rank : ~HasWaited(r, j)') /\ Landed'
    BY <1>1, <1>5, LandedStays DEF HasWaited, Ended
  <1>9. /\ entered' = [entered EXCEPT ![r] = entered[r]] /\ next' = [next EXCEPT ![r] = next[r]]
        /\ open' \in [Rank -> SUBSET {"srcdb", "dstdb", "port"}] /\ flushed' \in [Rank -> SUBSET Keys]
    BY <1>1, <1>2 DEF CompactorInv, TypeOK
  <1> QED BY <1>1, <1>2, <1>4, <1>7, <1>8, <1>9, IterSame, PlainStep

LEMMA FlushDoneStep ==
    ASSUME CompactorInv, UNCHANGED <<flags, iter>>, NEW r \in Rank, FlushDone(r)
    PROVE  CompactorInv'
  <1> DEFINE c == [next[r] EXCEPT !.sender = 0]
  <1>1. /\ pc[r] = "flush" /\ next[r].sender = comm_size
        /\ pc' = [pc EXCEPT ![r] = "wait"] /\ next' = [next EXCEPT ![r] = c]
        /\ UNCHANGED <<pos, entered, snd, open, db, flushed, aborted>>
    BY DEF FlushDone, Goto
  <1>2. /\ RankOk(r, "flush", pos[r], next[r], entered[r], iter[r]) /\ next[r] \in Cursor
        /\ pc \in [Rank -> Label] /\ next \in [Rank -> Cursor] /\ entered \in [Rank -> 0 .. 4]
    BY <1>1, RankFacts
  <1>3. c \in Cursor /\ c.then = next[r].then /\ c.sender = 0 /\ next[r].then = "flush"
    <2>1. next[r].then = "flush" /\ 0 \in 0 .. comm_size
      BY <1>2, RankInt DEF RankOk
    <2> QED BY <1>2, <2>1 DEF Cursor
  <1> HIDE DEF c
  <1>4. RankOk(r, "wait", pos[r], c, entered[r], iter[r]) /\ "wait" \in Label
    BY <1>2, <1>3 DEF RankOk, Label, Barriers, Ended
  <1>5. pc'[r] = "wait" /\ next'[r] = c /\ \A u \in Rank \ {r} : pc'[u] = pc[u]
    BY <1>1, <1>2
  <1>6. \A j \in Rank : HasFlushed(r, j)
    BY <1>1, <1>3, RankInt DEF HasFlushed
  <1>7. \A j \in Rank : snd[r][j].buf.n = 0
    BY <1>6 DEF CompactorInv, Flushed
  <1>8. (\A j \in Rank : ~HasWaited(r, j)') /\ Landed'
    BY <1>1, <1>3, <1>5, LandedStays, RankInt DEF HasWaited, Ended
  <1>9. /\ entered' = [entered EXCEPT ![r] = entered[r]]
        /\ open' \in [Rank -> SUBSET {"srcdb", "dstdb", "port"}] /\ flushed' \in [Rank -> SUBSET Keys]
    BY <1>1, <1>2 DEF CompactorInv, TypeOK
  <1> QED BY <1>1, <1>3, <1>4, <1>7, <1>8, <1>9, IterSame, PlainStep

LEMMA WaitStep ==
    ASSUME CompactorInv, UNCHANGED <<flags, iter>>, NEW r \in Rank, WaitForAsyncOperations(r)
    PROVE  CompactorInv'
  <1> DEFINE i == next[r].sender
             s == snd[r][i]
             z == [s EXCEPT !.waiting = s.scheduled]
             c == [next[r] EXCEPT !.sender = IF s.scheduled THEN i ELSE i + 1]
  <1>0. CASE MPI_Abort
    BY <1>0, AbortStep
  <1>1. CASE ~MPI_Abort
    <2>1. /\ pc[r] = "wait" /\ i < comm_size /\ (s.scheduled \/ s.status = Ok)
          /\ snd' = [snd EXCEPT ![r][i] = z] /\ next' = [next EXCEPT ![r] = c]
          /\ UNCHANGED <<pc, pos, entered, open, db, flushed, aborted>>
      BY <1>1 DEF WaitForAsyncOperations
    <2>2. /\ RankOk(r, "wait", pos[r], next[r], entered[r], iter[r]) /\ next[r] \in Cursor
          /\ i \in 0 .. comm_size /\ pos[r] \in Nat /\ pos \in [Rank -> Nat]
          /\ pc \in [Rank -> Label] /\ next \in [Rank -> Cursor] /\ entered \in [Rank -> 0 .. 4]
      BY <2>1, RankFacts
    <2>3. i \in Rank
      BY <2>1, <2>2, RankInt DEF Rank
    <2>4. s \in Sender /\ SenderOk(s, Seen(r), db[i])
      BY <2>3 DEF CompactorInv, TypeOK, SendersOk
    <2>5. s.scheduled \in BOOLEAN
      BY <2>4 DEF Sender
    <2>6. /\ z \in Sender /\ SenderOk(z, Seen(r), db[i]) /\ z.buf = s.buf
          /\ \A x : Delivers(s, x, db[i]) => Delivers(z, x, db[i])
          /\ z.scheduled = s.scheduled /\ z.status = s.status
      BY <2>4, <2>5, WaitingOk
    <2>7. c \in Cursor /\ c.then = next[r].then /\ c.sender = IF s.scheduled THEN i ELSE i + 1
      BY <2>2, <2>3, RankInt DEF Cursor
    <2> HIDE DEF c, z
    <2>8. RankOk(r, "wait", pos[r], c, entered[r], iter[r]) /\ "wait" \in Label
      BY <2>2, <2>7 DEF RankOk, Label
    <2>9. /\ pc' \in [Rank -> Label] /\ pos' \in [Rank -> Nat] /\ next' \in [Rank -> Cursor]
          /\ entered' \in [Rank -> 0 .. 4]
          /\ pc'[r] = "wait" /\ next'[r] = c
          /\ \A u \in Rank \ {r} : pc'[u] = pc[u] /\ next'[u] = next[u]
          /\ Control'
      <3> DEFINE p == pos[r]
                 e == entered[r]
      <3>1. /\ pos' = [pos EXCEPT ![r] = p] /\ entered' = [entered EXCEPT ![r] = e]
            /\ pc' = [pc EXCEPT ![r] = "wait"] /\ next' = [next EXCEPT ![r] = c]
        BY <2>1, <2>2
      <3>2. RankOk(r, "wait", p, c, e, iter[r]) /\ "wait" \in Label /\ p \in Nat /\ c \in Cursor
        BY <2>2, <2>7, <2>8
      <3> HIDE DEF p, e
      <3> QED BY <3>1, <3>2, IterSame, MainStep
    <2>10. /\ snd' \in [Rank -> [Rank -> Sender]]
           /\ snd'[r][i] = z
           /\ \A u, j \in Rank : u # r \/ j # i => snd'[u][j] = snd[u][j]
      BY <2>1, <2>3, <2>6, SndUpdate DEF CompactorInv, TypeOK
    <2>11. TypeOK'
      BY <2>1, <2>9, <2>10 DEF CompactorInv, TypeOK, Label, Cursor
    <2>12. SendersOk' /\ Delivered'
      BY <2>1, <2>3, <2>6, OneSender
    <2>13. Flushed'
      <3> SUFFICES ASSUME NEW u \in Rank, NEW j \in Rank, HasFlushed(u, j)' PROVE snd'[u][j].buf.n = 0
        BY DEF Flushed
      <3>1. HasFlushed(u, j)
        BY <2>1, <2>9 DEF HasFlushed, Ended
      <3>2. snd'[u][j].buf = snd[u][j].buf
        BY <2>6, <2>10
      <3> QED BY <3>1, <3>2 DEF CompactorInv, Flushed
    <2>14. Waited'
      <3> SUFFICES ASSUME NEW u \in Rank, NEW j \in Rank, HasWaited(u, j)'
                   PROVE  ~snd'[u][j].scheduled /\ snd'[u][j].status = Ok
        BY DEF Waited
      <3>1. CASE u # r \/ j # i
        <4>1. HasWaited(u, j)
          <5>1. CASE u # r
            BY <2>9, <5>1 DEF HasWaited, Ended
          <5>2. CASE u = r /\ j # i
            <6>1. j < c.sender
              BY <2>9, <5>2 DEF HasWaited, Ended
            <6>2. j < i
              BY <2>3, <2>7, <5>2, <6>1, RankInt
            <6> QED BY <2>1, <5>2, <6>2 DEF HasWaited
          <5> QED BY <3>1, <5>1, <5>2
        <4> QED BY <2>10, <3>1, <4>1 DEF CompactorInv, Waited
      <3>2. CASE u = r /\ j = i
        <4>1. i < c.sender
          BY <2>9, <3>2 DEF HasWaited, Ended
        <4>2. ~s.scheduled
          BY <2>3, <2>7, <4>1, RankInt
        <4> QED BY <2>1, <2>6, <2>10, <3>2, <4>2
      <3> QED BY <3>1, <3>2
    <2>15. Landed'
      BY <2>1, <2>9, LandedStays DEF Ended
    <2> QED BY <2>9, <2>11, <2>12, <2>13, <2>14, <2>15 DEF CompactorInv
  <1> QED BY <1>0, <1>1

LEMMA WaitDoneStep ==
    ASSUME CompactorInv, UNCHANGED <<flags, iter>>, NEW r \in Rank, WaitDone(r)
    PROVE  CompactorInv'
  <1> DEFINE e == entered[r] + 1
  <1>1. /\ pc[r] = "wait" /\ next[r].sender = comm_size
        /\ pc' = [pc EXCEPT ![r] = "dbflush"] /\ entered' = [entered EXCEPT ![r] = e]
        /\ UNCHANGED <<pos, next, snd, open, db, flushed, aborted>>
    BY DEF WaitDone, Goto, Enter
  <1>2. /\ RankOk(r, "wait", pos[r], next[r], entered[r], iter[r]) /\ next[r] \in Cursor
        /\ pc \in [Rank -> Label] /\ next \in [Rank -> Cursor] /\ entered \in [Rank -> 0 .. 4]
    BY <1>1, RankFacts
  <1>3. e = 3
    BY <1>2 DEF RankOk, Barriers
  <1>4. RankOk(r, "dbflush", pos[r], next[r], e, iter[r]) /\ "dbflush" \in Label
    BY <1>2, <1>3 DEF RankOk, Label, Barriers, Ended
  <1>5. pc'[r] = "dbflush" /\ \A u \in Rank \ {r} : pc'[u] = pc[u]
    BY <1>1, <1>2
  <1>6. \A j \in Rank : HasFlushed(r, j) /\ HasWaited(r, j)
    BY <1>1, RankInt DEF HasFlushed, HasWaited
  <1>7. \A j \in Rank : snd[r][j].buf.n = 0 /\ ~snd[r][j].scheduled /\ snd[r][j].status = Ok
    BY <1>6 DEF CompactorInv, Flushed, Waited
  <1>8. Landed'
    BY <1>1, <1>5, LandedStays DEF Ended
  <1>9. /\ next' = [next EXCEPT ![r] = next[r]]
        /\ open' \in [Rank -> SUBSET {"srcdb", "dstdb", "port"}] /\ flushed' \in [Rank -> SUBSET Keys]
    BY <1>1, <1>2 DEF CompactorInv, TypeOK
  <1> HIDE DEF e
  <1> QED BY <1>1, <1>2, <1>4, <1>7, <1>8, <1>9, IterSame, PlainStep

\* Where a rank has ended the map and has waited, every key it has read is in its db.
LEMMA AllDelivered ==
    ASSUME CompactorInv, NEW u \in Rank, pc[u] \in Ended, NEW k \in Seen(u)
    PROVE  k \in db[Route[k]]
  <1> DEFINE i == Route[k]
             s == snd[u][i]
  <1>1. i \in Rank
    BY SeenType, KeysRouted DEF CompactorInv
  <1>2. s.buf.n = 0 /\ ~s.scheduled /\ s.status = Ok
    BY <1>1 DEF CompactorInv, Flushed, Waited, HasFlushed, HasWaited
  <1>3. SenderOk(s, Seen(u), db[i]) /\ s \in Sender /\ Delivers(s, k, db[i])
    BY <1>1 DEF CompactorInv, TypeOK, SendersOk, Delivered
  <1>4. s.call = "none" /\ s.in_ = Empty /\ Len(s.buf.kvs) = 0 /\ s.buf.kvs \in Seq(Keys)
    BY <1>2, <1>3 DEF SenderOk, Sender, Message
  <1>5. Range(s.buf.kvs) = {}
    <2>1. DOMAIN s.buf.kvs = 1 .. 0
      BY <1>4
    <2> QED BY <2>1 DEF Range
  <1>6. Pending(s) = {}
    BY <1>4, <1>5, EmptyFacts DEF Pending
  <1> QED BY <1>2, <1>3, <1>4, <1>6 DEF Delivers

LEMMA DbFlushStep ==
    ASSUME CompactorInv, UNCHANGED <<flags, iter>>, NEW r \in Rank, DbFlush(r)
    PROVE  CompactorInv'
  <1> DEFINE e == entered[r] + 1
  <1>0. CASE MPI_Abort
    BY <1>0, AbortStep
  <1>1. CASE ~MPI_Abort
    <2>1. /\ pc[r] = "dbflush" /\ Passed(r) /\ flushed' = [flushed EXCEPT ![r] = db[r]]
          /\ pc' = [pc EXCEPT ![r] = "report"] /\ entered' = [entered EXCEPT ![r] = e]
          /\ UNCHANGED <<pos, next, snd, open, db, aborted>>
      BY <1>1 DEF DbFlush, Goto, Enter
    <2>2. /\ RankOk(r, "dbflush", pos[r], next[r], entered[r], iter[r]) /\ next[r] \in Cursor
          /\ pc \in [Rank -> Label] /\ next \in [Rank -> Cursor] /\ entered \in [Rank -> 0 .. 4]
      BY <2>1, RankFacts
    <2>3. e = 4 /\ entered[r] = 3
      BY <2>2 DEF RankOk, Barriers
    <2>4. RankOk(r, "report", pos[r], next[r], e, iter[r]) /\ "report" \in Label
      BY <2>2, <2>3 DEF RankOk, Label, Barriers, Ended
    <2>5. pc'[r] = "report" /\ \A u \in Rank \ {r} : pc'[u] = pc[u]
      BY <2>1, <2>2
    <2>6. \A j \in Rank : HasFlushed(r, j) /\ HasWaited(r, j)
      BY <2>1 DEF HasFlushed, HasWaited, Ended
    <2>7. \A j \in Rank : snd[r][j].buf.n = 0 /\ ~snd[r][j].scheduled /\ snd[r][j].status = Ok
      BY <2>6 DEF CompactorInv, Flushed, Waited
    <2>8. \A u \in Rank : pc[u] \in Ended
      <3> SUFFICES ASSUME NEW u \in Rank PROVE pc[u] \in Ended
        OBVIOUS
      <3>1. entered[u] >= 3 /\ entered[u] = Barriers(pc[u]) /\ pc[u] \in Label
        BY <2>1, <2>3, RankFacts DEF Passed, RankOk
      <3> QED BY <3>1 DEF Barriers, Label, Ended
    <2>9. Landed'
      <3>1. \A u \in Rank : pc'[u] \in Ended /\ Seen(u)' = Seen(u)
        BY <2>1, <2>5, <2>8 DEF Ended, Seen
      <3>3. \A u \in Rank : \A k \in Seen(u) : Route[k] = r => k \in db[r]
        BY <2>8, AllDelivered
      <3>2. flushed'[r] = db[r] /\ \A u \in Rank \ {r} : flushed'[u] = flushed[u]
        BY <2>1 DEF CompactorInv, TypeOK
      <3> QED BY <2>5, <3>1, <3>2, <3>3 DEF CompactorInv, Landed
    <2>10. /\ next' = [next EXCEPT ![r] = next[r]]
           /\ open' \in [Rank -> SUBSET {"srcdb", "dstdb", "port"}]
           /\ flushed' \in [Rank -> SUBSET Keys]
      BY <2>1, <2>2 DEF CompactorInv, TypeOK
    <2> HIDE DEF e
    <2> QED BY <2>1, <2>2, <2>4, <2>7, <2>9, <2>10, IterSame, PlainStep
  <1> QED BY <1>0, <1>1

LEMMA CloseStep ==
    ASSUME CompactorInv, UNCHANGED <<flags, iter>>, NEW r \in Rank, Close(r)
    PROVE  CompactorInv'
  <1>1. /\ pc[r] = "report" /\ open' = [open EXCEPT ![r] = {}]
        /\ pc' = [pc EXCEPT ![r] = "done"]
        /\ UNCHANGED <<pos, next, entered, snd, db, flushed, aborted>>
    BY DEF Close, Goto
  <1>2. /\ RankOk(r, "report", pos[r], next[r], entered[r], iter[r]) /\ next[r] \in Cursor
        /\ pc \in [Rank -> Label] /\ next \in [Rank -> Cursor] /\ entered \in [Rank -> 0 .. 4]
    BY <1>1, RankFacts
  <1>3. RankOk(r, "done", pos[r], next[r], entered[r], iter[r]) /\ "done" \in Label
    BY <1>2 DEF RankOk, Label, Barriers, Ended
  <1>4. pc'[r] = "done" /\ \A u \in Rank \ {r} : pc'[u] = pc[u]
    BY <1>1, <1>2
  <1>5. \A j \in Rank : HasFlushed(r, j) /\ HasWaited(r, j)
    BY <1>1 DEF HasFlushed, HasWaited, Ended
  <1>6. \A j \in Rank : snd[r][j].buf.n = 0 /\ ~snd[r][j].scheduled /\ snd[r][j].status = Ok
    BY <1>5 DEF CompactorInv, Flushed, Waited
  <1>7. Landed'
    BY <1>1, <1>4, LandedStays DEF Ended
  <1> DEFINE e == entered[r]
             c == next[r]
  <1>8. /\ next' = [next EXCEPT ![r] = c] /\ entered' = [entered EXCEPT ![r] = e]
        /\ open' \in [Rank -> SUBSET {"srcdb", "dstdb", "port"}] /\ flushed' \in [Rank -> SUBSET Keys]
    BY <1>1, <1>2 DEF CompactorInv, TypeOK
  <1>9. c \in Cursor /\ RankOk(r, "done", pos[r], c, e, iter[r]) /\ "done" \in Label
    BY <1>2, <1>3
  <1> HIDE DEF c, e
  <1>10. pc' = [pc EXCEPT ![r] = "done"] /\ UNCHANGED <<pos, snd, db>> /\ aborted' = aborted
    BY <1>1
  <1> QED BY <1>6, <1>7, <1>8, <1>9, <1>10, IterSame, PlainStep
-----------------------------------------------------------------------------
LEMMA CompactorStep == CompactorInv /\ [Next]_<<flags, iter, vars>> => CompactorInv'
  <1> SUFFICES ASSUME CompactorInv, [Next]_<<flags, iter, vars>> PROVE CompactorInv'
    OBVIOUS
  <1>1. CASE UNCHANGED <<flags, iter, vars>>
    <2>1. UNCHANGED <<flags, iter, pc, pos, next, entered, snd, open, db, flushed, aborted>>
      BY <1>1 DEF vars
    <2>2. SendersOk' /\ Delivered'
      BY <2>1, QuietStep
    <2> QED BY <2>1, <2>2 DEF CompactorInv, TypeOK, Control, Flushed, HasFlushed, Waited, HasWaited,
                              Landed, Seen, Ended
  <1>2. CASE Next
    <2>1. PICK r \in Rank :
            \/ Main(r)
            \/ /\ UNCHANGED iter
               /\ \E i \in Rank : SendIt(r, i) \/ Call(r, i) \/ Timeout(r, i) \/ Replied(r, i)
      BY <1>2 DEF Next
    <2>2. UNCHANGED flags
      BY <1>2 DEF Next
    <2>3. ASSUME UNCHANGED iter, NEW i \in Rank,
                 SendIt(r, i) \/ Call(r, i) \/ Timeout(r, i) \/ Replied(r, i)
          PROVE  CompactorInv'
      BY <2>2, <2>3, SendItStep, CallAtStep, TimeoutStep, RepliedStep
    <2>4. CASE UNCHANGED iter /\ (OpenDbs(r) \/ OpenPort(r) \/ OpenSenders(r) \/ Start(r))
      BY <2>2, <2>4, StartStep
    <2>5. CASE MapDone(r) \/ (UNCHANGED iter /\ (Send(r) \/ SendLoop(r) \/ InlineSent(r)))
      BY <2>2, <2>5, SendStep, SendLoopStep, InlineSentStep, MapDoneStep
    <2>6. CASE UNCHANGED iter /\ (Flush(r) \/ FlushDone(r) \/ WaitForAsyncOperations(r) \/ WaitDone(r))
      BY <2>2, <2>6, FlushStep, FlushDoneStep, WaitStep, WaitDoneStep
    <2>7. CASE UNCHANGED iter /\ (DbFlush(r) \/ Close(r))
      BY <2>2, <2>7, DbFlushStep, CloseStep
    <2> QED BY <2>1, <2>3, <2>4, <2>5, <2>6, <2>7 DEF Main
  <1> QED BY <1>1, <1>2

LEMMA CompactorInvariant == Spec => []CompactorInv
  BY InitCompactor, CompactorStep, PTL DEF Spec

\* The types of the compactor's state: every sender's cursor and every count of barriers
\* stays in range, for any number of ranks and any command line.
THEOREM CompactorTypes == Spec => []TypeOK
  <1>1. CompactorInv => TypeOK
    BY DEF CompactorInv
  <1> QED BY <1>1, CompactorInvariant, PTL

\* A rank that has flushed its destination db has in it every key routed to it that any
\* rank has read, all those of a source whose scan has not failed included (MapReduce,
\* parallel_compactor.cc): for any sources, batch sizes and numbers of threads, and
\* although reads fail and calls fail, time out or are answered late.
THEOREM CompleteTheorem == Spec => []Complete
  <1>1. CompactorInv => Complete
    <2> SUFFICES ASSUME CompactorInv, NEW r \in Rank, pc[r] \in {"report", "done"},
                        NEW i \in Rank, NEW n \in DOMAIN Source[i],
                        Route[Source[i][n]] = r, iter[i] = Ok \/ n < pos[i]
                 PROVE  Source[i][n] \in flushed[r]
      BY DEF Complete, SelectServer
    <2>1. /\ pc[i] \in Ended
          /\ \A k \in Seen(i) : Route[k] = r => k \in flushed[r]
      BY DEF CompactorInv, Landed
    <2>2. n \in 1 .. pos[i] - 1
      <3>1. /\ RankOk(i, pc[i], pos[i], next[i], entered[i], iter[i])
            /\ pos[i] \in Nat /\ n \in 1 .. Len(Source[i]) /\ Len(Source[i]) \in Nat
        BY RankFacts
      <3>2. iter[i] = Ok => pos[i] = Len(Source[i]) + 1
        BY <2>1, <3>1 DEF RankOk
      <3> QED BY <3>1, <3>2
    <2> QED BY <2>1, <2>2 DEF Seen
  <1> QED BY <1>1, CompactorInvariant, PTL

\* No key the iterator has passed is lost or sent twice by the senders (AsyncKVSender,
\* parallel_compactor.cc), unless one of its calls has failed.
THEOREM KeysAccountedTheorem == Spec => []KeysAccounted
  <1>1. CompactorInv => KeysAccounted
    <2> SUFFICES ASSUME CompactorInv, NEW r \in Rank, NEW n \in 1 .. pos[r] - 1
                 PROVE  LET k == Source[r][n]
                            i == SelectServer(k)
                            s == snd[r][i]
                            pending == {<<"buf", j>> : j \in Places(s.buf.kvs, k)}
                                         \cup {<<"in_", j>> : j \in Places(s.in_.kvs, k)}
                        IN  \/ s.status # Ok \/ s.call = "error"
                            \/ \E c \in pending : pending = {c}
                            \/ pending = {} /\ k \in db[i]
      BY DEF KeysAccounted
    <2> DEFINE k == Source[r][n]
               i == SelectServer(k)
               s == snd[r][i]
               bufs == Places(s.buf.kvs, k)
               ins == Places(s.in_.kvs, k)
               pending == {<<"buf", j>> : j \in bufs} \cup {<<"in_", j>> : j \in ins}
    <2>1. k \in Seen(r)
      BY DEF Seen
    <2>2. i \in Rank
      BY <2>1, SeenType, KeysRouted DEF CompactorInv, SelectServer
    <2>3. SenderOk(s, Seen(r), db[i]) /\ Delivers(s, k, db[i])
      BY <2>1, <2>2 DEF CompactorInv, SendersOk, Delivered, SelectServer
    <2>4. /\ \A a, b \in bufs : a = b
          /\ \A a, b \in ins : a = b
          /\ bufs = {} \/ ins = {}
      <3>1. IsInjective(s.buf.kvs) /\ IsInjective(s.in_.kvs) /\ Range(s.buf.kvs) \cap Range(s.in_.kvs) = {}
        BY <2>3 DEF SenderOk
      <3>2. \A a, b \in bufs : a = b
        BY <3>1 DEF IsInjective, Places
      <3>3. \A a, b \in ins : a = b
        BY <3>1 DEF IsInjective, Places
      <3>4. bufs = {} \/ ins = {}
        <4> SUFFICES ASSUME NEW a \in bufs, NEW b \in ins PROVE FALSE
          OBVIOUS
        <4>1. k \in Range(s.buf.kvs) /\ k \in Range(s.in_.kvs)
          BY DEF Places, Range
        <4> QED BY <3>1, <4>1
      <3> QED BY <3>2, <3>3, <3>4
    <2>5. k \in Pending(s) => bufs # {} \/ ins # {}
      BY DEF Pending, Range, Places
    <2> HIDE DEF bufs, ins, s, i, k
    <2>6. ASSUME bufs # {} \/ ins # {} PROVE \E c \in pending : pending = {c}
      <3>1. CASE bufs # {}
        <4>1. PICK a \in bufs : TRUE
          BY <3>1
        <4>2. pending = {<<"buf", a>>}
          BY <2>4, <4>1
        <4> QED BY <4>2
      <3>2. CASE ins # {}
        <4>1. PICK a \in ins : TRUE
          BY <3>2
        <4>2. pending = {<<"in_", a>>}
          BY <2>4, <4>1
        <4> QED BY <4>2
      <3> QED BY <2>6, <3>1, <3>2
    <2>7. ASSUME bufs = {}, ins = {}
          PROVE  \/ s.status # Ok \/ s.call = "error"
                 \/ pending = {} /\ k \in db[i]
      BY <2>3, <2>5, <2>7 DEF Delivers
    <2>8. \/ s.status # Ok \/ s.call = "error"
          \/ \E c \in pending : pending = {c}
          \/ pending = {} /\ k \in db[i]
      BY <2>6, <2>7
    <2> QED BY <2>8 DEF bufs, ins, s, i, k
  <1> QED BY <1>1, CompactorInvariant, PTL
=============================================================================
