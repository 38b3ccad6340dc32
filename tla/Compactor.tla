------------------------------ MODULE Compactor ------------------------------
(***************************************************************************)
(* The parallel compactor (parallel_compactor.cc).  Every rank iterates    *)
(* its source db, sends each key to the rank its directory index selects,  *)
(* through one asynchronous sender per rank, and inserts what it receives  *)
(* itself into its destination db.                                         *)
(*                                                                         *)
(* The actors are the main thread of a rank, the threads of its sender     *)
(* pool, and its rpc server, which calls Call.  MPI (barriers, abort) and  *)
(* the rpc library are external.                                           *)
(***************************************************************************)
EXTENDS Integers, Sequences, SequencesExt, FiniteSets

CONSTANTS comm_size,
          Source,    \* Source[r]: the keys of r's source db, in order
          Route,     \* Route[k]: the rank the index of k's directory selects
          Flags,     \* the command lines
          Faulty     \* whether calls, dbs and reads of the source may fail

Rank == 0 .. comm_size - 1

ASSUME CompactorAssumption ==
    /\ comm_size \in Nat
    /\ DOMAIN Source = Rank
    /\ \A r \in Rank : Source[r] \in Seq(DOMAIN Route) /\ IsInjective(Source[r])
    /\ \A k \in DOMAIN Route : Route[k] \in Rank
    /\ Flags \subseteq [rpc_batch_min : Nat, rpc_batch_max : Nat, rpc_async_sender_threads : Nat]
    /\ Faulty \in BOOLEAN

VARIABLES flags,          \* the command line of the job, the same at every rank
          pc, pos, next,  \* the main thread: where it is, its iterator, its sender
          iter,           \* the status of its iterator, which the code never asks for
          entered,        \* barriers the rank has entered
          snd,            \* snd[r][i]: the sender of rank r for rank i
          open,           \* what a rank has open: "srcdb", "dstdb", "port"
          db, flushed,    \* keys in the destination db, and those flushed
          aborted         \* MPI_Abort ends every rank

vars == <<pc, pos, next, entered, snd, open, db, flushed, aborted>>

rpc_batch_min == flags.rpc_batch_min
rpc_batch_max == flags.rpc_batch_max
rpc_async_sender_threads == flags.rpc_async_sender_threads

Keys == UNION {Range(Source[r]) : r \in Rank}
SelectServer(k) == Route[k]
Ok == "OK"
Empty == [n |-> 0, kvs |-> <<>>]
Message == [n : Nat, kvs : Seq(Keys)]
Sender == [buf : Message, in_ : Message,
           call : {"none", "queued", "sent", "ok", "error"},
           scheduled : BOOLEAN, waiting : BOOLEAN, status : {Ok, "error"}]

TypeOK ==
    /\ flags \in Flags
    /\ pc \in [Rank -> {"opendbs", "openport", "opensenders", "start", "map",
                        "send", "flush", "wait", "inline", "dbflush",
                        "report", "done", "finalize"}]
    /\ pos \in [Rank -> Nat] /\ iter \in [Rank -> {Ok, "error"}]
    /\ next \in [Rank -> [sender : 0 .. comm_size, then : {"map", "flush"}]]
    /\ entered \in [Rank -> 0 .. 4]
    /\ snd \in [Rank -> [Rank -> Sender]]
    /\ open \in [Rank -> SUBSET {"srcdb", "dstdb", "port"}]
    /\ db \in [Rank -> SUBSET Keys] /\ flushed \in [Rank -> SUBSET Keys]
    /\ aborted \in BOOLEAN

Init ==
    /\ flags \in Flags
    /\ pc = [r \in Rank |-> "opendbs"]
    /\ pos = [r \in Rank |-> 1] /\ iter = [r \in Rank |-> Ok]
    /\ next = [r \in Rank |-> [sender |-> r, then |-> "map"]]
    /\ entered = [r \in Rank |-> 0]
    /\ snd = [r \in Rank |-> [i \in Rank |->
                [buf |-> Empty, in_ |-> Empty, call |-> "none",
                 scheduled |-> FALSE, waiting |-> FALSE, status |-> Ok]]]
    /\ open = [r \in Rank |-> {}]
    /\ db = [r \in Rank |-> {}] /\ flushed = [r \in Rank |-> {}]
    /\ aborted = FALSE
-----------------------------------------------------------------------------
(* AsyncKVSender                                                            *)
AddKV(s, k) == [s EXCEPT !.buf = [n |-> @.n + 1, kvs |-> Append(@.kvs, k)]]

\* Mutant: the buffer is sent and kept.
ScheduleKeepsBuf(s) == [s EXCEPT !.scheduled = TRUE, !.call = "queued", !.in_ = s.buf]
Schedule(s) ==
    [s EXCEPT !.scheduled = TRUE, !.call = "queued", !.in_ = s.buf, !.buf = Empty]

\* Mutant: nobody is woken.
SentQuietly(s) ==
    [s EXCEPT !.scheduled = FALSE, !.call = "none", !.in_ = Empty,
              !.status = IF @ = Ok /\ s.call = "error" THEN "error" ELSE @]
\* SendIt, once the call has returned.
Sent(s) ==
    [s EXCEPT !.scheduled = FALSE, !.call = "none", !.in_ = Empty, !.waiting = FALSE,
              !.status = IF @ = Ok /\ s.call = "error" THEN "error" ELSE @]

\* The conditions on which the loops of Send and Flush schedule, wait, or are done.
SendMustSchedule(s) == s.buf.n >= rpc_batch_min /\ ~s.scheduled
SendMustWait(s) == s.buf.n >= rpc_batch_min /\ s.scheduled /\ s.buf.n >= rpc_batch_max
FlushMustSchedule(s) == s.buf.n # 0 /\ ~s.scheduled
FlushMustWait(s) == s.buf.n # 0 /\ s.scheduled

Inline == rpc_async_sender_threads = 0
-----------------------------------------------------------------------------
Goto(r, label) == pc' = [pc EXCEPT ![r] = label]

MPI_Abort == aborted' = TRUE /\ UNCHANGED <<pc, pos, next, entered, snd, open, db, flushed>>

\* MPI_Barrier: every rank has entered it as often as this one.
Enter(r) == entered' = [entered EXCEPT ![r] = @ + 1]
Passed(r) == \A i \in Rank : entered[i] >= entered[r]

OpenDbs(r) ==
    /\ ~aborted /\ pc[r] = "opendbs"
    /\ \/ /\ open' = [open EXCEPT ![r] = @ \cup {"srcdb", "dstdb"}]
          /\ Goto(r, "openport")
          /\ UNCHANGED <<pos, next, entered, snd, db, flushed, aborted>>
       \/ Faulty /\ MPI_Abort

\* Without a port the rank calls MPI_Finalize, which waits for the others to do so too.
OpenPort(r) ==
    /\ ~aborted /\ pc[r] = "openport"
    /\ \/ /\ open' = [open EXCEPT ![r] = @ \cup {"port"}]
          /\ Enter(r)
          /\ Goto(r, "opensenders")
       \/ /\ Faulty
          /\ Goto(r, "finalize")
          /\ UNCHANGED <<entered, open>>
    /\ UNCHANGED <<pos, next, snd, db, flushed, aborted>>

\* Behind the barrier the addresses are exchanged and the senders made.
OpenSenders(r) ==
    /\ ~aborted /\ pc[r] = "opensenders" /\ Passed(r)
    /\ Enter(r)
    /\ Goto(r, "start")
    /\ UNCHANGED <<pos, next, snd, open, db, flushed, aborted>>

Start(r) ==
    /\ ~aborted /\ pc[r] = "start" /\ Passed(r)
    /\ Goto(r, "map")
    /\ UNCHANGED <<pos, next, entered, snd, open, db, flushed, aborted>>

\* The map loop adds the next key to the buffer of its sender and enters Send's loop.
Send(r) ==
    /\ ~aborted /\ pc[r] = "map" /\ pos[r] <= Len(Source[r])
    /\ LET k == Source[r][pos[r]]
           i == SelectServer(k)
       IN  /\ snd' = [snd EXCEPT ![r][i] = AddKV(@, k)]
           /\ next' = [next EXCEPT ![r].sender = i]
    /\ pos' = [pos EXCEPT ![r] = @ + 1]
    /\ Goto(r, "send")
    /\ UNCHANGED <<entered, open, db, flushed, aborted>>

\* Send or Flush returns to its caller; MapReduce goes on to the next sender.
LoopDone(r) ==
    /\ Goto(r, next[r].then)
    /\ next' = [next EXCEPT ![r].sender = IF next[r].then = "map" THEN @ ELSE @ + 1]

\* Send's and Flush's loop, up to the point where the thread sleeps or returns.  A
\* failed call shows here, and aborts.  Without a pool the call is made in place.
SendLoop(r) ==
    LET i == next[r].sender
        s == snd[r][i]
        sending == next[r].then = "map"
        schedule == IF sending THEN SendMustSchedule(s) ELSE FlushMustSchedule(s)
        wait == IF sending THEN SendMustWait(s) ELSE FlushMustWait(s)
    IN  /\ ~aborted /\ pc[r] = "send" /\ ~s.waiting
        /\ \/ s.status # Ok /\ MPI_Abort
           \/ /\ s.status = Ok
              /\ snd' = IF schedule THEN [snd EXCEPT ![r][i] = Schedule(@)]
                        ELSE IF wait THEN [snd EXCEPT ![r][i].waiting = TRUE] ELSE snd
              /\ IF schedule /\ Inline THEN Goto(r, "inline") /\ UNCHANGED next
                 ELSE IF ~schedule /\ wait THEN UNCHANGED <<pc, next>>
                 ELSE LoopDone(r)
              /\ UNCHANGED <<pos, entered, open, db, flushed, aborted>>

\* Without a pool the main thread leaves Schedule when SendIt has returned.
InlineSent(r) ==
    /\ ~aborted /\ pc[r] = "inline" /\ ~snd[r][next[r].sender].scheduled
    /\ LoopDone(r)
    /\ UNCHANGED <<pos, entered, snd, open, db, flushed, aborted>>

\* Valid() has turned false: at the end of the source, or because a read has failed,
\* which only status() would tell.
MapDone(r) ==
    /\ ~aborted /\ pc[r] = "map"
    /\ \/ pos[r] > Len(Source[r]) /\ UNCHANGED iter
       \/ Faulty /\ iter' = [iter EXCEPT ![r] = "error"]
    /\ next' = [next EXCEPT ![r] = [sender |-> 0, then |-> "flush"]]
    /\ Goto(r, "flush")
    /\ UNCHANGED <<pos, entered, snd, open, db, flushed, aborted>>

\* All senders are flushed, one after the other, and then waited for.
Flush(r) ==
    /\ ~aborted /\ pc[r] = "flush" /\ next[r].sender < comm_size
    /\ Goto(r, "send")
    /\ UNCHANGED <<pos, next, entered, snd, open, db, flushed, aborted>>

FlushDone(r) ==
    /\ ~aborted /\ pc[r] = "flush" /\ next[r].sender = comm_size
    /\ next' = [next EXCEPT ![r].sender = 0]
    /\ Goto(r, "wait")
    /\ UNCHANGED <<pos, entered, snd, open, db, flushed, aborted>>

WaitForAsyncOperations(r) ==
    LET i == next[r].sender
        s == snd[r][i]
    IN  /\ ~aborted /\ pc[r] = "wait" /\ i < comm_size
        /\ ~s.waiting
        /\ \/ ~s.scheduled /\ s.status # Ok /\ MPI_Abort
           \/ /\ s.scheduled \/ s.status = Ok
              /\ snd' = [snd EXCEPT ![r][i].waiting = s.scheduled]
              /\ next' = [next EXCEPT ![r].sender = IF s.scheduled THEN @ ELSE @ + 1]
              /\ UNCHANGED <<pc, pos, entered, open, db, flushed, aborted>>

\* MPI_Barrier, then the flush of the destination db.
WaitDone(r) ==
    /\ ~aborted /\ pc[r] = "wait" /\ next[r].sender = comm_size
    /\ Enter(r)
    /\ Goto(r, "dbflush")
    /\ UNCHANGED <<pos, next, snd, open, db, flushed, aborted>>

\* Mutant: the db is flushed before the barrier.
DbFlushEarly(r) ==
    /\ ~aborted /\ pc[r] = "dbflush"
    /\ flushed' = [flushed EXCEPT ![r] = db[r]]
    /\ Enter(r)
    /\ Goto(r, "report")
    /\ UNCHANGED <<pos, next, snd, open, db, aborted>>
DbFlush(r) ==
    /\ ~aborted /\ pc[r] = "dbflush" /\ Passed(r)
    /\ \/ /\ flushed' = [flushed EXCEPT ![r] = db[r]]
          /\ Enter(r)
          /\ Goto(r, "report")
          /\ UNCHANGED <<pos, next, snd, open, db, aborted>>
       \/ Faulty /\ MPI_Abort

\* The last barrier of Run, the reports, and ~Compactor.
Close(r) ==
    /\ ~aborted /\ pc[r] = "report" /\ Passed(r)
    /\ open' = [open EXCEPT ![r] = {}]
    /\ Goto(r, "done")
    /\ UNCHANGED <<pos, next, entered, snd, db, flushed, aborted>>
-----------------------------------------------------------------------------
(* The sender pool and the rpcs.                                            *)
Busy(r) == {i \in Rank : snd[r][i].call \in {"sent", "ok", "error"}}

\* A pool thread (or the main thread) runs SendIt.
SendIt(r, i) ==
    /\ ~aborted /\ snd[r][i].call = "queued"
    /\ ~Inline => Cardinality(Busy(r)) < rpc_async_sender_threads
    /\ snd' = [snd EXCEPT ![r][i].call = "sent"]
    /\ UNCHANGED <<pc, pos, next, entered, open, db, flushed, aborted>>

\* Call at rank i: n key value pairs are decoded and written in one batch; the error
\* code is the reply.
Call(r, i) ==
    LET m == snd[r][i].in_
        decoded == m.n <= Len(m.kvs)
    IN  /\ ~aborted /\ snd[r][i].call = "sent" /\ "port" \in open[i]
        /\ \E written \in BOOLEAN :
            /\ written => decoded
            /\ ~written => ~decoded \/ Faulty
            /\ db' = [db EXCEPT ![i] = IF written THEN @ \cup Range(SubSeq(m.kvs, 1, m.n))
                                       ELSE @]
            /\ snd' = [snd EXCEPT ![r][i].call = IF written THEN "ok" ELSE "error"]
        /\ UNCHANGED <<pc, pos, next, entered, open, flushed, aborted>>

\* A call times out: the request or the reply is lost or late, or nobody listens.
Timeout(r, i) ==
    /\ ~aborted /\ snd[r][i].call \in {"sent", "ok"}
    /\ Faulty \/ (snd[r][i].call = "sent" /\ "port" \notin open[i])
    /\ snd' = [snd EXCEPT ![r][i].call = "error"]
    /\ UNCHANGED <<pc, pos, next, entered, open, db, flushed, aborted>>

\* The reply is in; SendIt locks again and signals.
Replied(r, i) ==
    /\ ~aborted /\ snd[r][i].call \in {"ok", "error"}
    /\ snd' = [snd EXCEPT ![r][i] = Sent(@)]
    /\ UNCHANGED <<pc, pos, next, entered, open, db, flushed, aborted>>

Main(r) == \/ MapDone(r)
           \/ /\ UNCHANGED iter
              /\ \/ OpenDbs(r) \/ OpenPort(r) \/ OpenSenders(r) \/ Start(r) \/ Send(r)
                 \/ SendLoop(r) \/ InlineSent(r) \/ Flush(r) \/ FlushDone(r)
                 \/ WaitForAsyncOperations(r) \/ WaitDone(r) \/ DbFlush(r) \/ Close(r)

Next == UNCHANGED flags /\ \E r \in Rank :
            \/ Main(r)
            \/ /\ UNCHANGED iter
               /\ \E i \in Rank : SendIt(r, i) \/ Call(r, i) \/ Timeout(r, i) \/ Replied(r, i)

\* Threads run, calls are answered or time out.  Calls are not assumed to succeed.
Fairness == \A r \in Rank :
                /\ WF_vars(Main(r))
                /\ \A i \in Rank : /\ WF_vars(SendIt(r, i))
                                   /\ WF_vars(Call(r, i) \/ Timeout(r, i))
                                   /\ WF_vars(Replied(r, i))

Spec == Init /\ [][Next]_<<flags, iter, vars>> /\ Fairness
-----------------------------------------------------------------------------
\* A rank that has flushed its destination db has in it every key routed to it that any
\* rank has read from its source, whatever was still under way when it got there (the
\* waits and the barrier of MapReduce); and that is every such key of a source whose
\* scan has not failed.  (A scan that fails ends as if the source did: the keys behind
\* it are missing, and the job succeeds.)
Complete ==
    \A r \in Rank : pc[r] \in {"report", "done"} =>
        \A i \in Rank : \A n \in DOMAIN Source[i] :
            /\ SelectServer(Source[i][n]) = r
            /\ iter[i] = Ok \/ n < pos[i]
            => Source[i][n] \in flushed[r]

Places(q, k) == {j \in DOMAIN q : q[j] = k}

\* A key the iterator has passed is in a buffer, in a message or in the destination
\* db, and in one of the first two at most once, unless its sender has failed.
KeysAccounted ==
    \A r \in Rank : \A n \in 1 .. pos[r] - 1 :
        LET k == Source[r][n]
            i == SelectServer(k)
            s == snd[r][i]
            pending == {<<"buf", j>> : j \in Places(s.buf.kvs, k)}
                         \cup {<<"in_", j>> : j \in Places(s.in_.kvs, k)}
        IN  \/ s.status # Ok \/ s.call = "error"
            \/ \E c \in pending : pending = {c}
            \/ pending = {} /\ k \in db[i]

\* Once every rank has its port, each gets to the end or the job is aborted: no wait on
\* a sender or a barrier lasts for ever.  (A rank that cannot open its port goes to
\* MPI_Finalize while the others are in MPI_Barrier, and nothing aborts the job.)
Terminates ==
    (\A r \in Rank : pc[r] # "finalize")
        ~> (aborted \/ (\E r \in Rank : pc[r] = "finalize") \/ \A r \in Rank : pc[r] = "done")
=============================================================================
