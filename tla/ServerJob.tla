------------------------------ MODULE ServerJob ------------------------------
(***************************************************************************)
(* The server job (deltafs_bm_svr.cc): every rank opens its db, its file   *)
(* system and its rpc ports, rank 0 then publishes the map of all ports,   *)
(* and all serve until a signal; they close the ports, flush, and end.     *)
(*                                                                         *)
(* The actors are the main thread of a rank, the receiving threads of its  *)
(* ports (posix_rpc.cc, posix_rpc_udp.cc), the pool their calls may be     *)
(* handed to, and the signal handler, which runs on the main thread or on  *)
(* a receiving one.                                                        *)
(* A request is a create the file system does not refuse, known by its     *)
(* name.  MPI, clients and the network are external.                       *)
(***************************************************************************)
EXTENDS Integers, FiniteSets

CONSTANTS comm_size, ports_per_rank, rpc_threads,
          Flags,             \* the command lines
          Requests, Target,  \* Target[q]: the port <<rank, i>> request q is sent to
          None

Rank == 0 .. comm_size - 1
Ports == 1 .. ports_per_rank
Svr == Rank \X Ports
Thread == 1 .. rpc_threads
MainThread == <<0, 0>>  \* where a handler runs; on a receiving thread, <<port, thread>>
Nobody == <<>>
Ok == "OK"
Fs == 0                 \* the file system and the db, next to the ports of a rank

ASSUME ServerJobAssumption ==
    /\ comm_size \in Nat \ {0} /\ ports_per_rank \in Nat \ {0}
    /\ rpc_threads \in Nat \ {0}
    /\ Flags \subseteq [rpc_worker_threads : Nat, faulty : BOOLEAN, signals : Nat]
    /\ IsFiniteSet(Requests) /\ Target \in [Requests -> Svr] /\ None \notin Thread

VARIABLES flags,        \* the command line of the job, and what may happen to it
          pc, port,     \* the main thread of a rank, and the port its loops are at
          entered,      \* barriers the rank has entered
          mu,           \* whether the main thread holds mu_
          shutting_down, signals, handler,  \* Interrupt: flag, signals so far, the
                                            \* thread that is in the handler
          svr,          \* the state of a port: see Init
          thr,          \* thr[s][t]: where a receiving thread is
          req, by,      \* where a request is, and the thread that has received it
          db, flushed,  \* names stored at a rank, and those a flush has made durable
          flush_status, \* what the flush returned, which the code drops
          alive,        \* the objects of a rank that exist
          imap          \* the info server: "closed", "empty" or "set"

mainVars == <<pc, port, entered>>
sigVars == <<mu, shutting_down, signals, handler>>
rpcVars == <<svr, thr>>
reqVars == <<req, by>>
dbVars == <<db, flushed, flush_status>>
vars == <<mainVars, sigVars, rpcVars, reqVars, dbVars, alive, imap>>

rpc_worker_threads == flags.rpc_worker_threads
Faulty == flags.faulty          \* whether dbs, ports, receives and flushes may fail
MaxSignals == flags.signals     \* bound: signals delivered to a rank

TypeOK ==
    /\ flags \in Flags
    /\ pc \in [Rank -> {"open", "openport", "bgstart", "info", "setinfo", "run",
                        "test", "sleep", "close", "bgstop", "flush", "flushed",
                        "delete", "done", "finalize"}]
    /\ port \in [Rank -> 1 .. ports_per_rank + 1]
    /\ entered \in [Rank -> 0 .. 3]
    /\ mu \in [Rank -> BOOLEAN] /\ shutting_down \in [Rank -> BOOLEAN]
    /\ signals \in [Rank -> 0 .. MaxSignals]
    /\ handler \in [Rank -> {Nobody, MainThread} \cup (Ports \X Thread)]
    /\ svr \in [Svr -> [bg_n : {0, rpc_threads}, bg_threads : 0 .. rpc_threads,
                        stop : BOOLEAN, failed : BOOLEAN, waiting : BOOLEAN,
                        bg_count : 0 .. Cardinality(Requests)]]
    /\ thr \in [Svr -> [Thread -> {"none", "new", "test", "recv", "eintr", "call",
                               "ended"}]]
    /\ req \in [Requests -> {"idle", "sent", "received", "queued", "running", "stored",
                             "acked"}]
    /\ by \in [Requests -> Thread \cup {None}]
    /\ db \in [Rank -> SUBSET Requests] /\ flushed \in [Rank -> SUBSET Requests]
    /\ flush_status \in [Rank -> {Ok, "error"}]
    /\ alive \in [Rank -> SUBSET ({Fs} \cup Ports)]
    /\ imap \in {"closed", "empty", "set"}

Init ==
    /\ flags \in Flags
    /\ pc = [r \in Rank |-> "open"] /\ port = [r \in Rank |-> 1]
    /\ entered = [r \in Rank |-> 0]
    /\ mu = [r \in Rank |-> FALSE] /\ shutting_down = [r \in Rank |-> FALSE]
    /\ signals = [r \in Rank |-> 0] /\ handler = [r \in Rank |-> Nobody]
    /\ svr = [s \in Svr |-> [bg_n |-> 0, bg_threads |-> 0, stop |-> FALSE,
                             failed |-> FALSE, waiting |-> FALSE, bg_count |-> 0]]
    /\ thr = [s \in Svr |-> [t \in Thread |-> "none"]]
    /\ req = [q \in Requests |-> "idle"] /\ by = [q \in Requests |-> None]
    /\ db = [r \in Rank |-> {}] /\ flushed = [r \in Rank |-> {}]
    /\ flush_status = [r \in Rank |-> Ok]
    /\ alive = [r \in Rank |-> {}]
    /\ imap = "closed"
-----------------------------------------------------------------------------
(* MPI.                                                                     *)
Enter(r) == entered' = [entered EXCEPT ![r] = @ + 1]
Passed(r) == \A i \in Rank : entered[i] >= entered[r]

\* A thread that is in the signal handler does nothing else.
Runs(r) == handler[r] # MainThread
RxRuns(s, t) == handler[s[1]] # <<s[2], t>>

Goto(r, label) == pc' = [pc EXCEPT ![r] = label]
-----------------------------------------------------------------------------
(* Opening.  A rank that fails calls MPI_Finalize.                          *)
OpenFilesystem(r) ==
    /\ pc[r] = "open" /\ Runs(r)
    /\ \/ Goto(r, "openport") /\ alive' = [alive EXCEPT ![r] = {Fs}]
       \/ Faulty /\ Goto(r, "finalize") /\ UNCHANGED alive
    /\ UNCHANGED <<port, entered, sigVars, rpcVars, reqVars, dbVars, imap>>

\* The socket is bound, and BGStart starts the threads and waits for them.
OpenServer(s) ==
    /\ svr' = [svr EXCEPT ![s].bg_n = @ + rpc_threads, ![s].waiting = TRUE]
    /\ thr' = [thr EXCEPT ![s] = [t \in Thread |-> "new"]]

\* A port that cannot be opened sends the rank to MPI_Finalize.
OpenPort(r) ==
    LET s == <<r, port[r]>>
    IN  /\ pc[r] = "openport" /\ port[r] <= ports_per_rank /\ Runs(r)
        /\ alive' = [alive EXCEPT ![r] = @ \cup {port[r]}]
        /\ \/ OpenServer(s) /\ Goto(r, "bgstart")
           \/ Faulty /\ Goto(r, "finalize") /\ UNCHANGED rpcVars
        /\ UNCHANGED <<port, entered, sigVars, reqVars, dbVars, imap>>

\* Woken, it tests its condition again.  The status decides what OpenPort does.
BGStart(r) ==
    LET s == <<r, port[r]>>
        started == svr[s].bg_threads >= svr[s].bg_n
    IN  /\ pc[r] = "bgstart" /\ ~svr[s].waiting /\ Runs(r)
        /\ svr' = [svr EXCEPT ![s].waiting = ~started]
        /\ port' = [port EXCEPT ![r] = IF started /\ ~svr[s].failed THEN @ + 1 ELSE @]
        /\ pc' = [pc EXCEPT ![r] = IF ~started THEN @
                                   ELSE IF svr[s].failed THEN "finalize" ELSE "openport"]
        /\ UNCHANGED <<entered, sigVars, thr, reqVars, dbVars, alive, imap>>

PortsOpen(r) ==
    /\ pc[r] = "openport" /\ port[r] > ports_per_rank /\ Runs(r)
    /\ Enter(r)
    /\ Goto(r, "info")
    /\ UNCHANGED <<port, sigVars, rpcVars, reqVars, dbVars, alive, imap>>

\* Behind the barrier rank 0 gathers the addresses and opens the info server, which
\* answers from here on; SetInfo is the next step.
OpenInfoPort(r) ==
    /\ pc[r] = "info" /\ Passed(r) /\ Runs(r)
    /\ \/ /\ Goto(r, IF r = 0 THEN "setinfo" ELSE "run")
          /\ imap' = IF r = 0 THEN "empty" ELSE imap
       \/ Faulty /\ r = 0 /\ Goto(r, "finalize") /\ UNCHANGED imap
    /\ UNCHANGED <<port, entered, sigVars, rpcVars, reqVars, dbVars, alive>>

SetInfo(r) ==
    /\ pc[r] = "setinfo" /\ Runs(r)
    /\ imap' = "set"
    /\ Goto(r, "run")
    /\ UNCHANGED <<port, entered, sigVars, rpcVars, reqVars, dbVars, alive>>
-----------------------------------------------------------------------------
(* Waiting for the signal, and closing.                                     *)
\* mu_ is locked, and again when cv_.Wait() returns.
LockMu(r) ==
    /\ pc[r] = "run" /\ Runs(r)
    /\ mu' = [mu EXCEPT ![r] = TRUE]
    /\ Goto(r, "test")
    /\ UNCHANGED <<port, entered, shutting_down, signals, handler, rpcVars, reqVars, dbVars,
                   alive, imap>>

\* The loop around cv_.Wait(), which releases mu_; infosvr_->Close() when it is left.
WaitForSignal(r) ==
    /\ pc[r] = "test" /\ Runs(r)
    /\ mu' = [mu EXCEPT ![r] = shutting_down[r]]
    /\ Goto(r, IF shutting_down[r] THEN "close" ELSE "sleep")
    /\ imap' = IF shutting_down[r] /\ r = 0 THEN "closed" ELSE imap
    /\ port' = [port EXCEPT ![r] = 1]
    /\ UNCHANGED <<entered, shutting_down, signals, handler, rpcVars, reqVars, dbVars, alive>>

\* Mutant: the receiving threads are not waited for.
CloseUnwaited(r) ==
    LET s == <<r, port[r]>>
    IN  /\ pc[r] = "close" /\ port[r] <= ports_per_rank /\ Runs(r)
        /\ svr' = [svr EXCEPT ![s].stop = TRUE]
        /\ port' = [port EXCEPT ![r] = @ + 1]
        /\ UNCHANGED <<pc, entered, sigVars, thr, reqVars, dbVars, alive, imap>>
\* FilesystemServer::Close: BGStop, one port after the other.
Close(r) ==
    LET s == <<r, port[r]>>
    IN  /\ pc[r] = "close" /\ port[r] <= ports_per_rank /\ Runs(r)
        /\ svr' = [svr EXCEPT ![s].stop = TRUE, ![s].waiting = svr[s].bg_threads # 0]
        /\ Goto(r, "bgstop")
        /\ UNCHANGED <<port, entered, sigVars, thr, reqVars, dbVars, alive, imap>>

BGStop(r) ==
    LET s == <<r, port[r]>>
        stopped == svr[s].bg_threads = 0
    IN  /\ pc[r] = "bgstop" /\ ~svr[s].waiting /\ Runs(r)
        /\ svr' = [svr EXCEPT ![s].waiting = ~stopped]
        /\ Goto(r, IF stopped THEN "close" ELSE "bgstop")
        /\ port' = [port EXCEPT ![r] = IF stopped THEN @ + 1 ELSE @]
        /\ UNCHANGED <<entered, sigVars, thr, reqVars, dbVars, alive, imap>>

PortsClosed(r) ==
    /\ pc[r] = "close" /\ port[r] > ports_per_rank /\ Runs(r)
    /\ Enter(r)
    /\ Goto(r, "flush")
    /\ UNCHANGED <<port, sigVars, rpcVars, reqVars, dbVars, alive, imap>>

\* There is no log (disable_write_ahead_logging): what is in the memtable is lost, all
\* of it when the flush fails.
Flush(r) ==
    /\ pc[r] = "flush" /\ Passed(r) /\ Runs(r)
    /\ \/ flushed' = [flushed EXCEPT ![r] = db[r]] /\ UNCHANGED flush_status
       \/ /\ Faulty
          /\ flush_status' = [flush_status EXCEPT ![r] = "error"]
          /\ UNCHANGED flushed
    /\ Enter(r)
    /\ Goto(r, "flushed")
    /\ UNCHANGED <<port, sigVars, rpcVars, reqVars, db, alive, imap>>

\* Run returns, which unlocks mu_, and ~Server begins.
Finish(r) ==
    /\ pc[r] = "flushed" /\ Passed(r) /\ Runs(r)
    /\ mu' = [mu EXCEPT ![r] = FALSE]
    /\ port' = [port EXCEPT ![r] = 1]
    /\ Goto(r, "delete")
    /\ UNCHANGED <<entered, shutting_down, signals, handler, rpcVars, reqVars, dbVars, alive,
                   imap>>

\* Mutant: the calls in the pool are not waited for.
DeletePortUnwaited(r) ==
    /\ pc[r] = "delete" /\ port[r] <= ports_per_rank /\ Runs(r)
    /\ alive' = [alive EXCEPT ![r] = @ \ {port[r]}]
    /\ port' = [port EXCEPT ![r] = @ + 1]
    /\ UNCHANGED <<pc, entered, sigVars, rpcVars, reqVars, dbVars, imap>>
\* ~FilesystemServer: ~PosixUDPServer waits until the pool has processed all calls.
DeletePort(r) ==
    LET s == <<r, port[r]>>
        idle == svr[s].bg_count = 0
    IN  /\ pc[r] = "delete" /\ port[r] <= ports_per_rank /\ ~svr[s].waiting /\ Runs(r)
        /\ svr' = [svr EXCEPT ![s].waiting = ~idle]
        /\ alive' = [alive EXCEPT ![r] = IF idle THEN @ \ {port[r]} ELSE @]
        /\ port' = [port EXCEPT ![r] = IF idle THEN @ + 1 ELSE @]
        /\ UNCHANGED <<pc, entered, sigVars, thr, reqVars, dbVars, imap>>

DeleteFs(r) ==
    /\ pc[r] = "delete" /\ port[r] > ports_per_rank /\ Runs(r)
    /\ alive' = [alive EXCEPT ![r] = @ \ {Fs}]
    /\ Goto(r, "done")
    /\ UNCHANGED <<port, entered, sigVars, rpcVars, reqVars, dbVars, imap>>
-----------------------------------------------------------------------------
(* The signal handler.                                                      *)
\* A receiving thread may be in poll(), which then fails with EINTR, or next to it.
Deliver(r, t) ==
    /\ signals[r] < MaxSignals /\ handler[r] = Nobody
    /\ pc[r] \notin {"done", "finalize"}
    /\ \/ t = MainThread
       \/ t # MainThread /\ thr[<<r, t[1]>>][t[2]] \notin {"none", "eintr", "ended"}
    /\ signals' = [signals EXCEPT ![r] = @ + 1]
    /\ handler' = [handler EXCEPT ![r] = t]
    /\ \/ UNCHANGED thr
       \/ /\ t # MainThread /\ thr[<<r, t[1]>>][t[2]] = "recv"
          /\ thr' = [thr EXCEPT ![<<r, t[1]>>][t[2]] = "eintr"]
    /\ UNCHANGED <<mainVars, mu, shutting_down, svr, reqVars, dbVars, alive, imap>>

\* Mutant: the main thread is not signalled.
InterruptQuietly(r) ==
    /\ handler[r] # Nobody /\ ~mu[r]
    /\ shutting_down' = [shutting_down EXCEPT ![r] = TRUE]
    /\ handler' = [handler EXCEPT ![r] = Nobody]
    /\ UNCHANGED <<mainVars, mu, signals, rpcVars, reqVars, dbVars, alive, imap>>
\* It locks mu_: the main thread must not hold it.
Interrupt(r) ==
    /\ handler[r] # Nobody /\ ~mu[r]
    /\ shutting_down' = [shutting_down EXCEPT ![r] = TRUE]
    /\ handler' = [handler EXCEPT ![r] = Nobody]
    /\ pc' = [pc EXCEPT ![r] = IF @ = "sleep" THEN "run" ELSE @]
    /\ UNCHANGED <<port, entered, mu, signals, rpcVars, reqVars, dbVars, alive, imap>>

HandlerBlocked(r) == handler[r] # Nobody /\ mu[r]
-----------------------------------------------------------------------------
(* A receiving thread.                                                      *)
SetThr(s, t, state) == thr' = [thr EXCEPT ![s][t] = state]

\* BGCall counts itself in and signals when all are there.
BGCall(s, t) ==
    /\ thr[s][t] = "new" /\ RxRuns(s, t)
    /\ SetThr(s, t, "test")
    /\ LET n == svr[s].bg_threads + 1
       IN  svr' = [svr EXCEPT ![s].bg_threads = n,
                              ![s].waiting = @ /\ n # svr[s].bg_n]
    /\ UNCHANGED <<mainVars, sigVars, reqVars, dbVars, alive, imap>>

\* BGLoop has returned: the thread counts itself out and signals when it is the last.
BGCallEnds(s, t, failed) ==
    /\ SetThr(s, t, "ended")
    /\ svr' = [svr EXCEPT ![s].bg_threads = @ - 1, ![s].failed = @ \/ failed,
                          ![s].waiting = @ /\ svr[s].bg_threads # 1]

BGLoop(s, t) ==
    /\ thr[s][t] = "test" /\ RxRuns(s, t)
    /\ IF svr[s].stop THEN BGCallEnds(s, t, FALSE)
       ELSE SetThr(s, t, "recv") /\ UNCHANGED svr
    /\ UNCHANGED <<mainVars, sigVars, reqVars, dbVars, alive, imap>>

\* recvfrom finds a message: HandleIncomingCall gives it to the pool or makes the call.
Recv(s, t, q) ==
    /\ thr[s][t] = "recv" /\ RxRuns(s, t)
    /\ req[q] = "sent" /\ Target[q] = s
    /\ IF rpc_worker_threads > 0
       THEN /\ svr' = [svr EXCEPT ![s].bg_count = @ + 1]
            /\ req' = [req EXCEPT ![q] = "queued"]
            /\ SetThr(s, t, "test")
            /\ UNCHANGED by
       ELSE /\ req' = [req EXCEPT ![q] = "received"]
            /\ by' = [by EXCEPT ![q] = t]
            /\ SetThr(s, t, "call")
            /\ UNCHANGED svr
    /\ UNCHANGED <<mainVars, sigVars, dbVars, alive, imap>>

\* poll times out, or recvfrom or poll fails, as poll does when a signal has come.
Poll(s, t) ==
    /\ thr[s][t] \in {"recv", "eintr"} /\ RxRuns(s, t)
    /\ \/ thr[s][t] = "recv" /\ SetThr(s, t, "test") /\ UNCHANGED svr
       \/ (thr[s][t] = "eintr" \/ Faulty) /\ BGCallEnds(s, t, TRUE)
    /\ UNCHANGED <<mainVars, sigVars, reqVars, dbVars, alive, imap>>

Running(s) == {q \in Requests : Target[q] = s /\ req[q] \in {"running", "stored"}}

\* A thread of the pool takes a call.
BGThread(s, q) ==
    /\ req[q] = "queued" /\ Target[q] = s
    /\ Cardinality(Running(s)) < rpc_worker_threads
    /\ req' = [req EXCEPT ![q] = "running"]
    /\ UNCHANGED <<mainVars, sigVars, rpcVars, by, dbVars, alive, imap>>

\* ProcessCall: the name is put, and the reply sent when that has returned.
Put(s, q) ==
    /\ Target[q] = s /\ req[q] \in {"received", "running"}
    /\ by[q] # None => RxRuns(s, by[q])
    /\ db' = [db EXCEPT ![s[1]] = @ \cup {q}]
    /\ req' = [req EXCEPT ![q] = "stored"]
    /\ UNCHANGED <<mainVars, sigVars, rpcVars, by, flushed, flush_status, alive, imap>>

\* The thread goes back to its loop; ProcessCallWrapper counts the item out.
Reply(s, q) ==
    /\ Target[q] = s /\ req[q] = "stored"
    /\ req' = [req EXCEPT ![q] = "acked"]
    /\ by' = [by EXCEPT ![q] = None]
    /\ IF by[q] # None
       THEN RxRuns(s, by[q]) /\ SetThr(s, by[q], "test") /\ UNCHANGED svr
       ELSE /\ svr' = [svr EXCEPT ![s].bg_count = @ - 1,
                                  ![s].waiting = @ /\ svr[s].bg_count # 1]
            /\ UNCHANGED thr
    /\ UNCHANGED <<mainVars, sigVars, dbVars, alive, imap>>

\* A client that has the map of the servers sends a request.
Send(q) ==
    /\ req[q] = "idle" /\ imap = "set"
    /\ req' = [req EXCEPT ![q] = "sent"]
    /\ UNCHANGED <<mainVars, sigVars, rpcVars, by, dbVars, alive, imap>>
-----------------------------------------------------------------------------
Main(r) == \/ OpenFilesystem(r) \/ OpenPort(r) \/ BGStart(r) \/ PortsOpen(r)
           \/ OpenInfoPort(r) \/ SetInfo(r) \/ LockMu(r) \/ WaitForSignal(r)
           \/ Close(r) \/ BGStop(r) \/ PortsClosed(r) \/ Flush(r) \/ Finish(r)
           \/ DeletePort(r) \/ DeleteFs(r)

Rx(s, t) == BGCall(s, t) \/ BGLoop(s, t) \/ Poll(s, t) \/ \E q \in Requests : Recv(s, t, q)

Worker(s, q) == BGThread(s, q) \/ Put(s, q) \/ Reply(s, q)

Next ==
    /\ UNCHANGED flags
    /\ \/ \E r \in Rank : \/ Main(r) \/ Interrupt(r)
                         \/ \E t \in {MainThread} \cup (Ports \X Thread) : Deliver(r, t)
       \/ \E s \in Svr : \/ \E t \in Thread : Rx(s, t)
                         \/ \E q \in Requests : Worker(s, q)
       \/ \E q \in Requests : Send(q)

\* Threads run.  Signals need not come, requests need not be sent.
Fairness ==
    /\ \A r \in Rank : WF_vars(Main(r)) /\ WF_vars(Interrupt(r))
    /\ \A s \in Svr : /\ \A t \in Thread : WF_vars(Rx(s, t))
                      /\ \A q \in Requests : WF_vars(Worker(s, q))

Spec == Init /\ [][Next]_<<flags, vars>> /\ Fairness
-----------------------------------------------------------------------------
\* A create that was acknowledged is not lost: when a rank has flushed its db, the
\* names its clients were told are there are in it.  Close waits for the threads that
\* receive calls, which make them as well, unless there is a pool: BGStop does not wait
\* for that, and what it has left to do is done, and acknowledged, after the flush.  Nor
\* does it hold where the flush has failed: Run drops its status, and all is lost.
AckedFlushed ==
    rpc_worker_threads = 0 =>
        \A r \in Rank : pc[r] \in {"flushed", "delete", "done"} /\ flush_status[r] = Ok =>
            {q \in Requests : Target[q][1] = r /\ req[q] = "acked"} \subseteq flushed[r]

\* Nobody runs a call on a server, a file system or a db that is not there: ~Server
\* deletes the ports first, and these wait for their pools.
NoUseAfterFree ==
    \A q \in Requests : req[q] \in {"received", "queued", "running", "stored"} =>
        {Target[q][2], Fs} \subseteq alive[Target[q][1]]

\* BGStart waits for all threads to be there at once: one that has failed and gone, as
\* a signal makes it do, is waited for in vain.
BGStartHangs(r) ==
    pc[r] = "bgstart" /\ \E t \in Thread : thr[<<r, port[r]>>][t] = "ended"

\* When every rank has been sent its signal, all of them end, although threads fail:
\* neither a barrier nor a wait for threads or calls lasts for ever.  Excepted is a rank
\* that stays for good where the code leaves it: a handler that finds mu_ held by the
\* main thread blocks the thread it runs on, BGStart may hang, and a rank that cannot
\* open goes to MPI_Finalize while the others are in MPI_Barrier.
Terminates ==
    (\A r \in Rank : signals[r] > 0)
        ~> \/ \A r \in Rank : pc[r] = "done"
           \/ \E r \in Rank : [](HandlerBlocked(r) \/ BGStartHangs(r) \/ pc[r] = "finalize")
=============================================================================
