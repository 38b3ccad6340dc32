------------------------------ MODULE ClientJob ------------------------------
(***************************************************************************)
(* The client job (deltafs_bm_cli.cc): rank 0 gets the map of the servers  *)
(* and shares it, every rank opens the file system, a directory is made    *)
(* for each rank or for all of them, and all create files in it and stat   *)
(* them, phase by phase, while a thread per rank may send statistics.      *)
(*                                                                         *)
(* The file system is what the other modules are about; here it is the set *)
(* of names that exist, and calls that may fail.  MPI is external.         *)
(***************************************************************************)
EXTENDS Integers, FiniteSets

CONSTANTS comm_size, n, writes, reads, write_phases, read_phases,
          random_order,
          mon,       \* whether there is a monitoring thread
          Flags,     \* the command lines
          Shift,     \* bound: stands for 2^32 in Compose
          Faults     \* the calls that may fail

Rank == 0 .. comm_size - 1
Fids == 0 .. n - 1

ASSUME ClientJobAssumption ==
    /\ comm_size \in Nat \ {0} /\ n \in Nat
    /\ writes \in 0 .. n /\ reads \in 0 .. n
    /\ write_phases \in Nat /\ read_phases \in Nat
    /\ {random_order, mon} \subseteq BOOLEAN
    /\ Flags \subseteq [share_dir : BOOLEAN, fs_use_local : BOOLEAN, abort_on_errors : BOOLEAN,
                        method : {"mkfle", "batch", "bulk"}]
    /\ Shift \in Nat /\ n <= Shift /\ comm_size <= Shift
    /\ Faults \subseteq {"map", "open", "prepare", "mon", "init", "op", "commit"}

VARIABLES flags,        \* the command line of the job, the same at every rank
          pc, phase,    \* where a rank is, and the phases it has begun
          entered,      \* barriers and broadcasts the rank has entered
          map,          \* the map of the servers: "none", "good" or "bad"
          dirs, names,  \* directories and files that exist
          handle, pend, \* the batch or bulk handle, and the names inserted through it
          used,         \* fids done in this phase
          failed,       \* calls that returned an error
          thread, is_mon_running, mon_done,  \* MonitorBody and its MonitorArg
          aborted       \* the job is gone: MPI_Abort, or a rank has crashed

monVars == <<thread, is_mon_running, mon_done>>
fsVars == <<dirs, names, handle, pend, used>>
vars == <<pc, phase, entered, map, fsVars, failed, monVars, aborted>>

share_dir == flags.share_dir
fs_use_local == flags.fs_use_local
abort_on_errors == flags.abort_on_errors
Method == flags.method   \* how files are made

\* Directories of different local file systems are different.
Dir(r) == IF share_dir /\ ~fs_use_local THEN 0 ELSE r

\* Mutant: the rank is not in the name.
ComposeFid(pid, fid) == fid
\* The name of a file; directories are apart when they are not shared.
Compose(pid, fid) == IF share_dir THEN fid * Shift + pid ELSE pid * Shift + fid

TypeOK ==
    /\ flags \in Flags
    /\ pc \in [Rank -> {"map", "bcast", "open", "prepare", "mon", "monwait", "phase",
                        "start", "step", "stop", "mondone", "done", "finalize"}]
    /\ phase \in [Rank -> 0 .. write_phases + read_phases]
    /\ entered \in [Rank -> 0 .. 2 * (write_phases + read_phases) + 1]
    /\ map \in {"none", "good", "bad"}
    /\ dirs \subseteq Rank /\ names \subseteq Rank \X Nat
    /\ handle \in [Rank -> {"none", "null", "open"}]
    /\ pend \in [Rank -> SUBSET (Rank \X Nat)] /\ used \in [Rank -> SUBSET Fids]
    /\ failed \in [Rank -> SUBSET Faults]
    /\ thread \in [Rank -> {"none", "new", "run", "failed", "ended"}]
    /\ is_mon_running \in [Rank -> BOOLEAN] /\ mon_done \in [Rank -> BOOLEAN]
    /\ aborted \in BOOLEAN

Init ==
    /\ flags \in Flags
    /\ pc = [r \in Rank |-> IF fs_use_local THEN "open" ELSE "map"]
    /\ phase = [r \in Rank |-> 0] /\ entered = [r \in Rank |-> 0]
    /\ map = "none"
    /\ dirs = {} /\ names = {}
    /\ handle = [r \in Rank |-> "none"]
    /\ pend = [r \in Rank |-> {}] /\ used = [r \in Rank |-> {}]
    /\ failed = [r \in Rank |-> {}]
    /\ thread = [r \in Rank |-> "none"]
    /\ is_mon_running = [r \in Rank |-> FALSE] /\ mon_done = [r \in Rank |-> FALSE]
    /\ aborted = FALSE
-----------------------------------------------------------------------------
Goto(r, label) == pc' = [pc EXCEPT ![r] = label]
At(r, label) == ~aborted /\ pc[r] = label
Enter(r) == entered' = [entered EXCEPT ![r] = @ + 1]
Passed(r) == \A i \in Rank : entered[i] >= entered[r]

\* A call of rank r fails; die says whether the rank aborts the job.
Fails(r, call, die) ==
    /\ call \in Faults
    /\ failed' = [failed EXCEPT ![r] = @ \cup {call}]
    /\ aborted' = die

\* Rank 0 asks the info server, which may answer before its map is set, and broadcasts.
ObtainSvrMap(r) ==
    /\ At(r, "map")
    /\ IF r = 0 THEN \/ map' = "good" /\ UNCHANGED <<failed, aborted>>
                     \/ "map" \in Faults /\ map' = "bad" /\ UNCHANGED <<failed, aborted>>
                     \/ Fails(r, "map", TRUE) /\ UNCHANGED map
       ELSE UNCHANGED <<map, failed, aborted>>
    /\ IF aborted' THEN UNCHANGED <<pc, entered>> ELSE Goto(r, "bcast") /\ Enter(r)
    /\ UNCHANGED <<phase, fsVars, monVars>>

ParseMapData(r) ==
    /\ At(r, "bcast") /\ entered[0] >= entered[r]
    /\ Goto(r, IF map = "good" THEN "open" ELSE "finalize")
    /\ UNCHANGED <<phase, entered, map, fsVars, failed, monVars, aborted>>

\* OpenLocal, or Open, which cannot fail.
Open(r) ==
    /\ At(r, "open")
    /\ \/ Goto(r, "prepare") /\ UNCHANGED <<failed, aborted>>
       \/ fs_use_local /\ Fails(r, "open", TRUE) /\ UNCHANGED pc
    /\ UNCHANGED <<phase, entered, map, fsVars, monVars>>

\* The directory is made by rank 0 if all share it.
PrepareRun(r) ==
    /\ At(r, "prepare")
    /\ IF ~share_dir \/ fs_use_local \/ r = 0
       THEN \/ Goto(r, "mon") /\ dirs' = dirs \cup {Dir(r)} /\ UNCHANGED <<failed, aborted>>
            \/ Fails(r, "prepare", FALSE) /\ Goto(r, "finalize") /\ UNCHANGED dirs
       ELSE Goto(r, "mon") /\ UNCHANGED <<dirs, failed, aborted>>
    /\ UNCHANGED <<phase, entered, map, names, handle, pend, used, monVars>>

\* The monitoring thread is started, and waited for.
StartMonitor(r) ==
    /\ At(r, "mon")
    /\ Goto(r, IF mon THEN "monwait" ELSE "phase")
    /\ thread' = [thread EXCEPT ![r] = IF mon THEN "new" ELSE @]
    /\ UNCHANGED <<phase, entered, map, fsVars, failed, is_mon_running, mon_done, aborted>>

MonitorRuns(r) ==
    /\ At(r, "monwait") /\ is_mon_running[r]
    /\ Goto(r, "phase")
    /\ UNCHANGED <<phase, entered, map, fsVars, failed, monVars, aborted>>
-----------------------------------------------------------------------------
(* RunSteps: the write phases, then the read phases.                        *)
Writing(r) == phase[r] <= write_phases
Ops(r) == IF Writing(r) THEN writes ELSE reads

\* RunWrites and RunReads: a phase without operations is skipped.  RunStep enters the
\* first barrier.
BeginPhase(r) ==
    /\ At(r, "phase") /\ phase[r] < write_phases + read_phases
    /\ phase' = [phase EXCEPT ![r] = @ + 1]
    /\ LET ops == IF phase[r] < write_phases THEN writes ELSE reads
       IN  IF ops = 0 THEN UNCHANGED <<pc, entered>> ELSE Goto(r, "start") /\ Enter(r)
    /\ used' = [used EXCEPT ![r] = {}]
    /\ UNCHANGED <<map, dirs, names, handle, pend, failed, monVars, aborted>>

\* Mutant: the barrier is not waited for.
StartStepEarly(r) ==
    /\ At(r, "start")
    /\ Goto(r, "step")
    /\ UNCHANGED <<phase, entered, map, fsVars, failed, monVars, aborted>>
\* The barrier is passed; DoBk and DoBatchedWrites begin with BulkInit or BatchInit,
\* whose status they do not look at.
StartStep(r) ==
    /\ At(r, "start") /\ Passed(r)
    /\ Goto(r, "step")
    /\ IF Writing(r) /\ Method # "mkfle"
       THEN \/ /\ handle' = [handle EXCEPT ![r] = "open"]
               /\ UNCHANGED <<failed, aborted>>
            \/ /\ handle' = [handle EXCEPT ![r] = "null"]
               /\ Fails(r, "init", FALSE)
       ELSE UNCHANGED <<handle, failed, aborted>>
    /\ UNCHANGED <<phase, entered, map, dirs, names, pend, used, monVars>>

\* random_shuffle leaves any order of the fids.
NextFids(r) == {f \in Fids \ used[r] : random_order \/ f = Cardinality(used[r])}

\* One turn of the loops.  A call that fails may have had its effect: the reply may be
\* lost, or what fails is the write of the file's data.
Succeeds == UNCHANGED <<failed, aborted>>
OpFails(r) == Fails(r, "op", abort_on_errors)

DoWrites(r, name) ==
    /\ \/ names' = names \cup {name} /\ (Succeeds \/ OpFails(r))
       \/ OpFails(r) /\ UNCHANGED names
    /\ UNCHANGED pend

\* DoBk is the same.  An insertion through a handle that was never made crashes.
DoBatchedWrites(r, name) ==
    /\ \/ handle[r] = "null" /\ aborted' = TRUE /\ UNCHANGED <<pend, failed>>
       \/ /\ handle[r] = "open"
          /\ \/ pend' = [pend EXCEPT ![r] = @ \cup {name}] /\ (Succeeds \/ OpFails(r))
             \/ OpFails(r) /\ UNCHANGED pend
    /\ UNCHANGED names

DoReads(r) == (Succeeds \/ OpFails(r)) /\ UNCHANGED <<names, pend>>

Op(r, f) ==
    /\ At(r, "step") /\ Cardinality(used[r]) < Ops(r) /\ f \in NextFids(r)
    /\ used' = [used EXCEPT ![r] = @ \cup {f}]
    /\ LET name == <<Dir(r), Compose(r, f)>>
       IN  IF ~Writing(r) THEN DoReads(r)
           ELSE IF Method = "mkfle" THEN DoWrites(r, name) ELSE DoBatchedWrites(r, name)
    /\ UNCHANGED <<pc, phase, entered, map, dirs, handle, monVars>>

\* BatchCommit or BulkCommit, Destroy, and, on a local file system, the flush of the
\* db; then the second barrier.
EndStep(r) ==
    /\ At(r, "step") /\ Cardinality(used[r]) = Ops(r)
    /\ \/ names' = names \cup pend[r] /\ UNCHANGED <<failed, aborted>>
       \/ /\ handle[r] = "open" /\ Fails(r, "commit", abort_on_errors)
          /\ \E some \in SUBSET pend[r] : names' = names \cup some
    /\ handle' = [handle EXCEPT ![r] = "none"] /\ pend' = [pend EXCEPT ![r] = {}]
    /\ Goto(r, "stop") /\ Enter(r)
    /\ UNCHANGED <<phase, map, dirs, used, monVars>>

\* SleepingBarrier is passed and the statistics are reduced.
StepDone(r) ==
    /\ At(r, "stop") /\ Passed(r)
    /\ Goto(r, "phase")
    /\ UNCHANGED <<phase, entered, map, fsVars, failed, monVars, aborted>>

StopMonitor(r) ==
    /\ At(r, "phase") /\ phase[r] = write_phases + read_phases
    /\ mon_done' = [mon_done EXCEPT ![r] = mon]
    /\ Goto(r, "mondone")
    /\ UNCHANGED <<phase, entered, map, fsVars, failed, thread, is_mon_running, aborted>>

\* RunSteps returns, and MonitorArg with it.
RunStepsDone(r) ==
    /\ At(r, "mondone") /\ ~is_mon_running[r]
    /\ Goto(r, "done")
    /\ UNCHANGED <<phase, entered, map, fsVars, failed, monVars, aborted>>

\* MonitorBody: it returns at once if it cannot connect; when it is told to end it
\* says so.
MonitorConnects(r) ==
    /\ ~aborted /\ thread[r] = "new"
    /\ \/ /\ thread' = [thread EXCEPT ![r] = "run"]
          /\ is_mon_running' = [is_mon_running EXCEPT ![r] = TRUE]
       \/ /\ "mon" \in Faults
          /\ thread' = [thread EXCEPT ![r] = "failed"]
          /\ UNCHANGED is_mon_running
    /\ UNCHANGED <<pc, phase, entered, map, fsVars, failed, mon_done, aborted>>

\* Mutant: the thread does not say that it has ended.
MonitorEndsQuietly(r) ==
    /\ ~aborted /\ thread[r] = "run" /\ mon_done[r]
    /\ thread' = [thread EXCEPT ![r] = "ended"]
    /\ UNCHANGED <<pc, phase, entered, map, fsVars, failed, is_mon_running, mon_done, aborted>>
MonitorEnds(r) ==
    /\ ~aborted /\ thread[r] = "run" /\ mon_done[r]
    /\ thread' = [thread EXCEPT ![r] = "ended"]
    /\ is_mon_running' = [is_mon_running EXCEPT ![r] = FALSE]
    /\ UNCHANGED <<pc, phase, entered, map, fsVars, failed, mon_done, aborted>>
-----------------------------------------------------------------------------
Main(r) == \/ ObtainSvrMap(r) \/ ParseMapData(r) \/ Open(r) \/ PrepareRun(r)
           \/ StartMonitor(r) \/ MonitorRuns(r) \/ BeginPhase(r) \/ StartStep(r)
           \/ \E f \in Fids : Op(r, f)
           \/ EndStep(r) \/ StepDone(r) \/ StopMonitor(r) \/ RunStepsDone(r)

Monitor(r) == MonitorConnects(r) \/ MonitorEnds(r)

Next == UNCHANGED flags /\ \E r \in Rank : Main(r) \/ Monitor(r)

\* Threads run, and calls return.
Fairness == \A r \in Rank : WF_vars(Main(r)) /\ WF_vars(Monitor(r))

Spec == Init /\ [][Next]_<<flags, vars>> /\ Fairness
-----------------------------------------------------------------------------
\* Nobody creates or stats in a directory that does not exist yet: the ranks that did
\* not make the shared directory are held back by the barrier of RunStep.
DirReady == \A r \in Rank : pc[r] \in {"step", "stop"} => Dir(r) \in dirs

\* After a write phase in which nothing failed, the names of all ranks are there, all
\* different, whether they share a directory or not and however they were made.
AllNamesThere ==
    (/\ write_phases > 0 /\ writes = n
     /\ \A r \in Rank : failed[r] = {}
     /\ \E r \in Rank : pc[r] = "phase" /\ phase[r] = write_phases)
        => Cardinality(names) = comm_size * writes

\* All ranks end, or the job is aborted.  Excepted is a rank that has left for
\* MPI_Finalize on its own, and one whose monitoring thread could not connect and
\* therefore never says that it runs.
Terminates ==
    <>(\/ aborted
       \/ \A r \in Rank : pc[r] = "done"
       \/ \E r \in Rank : pc[r] = "finalize" \/ thread[r] = "failed")
=============================================================================
