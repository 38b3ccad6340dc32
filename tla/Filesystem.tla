----------------------------- MODULE Filesystem -----------------------------
(***************************************************************************)
(* The DeltaFS metadata server (fs.cc, fs.h): rpc worker threads that call *)
(* the operations of one Filesystem object concurrently.                   *)
(*                                                                         *)
(* Two kinds of mutexes order the threads.  mutex_ protects the inode      *)
(* counter inoq_, the table dirs_ and the cache dlru_ of directory control *)
(* blocks; the mutex of a control block protects its busy flags.  A        *)
(* section of code that runs under one of them touches only what that      *)
(* mutex protects, so each section is one action.  The database calls in   *)
(* between run with no lock held and are actions of their own.             *)
(*                                                                         *)
(*   Begin     AcquireDir and the inode allocation, under mutex_           *)
(*   Reject    the lease and permission checks fail                        *)
(*   Enter     the first section under the control block's mutex           *)
(*   Wakeup    a spurious wakeup of the condition variable                 *)
(*   Retry     the rest of the wait loop, after the condition variable     *)
(*   Check     the DbGet of CheckAndPut                                    *)
(*   Put       the Put of CheckAndPut                                      *)
(*   BulkPut   the BulkInsert of Bukin1                                    *)
(*   Read      the DbGet of Lstat1                                         *)
(*   Finish    the second section under the control block's mutex          *)
(*   Return    TryReuseIno and Release, under mutex_                       *)
(*   Close     ~Filesystem                                                 *)
(***************************************************************************)
EXTENDS Integers, Sequences, FiniteSets

CONSTANTS
    Thread,        \* threads that run operations
    DirId,         \* directories
    Name,          \* names within a directory
    Block,         \* addresses of directory control blocks
    NULL,          \* the null pointer
    kWays,         \* name subsets of a directory that are locked separately
    WayOf,         \* WayOf[n]: the subset of n, Hash(n) & (kWays - 1)
    Owned,         \* the <<dir, name>> that giga maps to this server
    ReadonlyDb,    \* what the chain of readonly dbs holds at <<dir, name>>
    DirLruSize,    \* options_.dir_lru_size
    SkipNameCollisionChecks,
    Request,       \* the calls the environment may make
    MaxCalls       \* bound: how many calls it makes in all

Ways == 0 .. kWays - 1

Slot == DirId \X Name

\* What a db holds at a name: the kind and the inode number of a Stat, or nothing.
Kind  == {"file", "dir"}
Stat  == [kind : Kind, ino : Nat]
NoEnt == [kind |-> "none", ino |-> 0]

SingleCreates == {"Mkfle", "Mkdir"}
Creates == SingleCreates \cup {"Mkfls"}
Reads   == {"Lokup", "Lstat"}
Ops     == Creates \cup Reads \cup {"Bukin"}

\* The outcome of the checks of the caller's lease (IsLeaseOk) and of its
\* permissions (IsDirWriteOk, IsLookupOk) is part of the call.
Verdict == {"ok", "expired", "denied"}

Call == [op : Ops, dir : DirId, names : Seq(Name), lease : Verdict]

Code == {"Pending", "OK", "AlreadyExists", "NotFound", "DirExpected", "IOError",
         "AccessDenied", "AssertionFailed"}

ASSUME FilesystemAssumption ==
    /\ IsFiniteSet(Thread)
    /\ NULL \notin Block
    /\ kWays \in Nat \ {0}
    /\ WayOf \in [Name -> Ways]
    /\ Owned \subseteq Slot
    /\ ReadonlyDb \in [Slot -> Stat \cup {NoEnt}]
    /\ DirLruSize \in Nat
    /\ SkipNameCollisionChecks \in BOOLEAN
    /\ Request # {}
    /\ \A r \in Request :
          /\ r \in Call
          /\ r.op \in SingleCreates \cup Reads => Len(r.names) = 1
    /\ MaxCalls \in Nat

VARIABLES
    db,        \* the writable db: a Stat or NoEnt at every <<dir, name>>
    inoq,      \* inoq_, the last inode number handed out
    dirs,      \* dirs_, the table of all control blocks in memory
    id, refs, cached,  \* dlru_: the dir of a block, its references, "in" the cache
    fetched,   \* the blocks whose directory index has been set up
    busy,      \* busy[b]: the name subsets of block b that are locked
    pc,        \* where each thread is
    req,       \* the call a thread runs, or ran last
    cb,        \* the control block a thread holds a reference to, or NULL
    startino,  \* the first of the inode numbers its call was given
    way,       \* it has locked the subsets it needs below this one
    m,         \* names created by its call so far
    code,      \* the status its call returns
    stat,      \* the stat a read returns
    calls,     \* calls made so far
    open       \* FALSE once ~Filesystem has run

dlru == INSTANCE RefCache WITH Entry <- Block, Key <- DirId,
                               Capacity <- DirLruSize, key <- id

cacheVars == <<id, refs, cached, dirs>>
blockVars == <<fetched, busy>>
callVars  == <<req, cb, startino>>
vars == <<db, inoq, cacheVars, blockVars, pc, callVars, way, m, code, stat,
          calls, open>>

PC == {"idle", "enter", "wait", "retry", "check", "put", "bulk", "read",
       "finish", "return"}

TypeOK ==
    /\ db \in [Slot -> Stat \cup {NoEnt}]
    /\ inoq \in Nat
    /\ dirs \in [DirId -> Block \cup {NULL}]
    /\ id \in [Block -> DirId]
    /\ refs \in [Block -> Nat]
    /\ cached \in SUBSET Block
    /\ fetched \in SUBSET Block
    /\ busy \in [Block -> SUBSET Ways]
    /\ pc \in [Thread -> PC]
    /\ req \in [Thread -> Request]
    /\ cb \in [Thread -> Block \cup {NULL}]
    /\ startino \in [Thread -> Nat]
    /\ way \in [Thread -> 0 .. kWays]
    /\ m \in [Thread -> Nat]
    /\ code \in [Thread -> Code]
    /\ stat \in [Thread -> Stat \cup {NoEnt}]
    /\ calls \in 0 .. MaxCalls
    /\ open \in BOOLEAN

Init ==
    /\ db = [s \in Slot |-> NoEnt]
    /\ inoq = 0
    /\ dirs = [d \in DirId |-> NULL]
    /\ dlru!Init
    /\ id = [b \in Block |-> CHOOSE d \in DirId : TRUE]
    /\ fetched = {}
    /\ busy = [b \in Block |-> {}]
    /\ pc = [t \in Thread |-> "idle"]
    /\ req = [t \in Thread |-> CHOOSE r \in Request : TRUE]
    /\ cb = [t \in Thread |-> NULL]
    /\ startino = [t \in Thread |-> 0]
    /\ way = [t \in Thread |-> 0]
    /\ m = [t \in Thread |-> 0]
    /\ code = [t \in Thread |-> "OK"]
    /\ stat = [t \in Thread |-> NoEnt]
    /\ calls = 0
    /\ open = TRUE
-----------------------------------------------------------------------------
(***************************************************************************)
(* Directory control blocks.                                               *)
(***************************************************************************)

\* The control blocks whose last reference goes in this step.
Freed == {b \in Block : refs[b] > 0 /\ refs'[b] = 0}

\* Mutant: the deleter forgets the table.
DeleteDirKeepsEntry(freed) == dirs

\* The deleter of the cache: a deleted control block leaves the table.
DeleteDir(freed) ==
    [d \in DirId |-> IF dirs[d] \in freed THEN NULL ELSE dirs[d]]

\* The block is in the cache.
AcquireCached(d, b) == /\ dlru!Lookup(d, b)
                       /\ UNCHANGED <<dirs, blockVars>>

\* Mutant: a hit in the table does not add a reference.
AcquireInUseNoRef(d, b) == /\ dlru!Miss(d)
                           /\ dirs[d] = b
                           /\ UNCHANGED <<cacheVars, blockVars>>

\* It is no longer in the cache, but some thread still uses it.
AcquireInUse(d, b) == /\ dlru!Miss(d)
                      /\ dirs[d] = b
                      /\ dlru!Ref(b)
                      /\ UNCHANGED <<dirs, blockVars>>

\* Mutant: a miss in the cache is taken for a miss in the table.
AcquireNewUnchecked(d, b) == /\ dlru!Miss(d)
                             /\ dlru!Insert(d, b)
                             /\ dirs' = [DeleteDir(Freed) EXCEPT ![d] = b]
                             /\ fetched' = fetched \ {b}
                             /\ busy' = [busy EXCEPT ![b] = {}]

\* There is none: allocate it, which may push an idle one out of the cache.
AcquireNew(d, b) == /\ dlru!Miss(d)
                    /\ dirs[d] = NULL
                    /\ dlru!Insert(d, b)
                    /\ dirs' = [DeleteDir(Freed) EXCEPT ![d] = b]
                    /\ fetched' = fetched \ {b}
                    /\ busy' = [busy EXCEPT ![b] = {}]

AcquireDir(d, b) == AcquireCached(d, b) \/ AcquireInUse(d, b) \/ AcquireNew(d, b)

ReleaseDir(b) == /\ dlru!Release(b)
                 /\ dirs' = DeleteDir(Freed)
                 /\ UNCHANGED blockVars
-----------------------------------------------------------------------------
(***************************************************************************)
(* Inode numbers.                                                          *)
(***************************************************************************)

\* How many inode numbers a call takes from inoq_.
InoCount(r) == IF r.op \in Creates THEN Len(r.names) ELSE 0

LastIno(t) == startino[t] + InoCount(req[t]) - 1

\* The calls turned down before they reach the loop over the names.
TurnedDown(t) == code[t] \in {"AccessDenied", "AssertionFailed"}

\* How many inode numbers a failed call tries to give back.  Mkfls computes it
\* from *n, which Mknos1 only sets once it has gone through the names.
Unused(t) == IF req[t].op = "Mkfls" /\ TurnedDown(t)
             THEN 0
             ELSE InoCount(req[t]) - m[t]

\* Mutant: inode numbers are taken back although later ones have been handed out.
TryReuseInoAlways(t) ==
    inoq' = IF req[t].op \in Creates /\ code[t] # "OK" THEN inoq - Unused(t) ELSE inoq

TryReuseIno(t) ==
    inoq' = IF /\ req[t].op \in Creates
               /\ code[t] # "OK"
               /\ LastIno(t) = inoq
            THEN inoq - Unused(t)
            ELSE inoq
-----------------------------------------------------------------------------
(***************************************************************************)
(* Locking name subsets.                                                   *)
(***************************************************************************)

\* Mutant: a batch locks the subset of its first name only.
NeedFirstOnly(r) == IF r.op \in Reads \/ r.names = <<>> THEN {} ELSE {WayOf[r.names[1]]}

\* Mutant: creating a directory locks nothing.
NeedNotForMkdir(r) == IF r.op = "Mkfle" THEN {WayOf[r.names[1]]}
                      ELSE IF r.op \in {"Mkfls", "Bukin"} THEN Ways
                      ELSE {}

\* Mknod1 locks the subset of its name; Mknos1 and Bukin1 lock all of them.
Need(r) == IF r.op \in SingleCreates THEN {WayOf[r.names[1]]}
           ELSE IF r.op \in {"Mkfls", "Bukin"} THEN Ways
           ELSE {}

\* Where a call goes once it has all it needs.
Locked(r) == IF r.op = "Bukin" THEN "bulk"
             ELSE IF r.names = <<>> THEN "finish"
             ELSE "check"

\* From way[t] on, lock in ascending order the subsets that t needs; sleep on the
\* condition variable of the block at the first one that is taken.
LockWays(t) ==
    LET b    == cb[t]
        todo == {w \in Need(req[t]) : w >= way[t]}
        held == todo \cap busy[b]
    IN \/ /\ held = {}
          /\ busy' = [busy EXCEPT ![b] = @ \cup todo]
          /\ way' = [way EXCEPT ![t] = kWays]
          /\ pc' = [pc EXCEPT ![t] = Locked(req[t])]
          /\ code' = [code EXCEPT ![t] =
                         IF Locked(req[t]) = "finish" THEN "OK" ELSE @]
       \/ \E w \in held :
             /\ \A x \in held : w <= x
             /\ busy' = [busy EXCEPT ![b] = @ \cup {x \in todo : x < w}]
             /\ way' = [way EXCEPT ![t] = w]
             /\ pc' = [pc EXCEPT ![t] = "wait"]
             /\ UNCHANGED code

\* The subsets a thread has locked.
Holds(t) == IF pc[t] \in {"wait", "retry", "check", "put", "bulk", "finish"}
            THEN {w \in Need(req[t]) : w < way[t]}
            ELSE {}

\* Mutant: a call that fails wakes nobody.
SignalOnSuccess(t, b) ==
    pc' = [u \in Thread |->
              IF u = t THEN "return"
              ELSE IF code[t] = "OK" /\ pc[u] = "wait" /\ cb[u] = b THEN "retry"
              ELSE pc[u]]

\* SignalAll: every thread asleep on block b goes back to test its loop condition.
SignalAll(t, b) ==
    pc' = [u \in Thread |->
              IF u = t THEN "return"
              ELSE IF pc[u] = "wait" /\ cb[u] = b THEN "retry"
              ELSE pc[u]]
-----------------------------------------------------------------------------
(***************************************************************************)
(* The database.                                                           *)
(***************************************************************************)

SlotOf(r, i) == <<r.dir, r.names[i]>>

\* DbGet: the writable db first, then the readonly ones.
DbGet(s) == IF db[s] # NoEnt THEN db[s] ELSE ReadonlyDb[s]

\* The stat a create stores for the name it is at.
NewStat(t) == [kind |-> IF req[t].op = "Mkdir" THEN "dir" ELSE "file",
               ino  |-> startino[t] + m[t]]

\* The slots a bulk insertion brings in; clients store no inode number there.
BulkSlots(r) == {SlotOf(r, i) : i \in DOMAIN r.names}
BulkStat == [kind |-> "file", ino |-> 0]
-----------------------------------------------------------------------------
(***************************************************************************)
(* The operations, step by step.                                           *)
(***************************************************************************)

Begin(t, r) ==
    /\ open
    /\ pc[t] = "idle"
    /\ calls < MaxCalls
    /\ \E b \in Block :
          /\ AcquireDir(r.dir, b)
          /\ cb' = [cb EXCEPT ![t] = b]
    /\ inoq' = inoq + InoCount(r)
    /\ startino' = [startino EXCEPT ![t] = inoq + 1]
    /\ req' = [req EXCEPT ![t] = r]
    /\ pc' = [pc EXCEPT ![t] = "enter"]
    /\ way' = [way EXCEPT ![t] = 0]
    /\ m' = [m EXCEPT ![t] = 0]
    /\ code' = [code EXCEPT ![t] = "Pending"]
    /\ stat' = [stat EXCEPT ![t] = NoEnt]
    /\ calls' = calls + 1
    /\ UNCHANGED <<db, open>>

\* The call returns with this status and has nothing to unlock.
Fail(t, c) == /\ code' = [code EXCEPT ![t] = c]
              /\ pc' = [pc EXCEPT ![t] = "return"]

Reject(t) ==
    /\ pc[t] = "enter"
    /\ \/ req[t].lease = "expired" /\ Fail(t, "AssertionFailed")
       \/ req[t].lease = "denied" /\ Fail(t, "AccessDenied")
    /\ UNCHANGED <<db, inoq, cacheVars, blockVars, callVars, way, m, stat, calls, open>>

\* Mknos1 and Bukin1 do not check that the names belong to this server.
WrongPartition(r) == /\ r.op \in SingleCreates \cup Reads
                     /\ SlotOf(r, 1) \notin Owned

Enter(t) ==
    /\ pc[t] = "enter"
    /\ req[t].lease = "ok"
    /\ fetched' = fetched \cup {cb[t]}
    /\ \/ /\ WrongPartition(req[t])
          /\ Fail(t, "AccessDenied")
          /\ UNCHANGED <<busy, way>>
       \/ /\ ~WrongPartition(req[t])
          /\ req[t].op \in Reads
          /\ pc' = [pc EXCEPT ![t] = "read"]
          /\ UNCHANGED <<busy, way, code>>
       \/ /\ ~WrongPartition(req[t])
          /\ req[t].op \notin Reads
          /\ LockWays(t)
    /\ UNCHANGED <<db, inoq, cacheVars, callVars, m, stat, calls, open>>

\* Mutant: "if" in place of "while" around the wait.
RetryUntested(t) ==
    /\ pc[t] = "retry"
    /\ busy' = [busy EXCEPT ![cb[t]] = @ \cup Need(req[t])]
    /\ way' = [way EXCEPT ![t] = kWays]
    /\ pc' = [pc EXCEPT ![t] = Locked(req[t])]
    /\ UNCHANGED <<db, inoq, cacheVars, fetched, callVars, m, code, stat, calls, open>>

\* A condition variable may wake a thread that nobody signalled.
Wakeup(t) ==
    /\ pc[t] = "wait"
    /\ pc' = [pc EXCEPT ![t] = "retry"]
    /\ UNCHANGED <<db, inoq, cacheVars, blockVars, callVars, way, m, code, stat,
                   calls, open>>

Retry(t) ==
    /\ pc[t] = "retry"
    /\ LockWays(t)
    /\ UNCHANGED <<db, inoq, cacheVars, fetched, callVars, m, stat, calls, open>>

\* The call is done with the db and goes to unlock.
Done(t, c) == /\ code' = [code EXCEPT ![t] = c]
              /\ pc' = [pc EXCEPT ![t] = "finish"]

Check(t) ==
    /\ pc[t] = "check"
    /\ LET s == SlotOf(req[t], m[t] + 1)
       IN \/ /\ SkipNameCollisionChecks \/ DbGet(s) = NoEnt
             /\ pc' = [pc EXCEPT ![t] = "put"]
             /\ UNCHANGED code
          \/ /\ ~SkipNameCollisionChecks
             /\ DbGet(s) # NoEnt
             /\ Done(t, "AlreadyExists")
          \/ /\ ~SkipNameCollisionChecks
             /\ Done(t, "IOError")
    /\ UNCHANGED <<db, inoq, cacheVars, blockVars, callVars, way, m, stat, calls, open>>

Put(t) ==
    /\ pc[t] = "put"
    /\ \/ /\ db' = [db EXCEPT ![SlotOf(req[t], m[t] + 1)] = NewStat(t)]
          /\ m' = [m EXCEPT ![t] = @ + 1]
          /\ \/ m[t] + 1 = Len(req[t].names) /\ Done(t, "OK")
             \/ /\ m[t] + 1 < Len(req[t].names)
                /\ pc' = [pc EXCEPT ![t] = "check"]
                /\ UNCHANGED code
       \/ Done(t, "IOError") /\ UNCHANGED <<db, m>>
    /\ UNCHANGED <<inoq, cacheVars, blockVars, callVars, way, stat, calls, open>>

BulkPut(t) ==
    /\ pc[t] = "bulk"
    /\ \/ /\ db' = [s \in Slot |-> IF s \in BulkSlots(req[t]) THEN BulkStat ELSE db[s]]
          /\ Done(t, "OK")
       \/ Done(t, "IOError") /\ UNCHANGED db
    /\ UNCHANGED <<inoq, cacheVars, blockVars, callVars, way, m, stat, calls, open>>

\* Lokup1 only returns directories.
Read(t) ==
    /\ pc[t] = "read"
    /\ LET found == DbGet(SlotOf(req[t], 1))
       IN \/ /\ found = NoEnt
             /\ Done(t, "NotFound")
             /\ UNCHANGED stat
          \/ /\ found # NoEnt
             /\ req[t].op = "Lokup" /\ found.kind # "dir"
             /\ Done(t, "DirExpected")
             /\ UNCHANGED stat
          \/ /\ found # NoEnt
             /\ req[t].op = "Lstat" \/ found.kind = "dir"
             /\ Done(t, "OK")
             /\ stat' = [stat EXCEPT ![t] = found]
          \/ /\ Done(t, "IOError")
             /\ UNCHANGED stat
    /\ UNCHANGED <<db, inoq, cacheVars, blockVars, callVars, way, m, calls, open>>

\* Writers unlock their name subsets and wake all who wait for the directory.
Finish(t) ==
    /\ pc[t] = "finish"
    /\ \/ /\ req[t].op \in Reads
          /\ pc' = [pc EXCEPT ![t] = "return"]
          /\ UNCHANGED busy
       \/ /\ req[t].op \notin Reads
          /\ busy' = [busy EXCEPT ![cb[t]] = @ \ Need(req[t])]
          /\ SignalAll(t, cb[t])
    /\ UNCHANGED <<db, inoq, cacheVars, fetched, callVars, way, m, code, stat,
                   calls, open>>

\* Mutant: a failed call keeps its reference.
ReturnLeaks(t) ==
    /\ pc[t] = "return"
    /\ TryReuseIno(t)
    /\ IF code[t] = "OK" THEN ReleaseDir(cb[t]) ELSE UNCHANGED <<cacheVars, blockVars>>
    /\ cb' = [cb EXCEPT ![t] = NULL]
    /\ pc' = [pc EXCEPT ![t] = "idle"]
    /\ UNCHANGED <<db, req, startino, way, m, code, stat, calls, open>>

Return(t) ==
    /\ pc[t] = "return"
    /\ TryReuseIno(t)
    /\ ReleaseDir(cb[t])
    /\ cb' = [cb EXCEPT ![t] = NULL]
    /\ pc' = [pc EXCEPT ![t] = "idle"]
    /\ UNCHANGED <<db, req, startino, way, m, code, stat, calls, open>>

\* ~LRUCache gives up the entries of its idle list; nobody may be in a call.
Close ==
    /\ open
    /\ \A t \in Thread : pc[t] = "idle"
    /\ open' = FALSE
    /\ dlru!Evict(dlru!Idle)
    /\ dirs' = DeleteDir(Freed)
    /\ UNCHANGED <<db, inoq, blockVars, pc, callVars, way, m, code, stat, calls>>

\* Nothing runs after the destructor.
Closed == ~open /\ UNCHANGED vars

Step(t) == \/ Reject(t) \/ Enter(t) \/ Retry(t) \/ Check(t) \/ Put(t)
           \/ BulkPut(t) \/ Read(t) \/ Finish(t) \/ Return(t)

Next == \/ \E t \in Thread, r \in Request : Begin(t, r)
        \/ \E t \in Thread : Step(t) \/ Wakeup(t)
        \/ Close
        \/ Closed

\* A thread inside a call keeps running; nobody has to make a call, and no thread
\* may count on a spurious wakeup.
Spec == Init /\ [][Next]_vars /\ \A t \in Thread : WF_vars(Step(t))
-----------------------------------------------------------------------------
(***************************************************************************)
(* Properties.                                                             *)
(***************************************************************************)

InCall(t) == pc[t] # "idle"

\* The threads that hold a reference to a block.
Users(b) == {t \in Thread : cb[t] = b}

\* The control block a thread works on with mutex_ released (fs.cc:70-72 and its
\* like) is alive, belongs to the directory of the call, and is the one the table
\* gives to the next caller: no eviction or release by another thread takes it away.
NoUseAfterFree ==
    \A t \in Thread : InCall(t) =>
        /\ cb[t] \in Block
        /\ refs[cb[t]] > 0
        /\ id[cb[t]] = req[t].dir
        /\ dirs[req[t].dir] = cb[t]

\* At no time are there two control blocks of one directory in memory, the
\* situation fs.h:188-193 describes and dirs_ is there to prevent.
OneBlockPerDir ==
    \A a, b \in dlru!Live : id[a] = id[b] => a = b

\* The references on a control block are exactly those of the threads in a call on
\* it plus the cache's own: none leaks on an error path and none is given back twice.
RefsExact ==
    \A b \in Block :
        refs[b] = Cardinality(Users(b)) + (IF b \in cached THEN 1 ELSE 0)

\* "assert(usage_ <= capacity_)" (lru.h:312): blocks pinned by running calls never
\* push the cache of control blocks over options_.dir_lru_size.
CacheBounded == Cardinality(cached) <= DirLruSize

\* Two calls in one directory never work on the same name subset at a time, and a
\* flag is set only while the call that set it has yet to clear it (fs.cc:430-456).
WaysExclusive ==
    /\ \A t, u \in Thread :
          (t # u /\ InCall(t) /\ InCall(u) /\ req[t].dir = req[u].dir)
             => Holds(t) \cap Holds(u) = {}
    /\ \A b \in dlru!Live :
          busy[b] = UNION {Holds(t) : t \in Users(b)}

\* No create replaces what an earlier one stored, although CheckAndPut looks and
\* writes in two db calls (fs.cc:547-564); only a bulk insertion may.
NoOverwrite ==
    [][\A s \in Slot :
          (DbGet(s) # NoEnt /\ db'[s] # db[s] /\ ~SkipNameCollisionChecks)
             => \E t \in Thread : pc[t] = "bulk" /\ s \in BulkSlots(req[t])]_vars

\* The inode numbers a call may still store.
Reserved(t) ==
    IF pc[t] \in {"idle", "return"} \/ req[t].op \notin Creates
    THEN {}
    ELSE startino[t] + m[t] .. LastIno(t)

\* TryReuseIno (fs.h:144-149) never makes inoq_ hand out a number twice: no two
\* names have the same one, and none is stored that a running call may still store.
InoUnique ==
    /\ \A s1, s2 \in Slot :
          (s1 # s2 /\ db[s1].ino > 0) => db[s1].ino # db[s2].ino
    /\ \A t \in Thread :
          /\ \A s \in Slot : db[s].ino \notin Reserved(t)
          /\ \A u \in Thread \ {t} : Reserved(t) \cap Reserved(u) = {}

\* What the destructors of the cache and of the Filesystem assert (lru.h:229,
\* fs.cc:719): at shutdown no block is in use and none is left in the table.
CleanShutdown ==
    ~open => /\ dlru!Live = {}
             /\ \A d \in DirId : dirs[d] = NULL

\* Every call returns: no wakeup is lost, and calls that lock all the subsets of a
\* directory never block each other for good (fs.cc:430-435, 474-479, 510).
EveryCallReturns == \A t \in Thread : InCall(t) ~> ~InCall(t)

KindOf(r) == IF r.op = "Mkdir" THEN "dir" ELSE "file"

Abstract == INSTANCE Namespace WITH
    ns <- [s \in Slot |-> DbGet(s)], active <- {t \in Thread : InCall(t)},
    made <- m, Base <- ReadonlyDb, Ino <- Nat \ {0},
    Error <- {"IOError", "AccessDenied", "AssertionFailed"}

\* Seen from outside, the operations act on the namespace one at a time (fs.h:84-96
\* as Namespace states it), although each is a series of unlocked db calls.
Atomic == Abstract!Spec
=============================================================================
