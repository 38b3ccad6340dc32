# A TLA+ development of the DeltaFS prototype

DeltaFS is client middleware for file system metadata.  Clients resolve paths,
map names to metadata servers with a giga+ directory index and call the servers
by RPC; a server keeps the names of its directory partitions in an LSM tree.
This directory models the parts of it in which threads, references, locks and
failures meet, checks them with TLC on small instances and proves the main
results with TLAPS for every instance.

Paths below are relative to `src/libdeltafs` of the repository; `lru.h`,
`hashmap.h` and `gigaplus.cc` are in `external/pdlfs-common`.

## The system

| Part | State | Operations | Hard because |
|---|---|---|---|
| Metadata server (`fs.cc`, `fs.h`) | inode counter `inoq_`, table `dirs_` and cache `dlru_` of directory control blocks, per block the `busy` flags of 8 name subsets and a condition variable, the db | `Mkfle`, `Mkdir`, `Mkfls`, `Bukin`, `Lokup`, `Lstat`, the destructor | rpc threads run the operations at the same time; locks are dropped around db calls; blocks are evicted while in use; failed calls give inode numbers back |
| LRU cache (`lru.h`, `hashmap.h`) | hash table, in-use list, LRU list, two usage counters, a reference count per entry | `Insert`, `Lookup`, `Ref`, `Release`, `Erase`, `Prune`, the destructor | an entry can be out of the cache and alive, replaced under its key, ejected by its own insertion |
| Client path resolution (`fscli.cc`) | a lease held per step of a walk, handles, open batches | `Resolu`, `Resolv`, `Mkfle`, `Mkdir`, `Lstat`, `Atdir`, `BatchInit`, `BulkInit` | many forms of a pathname, many returns that each owe one release, leases another user has looked up |
| Client leases (`fscli.cc`) | per partition a table and a cache of leases, busy ways, contexts inside leases | `Lokup1`, `Lokup2`, `Release`, `Destroy` | expiry while in use, three modes, lookups that wait for each other |
| Client partitions and directories (`fscli.cc`) | tables `dirs_` and `pars_`, cache `plru_` | `AcquireDir`, `AcquirePartition`, `AcquireAndFetch`, their releases | a deleter that unlocks the mutex in the middle of an insertion |
| Client batches and bulk insertions (`fscli.cc`, `fsbuk.cc`) | write buffers and table builders per server, a commit status, a first error | `BatchInsert/Commit`, `BulkInsert/Commit` | commit races with insertions, partial failures of a flush, leftovers of an earlier context |
| Directory index (`gigaplus.cc`) | a bitmap of partitions | `SetAll`, `HashToIndex`, `SelectServer`; splits and merges DeltaFS does not use | numbers of servers that are not powers of two |
| RPC dispatch and sockets (`fscom.cc`, `fssvr.cc`, `posix_rpc_udp.cc`, `posix_rpc_tcp.cc`) | messages under way | encode, call, dispatch, decode | field order and lengths; timeouts and late replies |
| Server driver, receiving threads, worker pool (`deltafs_bm_svr.cc`, `posix_rpc.cc`, `posix_bgrun.cc`) | thread counts, job queues, the signal flag | start, serve, signal, stop, flush, delete | shutdown while calls are in threads and pools; a handler that takes a mutex |
| Client driver (`deltafs_bm_cli.cc`) | the server map, phases, the monitoring thread | `Run` | barriers, errors of single ranks |
| Parallel compactor (`parallel_compactor.cc`) | two buffers per destination, a pending call | `Send`, `Flush`, map and reduce | asynchronous sends, backpressure, barriers |
| Metadata db (`fsdb.cc`), readonly dbs (`fsro.cc`) | an LSM tree | `Get`, `Put`, `BulkInsert`, `Flush` | third-party storage engine below |

They interact as follows.  A client operation resolves a path (a `Lokup` call per
component, cached as a lease), finds the partition of the name and the server the
directory index gives it, and calls that server; the dispatcher decodes the call
and runs an operation of `Filesystem`, which acquires the control block of the
directory, locks name subsets, calls the db and releases the block.  Batches and
bulk insertions collect names at the client and hand them to the servers at a
commit.  The drivers start all this on the ranks of an MPI job; the compactor is a
job of its own that redistributes the dbs.

What makes the parts correct: a create never overwrites and a name is created
once; a control block, lease, partition or cached entry is never used after it is
freed and never leaks; every call returns and every job ends; inode numbers are
unique; a batch that reports success has created its names; a reply belongs to the
call that gets it; a name goes to one server.

## Modules

| Module | What it is |
|---|---|
| `Filesystem` | the metadata server, thread by thread |
| `Namespace` | what the server promises: an atomic namespace |
| `RefCache` | what the LRU cache promises its users; part of `Filesystem` through `INSTANCE` |
| `LRUCache` | the LRU cache in detail; part of `Leases` and `Partitions` through `INSTANCE` |
| `Client` | what the three client modules below share: threads and the null pointer |
| `Pathnames` | pathname resolution at a client, and the calls built on it |
| `Partitions` | the directories and partitions at a client |
| `Contexts` | batches and bulk insertions; uses `DirectoryIndex` |
| `Leases` | the leases of one partition at a client |
| `DirectoryIndex` | the mapping from hashes to servers, as operators |
| `RpcCalls` | stubs, messages, dispatch, transports |
| `Compactor`, `ServerJob`, `ClientJob` | the three MPI jobs |
| `MC...` | instances for TLC |
| `FilesystemProofs` | the server: control blocks, name subsets, inode numbers, atomicity |
| `LRUCacheProofs` | the cache: lists, table, counters, eviction order, refinement of `RefCache` |
| `LeasesProofs` | leases: references, table and cache, ways, contexts; uses `LRUCacheProofs` through `INSTANCE` |
| `ClientProofs` | pathname resolution; directories and partitions, which uses `LRUCacheProofs` through `INSTANCE`; batches and bulk insertions |
| `RpcCallsProofs` | encoding and decoding, and whose answer a call gets |
| `CompactorProofs`, `ServerJobProofs`, `ClientJobProofs` | the three jobs |

### Filesystem

A section of code under `mutex_`, or under the mutex of a control block, touches
only what that mutex protects, so it is one action; a db call runs with no lock
held and is an action of its own.  Every thread has a program counter:

    Begin -> (Reject | Enter -> [wait/Wakeup/Retry]* -> (Check -> Put)* | BulkPut | Read)
          -> Finish -> Return

| Action | Code |
|---|---|
| `Begin` | the beginning of `Bukin`, `Lokup`, `Lstat`, `Mkfls`, `Mkfle`, `Mkdir` under `mutex_`: `AcquireDir` and the increment of `inoq_` |
| `Reject` | `IsLeaseOk`, then `IsDirWriteOk` or `IsLookupOk` fail; no lock has been taken |
| `Enter` | from `MutexLock lock(dir->mu)`: `MaybeFetchDir`, `IsDirPartitionOk`, the loop that locks name subsets up to the first that is taken |
| `Wakeup` | a spurious wakeup of the condition variable (no fairness) |
| `Retry` | the loop goes on after `cv->Wait()` |
| `Check`, `Put` | the `DbGet` and the `Put` of `CheckAndPut` |
| `BulkPut` | `db_->BulkInsert` |
| `Read` | the `DbGet` of `Lstat1`, with the test for a directory of `Lokup1` |
| `Finish` | the second section under `dir->mu`: clear the flags, `SignalAll` |
| `Return` | `TryReuseIno` and `Release` under `mutex_`; the deleter runs when the last reference goes |
| `Close` | the destructor |

Each db call may succeed or fail.  A failed `Put` or `BulkInsert` stores nothing.
The checks of leases and permissions are functions of the call's arguments, so
their outcome is a field of the request; names are model values with a given name
subset, and the outcome of `IsDirPartitionOk` is the constant `Owned` (all slots when
`skip_partition_checks` is set).  The chain
of readonly dbs is the constant map `ReadonlyDb`.  `Mkfls` is called with as many
names as it announces.  Control blocks are addresses: a block with no references
is free memory and may be allocated again for any directory.

### LRUCache and RefCache

`LRUCache` keeps the table, both lists and the counters of `lru.h` in one record;
the private functions (`Unref`, `Remove`, `LRU_Remove`) and the loops of `Insert` and
`Prune` are operators from record to record, the public functions are actions.  The loops
are recursive functions of the number of rounds, one `RemoveOldest` a round.
The sums of charges the counters are checked against are cardinalities of sets of units
(`<<e, i>>` with `i` up to the charge of `e`), which a proof can work with where a fold
could not.  `RefCache` keeps only keys, references and the set of cached entries, and lets
any idle entry be evicted.  `Filesystem` uses `RefCache`; that `LRUCache` with unit
charges implements it is checked and proved, so the order of eviction never has to be
carried along in the server's state.

### Namespace

One atomic step per created name, per lookup, per bulk insertion; a call that
fails otherwise changes nothing.  The mapping from `Filesystem`: a slot holds what
`DbGet` returns, a thread is active while it is in a call, and a call has taken
effect when its status is no longer `Pending`.  Creation takes effect at `Put`, so
the mapping only works because what `Check` found is still so at `Put`.

### Pathnames

A path is a sequence of characters, since `Resolv` is about nothing but the places
of slashes in it: `Splitter`, `SkipEmpty`, `LookAhead`, `AtLast` and `NameAfter` are
its pointer movements.  `Resolu` picks the start (the root or the handle), each
`Resolv` step is one `Lokup` of the walk, with the lease of the parent given back
once the next one is held, and `Resolved` is the last one.  `Mkfle`, `Mkdir`, `Lstat`,
`Atdir`, `BatchInit` and `BulkInit` follow, each with its `...1` (permissions) and
`...2` (the call), and `Return` releases the parent.  `Forget` is the cache dropping a
lease nobody holds.  Directories are the names that lead to them, as nothing is ever
renamed or removed.  The reference the walk is checked against, `Components`, takes the
places where a name begins (`Starts`) in their order and reads no pointer.  The next-state
relation is `PathNext` and a thread's place in the code `stage`, as the three client modules
have their theorems in one module.

### Leases

One partition.  A thread searches table and cache (`Lokup`), sleeps when the way of
its name is busy and searches again (`Wakeup`), or goes to the server and comes back
with a new lease (`LookedUp`) or an error (`LookupFailed`).  `Grant` and `Answer` are
the end of `Lokup1`: the mode is compared, the context created or counted.  A user
gives a lease back with `ReleaseLease`, or `DestroyContext` for batches and bulk
insertions, whose last user takes the lease out of the table and dissociates the
context.  Time is the action `Expire`, which makes a lease that is due expire at any
moment; the next search throws it out.  What a server writes into `LeaseDue` is the
constant `Due`, per mode: today's servers always write -1 ("never").

### Partitions

`AcquireDir` and `AcquirePartition` under `mutex_`.  `plru_` is an `LRUCache`; an
insertion that evicts a partition is split where `DeletePartition` unlocks the mutex:
`AcquireNew` up to there, `Evicted` after it, with the handle of the new partition set
only then.  `Reference` of a partition without a handle is a use of an uninitialized
pointer, after which the thread is "undefined".  The next-state relation is `PartNext`, a
thread's place in the code `phase`.

### Contexts and DirectoryIndex

One context, of either kind, and any number of threads that insert and commit through
it.  An action is one section under the mutex of the context or of the buffer (db) of
one server; in between, other threads run.  The `n` of a new write buffer is whatever
memory held (`InitCount`), with the width of a `uint32_t` scaled down (`Width`); the
place a bulk context writes its tables may hold the tables of an earlier one.  A call to
the server may take effect and still be reported as failed.  `put`, `early` and
`committed` are history variables.

Whether a server refuses names that exist (`Mkfls2`) is `skip_name_collision_checks`.

`DirectoryIndex` is pure: the index DeltaFS makes has a partition per server, all set.
`SelectServer` follows the code (radix of the header, index from the hash, climb to an
existing parent); `Owner`, the definition it is checked against, is the partition with
the longest number the hash begins with.  `HashToIndex` asserts, before it climbs, that the
index it has computed is one of a virtual server.  The assertion is the operator `Asserted`,
of which the run `index_assert` is; `HashToIndex` itself is what a build without assertions
does.

### RpcCalls

Each stub encodes a request into a sequence of words as its `...Cli` does, `ServerCall`
dispatches to the `...Operation`, which decodes it and encodes the answer of the file
system, and `...Ret` decodes the reply; a 64-bit field is two words, so that order and
length of the fields matter.  A stub in `Udp` shares one socket among its calls: messages
are lost (`Lose`), delivered twice (`Duplicate`), cut at `MaxMsg`, delayed and taken in any
order, and calls fail (`Timeout`, which also stands for the I/O errors of the socket calls).
The other stubs use a connection per call.  `stale` has the stubs that may get one reply more
than they have calls under way.

### Compactor, ServerJob, ClientJob

Each has the main threads of all ranks, in the order of `Run`, with `Enter` and `Passed`
for the two ends of an MPI barrier, and the threads beside them: senders and the rpc
server of a rank in `Compactor`, receiving threads, pool and signal handler in
`ServerJob`, the monitoring thread in `ClientJob`.  The command lines that matter are the
records of `Flags`; `Init` picks one, which stays, so that one run covers all of them.
Calls, dbs, ports, scans and flushes fail, whether or not the code looks at their status:
`iter` and `flush_status` are the two it does not look at.

- `Compactor`: `Send` and `Flush` with their two buffers, the loops on
  `SendMustSchedule/Wait` and `FlushMustSchedule/Wait`, `SendIt` in a pool thread or in
  place (`InlineSent`), `Call` at the receiver, the barriers of `MapReduce`, the flush and
  the destructor.  `MapDone` is the end of the scan: at the end of the source, or after a
  read error, which leaves the loop in the same way.  The index of a key's directory is the
  constant `Route`.
- `ServerJob`: opening (`OpenFilesystem`, `OpenPort`, `BGStart`, `OpenInfoPort`,
  `SetInfo`), serving (`BGCall`, `BGLoop`, `Recv`, `Put`, `Reply`, with a pool `BGThread`),
  the signal (`Deliver`, `Interrupt`, on the main thread or a receiving one), closing (`Close`,
  `BGStop`, `Flush`) and `~Server` (`DeletePort`, `DeleteFs`).  A signal that finds a receiving
  thread in `poll()` makes it return `EINTR` (state "eintr"), which ends the thread's loop with
  an error.
- `ClientJob`: `ObtainSvrMap`, `ParseMapData`, `Open`, `PrepareRun`, the phases with
  `StartStep`, one `Op` at a time and `EndStep`, and `MonitorBody`.  The file system is the
  set of names that exist; a call that fails may have had its effect.

## Runs

| Run | Checks | Bounds |
|---|---|---|
| `fs_safety` | `TypeOK`, `NoUseAfterFree`, `OneBlockPerDir`, `RefsExact`, `WaysExclusive`, `CleanShutdown`, `InoUnique`, `NoOverwrite`, `Atomic` | 3 threads, 3 calls out of 12, 2 directories, 3 blocks, a cache of 1, 2 name subsets, 3 names of which two share a subset |
| `fs_liveness` | `EveryCallReturns` | 3 writers in one directory, no caching |
| `lru_charges` | `ListsPartition`, `RefsAccounted`, `TableExact`, `UsageExact`, `OldestFirst`, `ImplementsRefCache` | 4 entries, 4 keys, charges 1 and 2, capacity 3, 2 references per client |
| `path_walks` | `ResolvesRight`, `LeaseRefsExact`, `WalkPermitted` | 2 threads, 3 calls, 5 pathnames, 2 users, 2 modes |
| `leases` | `ContextGone`, `ModeExclusive`, `RefsExact`, `TableSound`, `BusyOwned` | 3 threads, 4 lookups, 2 names in one way, 3 modes, a cache of 1 |
| `client_lib` | `CountCovers`, `EarlyNamesStored`, `OnlyOwnNames`, `SentToOwner` of `Contexts`; `OnePartitionPerKey`, `RefsExact` of `Partitions` | 3 threads; 3 names, 3 servers, batches of 2, either kind; 5 lookups of 3 partitions of 2 directories through a cache of 1 |
| `part_handle` | `HandleSet`, violated | 2 threads, 4 lookups, 3 partitions of 2 directories, a cache of 1 |
| `index_assert` | `IndexAsserted`, violated | 1 thread, 2 names, 3 servers |
| `rpc` | `OwnAnswer` | a UDP and a TCP stub, 2 calls, 12 requests (every operation, for a name that is there and one that is not) |
| `compact` | `Complete`, `KeysAccounted`, `Terminates` | 2 ranks, 5 keys, batches of 2, with a pool of 1 and without; calls, dbs and scans may fail |
| `server` | `AckedFlushed`, `NoUseAfterFree`, `Terminates` | 2 ranks with 1 port and 1 receiving thread each, 2 requests; without a pool and faults, up to 2 signals per rank; without a pool, and with a pool of 1, one signal and dbs, ports, sockets and flushes that may fail |
| `client` | `DirReady`, `AllNamesThere`, `Terminates` | 2 ranks, 2 files each, one write and one read phase, a monitor, 4 command lines, all faults |

Why the bounds are enough for the interesting cases.

*Server.*  Two directories need two blocks; the third is there so that a second block of
one directory could appear.  With two directories and one cache slot every acquisition of
the other directory finds the cache full: it either evicts an idle block, which is deleted
and whose address is used again, or finds the only cached one in use and gets a block that
is never cached, which a third call must find in the table.  Two name subsets are the
fewest with which a caller can hold one and sleep on another; three names are the fewest
with which two share one.  A batch of the same name twice meets its own creation.  Three
calls let a number be given back while an earlier call is still running and be handed out
again.

*Cache.*  With four keys, a cache of 3 can be full of entries in use when a fourth comes; a
charge of 2 evicts two at once.

*Client.*  `client_lib` puts two modules that share no state into one run: a behaviour is one
of the first or one of the second (`subject` in `MCClient`).  Two names in one way make
lookups of different names wait for each other, and a third thread finds what the second has put there; a cache of one evicts at every other
lookup.  Three partitions through a cache of one let a second eviction start while the
first has the mutex released.  Of three servers, partition 3, which one of the hashes
points to, does not exist.  A buffer of two is filled by three threads, and
one of its counts is the largest there is.  The pathnames have empty names at the beginning, in the
middle and at the end, and names of one and two characters.

*Calls and jobs.*  Two calls of one stub are enough for a late or a second reply, and two
calls of different stubs run beside each other.  With five keys, one of them local, a sender
of rank 0 gets a third key while a full message is under way.  A second signal is the fewest with which the
handler can meet the main thread closing; one signal is enough to end a receiving thread that
`BGStart` still waits for.

`MaxCalls`, `MaxLookups`, `MaxLeases`, `MaxParts` and `MaxHeld` are the bounds on
behaviours; they are constants with no counterpart in the code.  `Shift` and `Width` stand
for 2^32, `Word` for the number of values of a word.

Fairness.  In `Filesystem`, `WF` of the steps of a thread inside a call: a thread that can
run eventually runs, and a db call returns.  Nobody is obliged to make a call, and no
fairness is assumed of `Wakeup`: all progress comes from `SignalAll`.  A waiting thread has
no step until it is signalled, so a lost wakeup would show.  Mutexes need no fairness of
their own since sections are atomic; a name subset could in principle be taken over and over
by new callers, which the bound on calls excludes (the code's condition variable makes no
promise against it either).  In the jobs, `WF` of every thread (main threads, receivers,
workers, senders, monitor, a handler that has been entered); a call is answered or times out,
as the stubs have timeouts.  Nobody is obliged to send a request or a signal, and nothing is
obliged to succeed.

Deadlock is checked for the server and the cache, where `Close` and then `Closed` follow the
last call.  The client modules and `RpcCalls` stop when the bounded number of calls is
used up, the jobs when they have ended or hang in one of the ways below; these runs say
`CHECK_DEADLOCK FALSE`, and in the jobs `Terminates` takes its place.

Every property of a passing run has a mutant in `PROJECT.json`: a changed version of
one definition, as a plausible bug would change it, under which TLC finds the
property violated.

### What the violated runs show

`part_handle`: `AcquirePartition` stores the handle of a new partition in it after
`LRUCache::Insert` has returned.  When the insertion evicts another partition, its deleter unlocks `mutex_`, and a
second thread can find the new partition, in the cache or in the table, before its handle is
there: in a build with assertions `assert(part->lru_handle == h)` (`fscli.cc:1475`) or the one
at line 1487 fails, without them an uninitialized pointer is used.  The two
properties of `Partitions` in `client_lib` are stated up to the first such use.

`index_assert`: `HashToIndex` computes an index from as many bits of the hash as the last
partition's number has, and asserts that it is below the number of virtual servers
(`gigaplus.cc:550`).  DeltaFS has as many virtual servers as servers, so with three of them a
hash that ends in binary 11 gives index 3 and the assertion fails, in a build with assertions;
it holds for powers of two.  Without assertions the loop below it goes on to partition 1, the
one that owns the name, as `SentToOwner` shows.

### Where the code does less than one would expect

Met while modelling; each is an exception named in a property's comment, or a choice of
constants, so that the properties say exactly what the code gives.

- `fscli.cc:223`: a name inserted into a batch (line 353: a bulk insertion) while another
  thread commits can stay in a buffer nobody flushes again, and both calls return OK.
  `EarlyNamesStored` is about the names whose insertion was over when the commit began, and
  promises nothing of the others.
- `fscli.cc:405`: `Destroy(BULK*)` leaves the context in a lease that expired while in use,
  against the assertion in `DeleteLease`; `Destroy(BAT*)` does not.  It takes servers that
  issue leases that expire, so `MCDue` has no such leases for bulk insertions.
- `fscli.cc:484`: `Lstat` with a trailing slash looks at the mode of a stat that a failed
  lookup has not set, and replaces its error by "Not a dir".
- `fscli.cc:164`: a pathname of slashes only is the root of the file system even when it is
  relative to a handle.
- `fscli.cc:838`: `Bukin1` keeps a table builder that failed to open; a call that is already
  past the test of the status uses it ("undefined" in `Contexts`).
- `posix_rpc_udp.cc:242`: after a call that failed, a UDP stub takes the late reply for the
  reply to its next call; a datagram the network delivers twice has the same effect.  `OwnAnswer`
  excepts such stubs, so it says nothing of what they get.
- `posix_rpc.cc:134`: a receiving thread that ends while `BGStart` waits for all of them to be
  counted makes it wait for ever, and it takes no I/O error: a signal that interrupts `poll()`
  (`posix_rpc_udp.cc:119-125`) is enough.  `Terminates` excepts a rank that stays there
  (`BGStartHangs`).  The comment at lines 137-139 says that `BGStart` returns the error of a thread
  that failed early; it cannot, as a thread that has failed is no longer counted.
- `parallel_compactor.cc:767-782`: the scan of the source ends when `Valid()` is false and nobody
  asks `iter->status()`, so after a read error the job flushes and succeeds without the keys
  behind it.  `Complete` promises every key that was read, and all keys of a source whose scan
  did not fail.
- `deltafs_bm_svr.cc:709`: the status of the final flush is dropped, and the write-ahead log is
  off (line 772): when it fails, acknowledged creates are lost and the job ends as usual.
  `AckedFlushed` is about ranks whose flush succeeded.
- `posix_rpc.cc:143`: `BGStop` does not wait for calls handed to the pool, which may be
  acknowledged after the last flush; `AckedFlushed` is stated without a pool and says nothing
  of jobs that have one.
- `deltafs_bm_svr.cc:638`: the signal handler locks `mu_`; a signal that arrives while the
  main thread holds it blocks.  `Terminates` excepts a handler that stays blocked for good.
- `deltafs_bm_cli.cc:781, 815`: the status of `BulkInit` and `BatchInit` is ignored, also with
  `abort_on_errors`.
- `deltafs_bm_cli.cc` and `parallel_compactor.cc`: a rank that cannot open something, or whose
  monitor cannot connect, leaves the others waiting at a barrier; the two `Terminates` except it.
- `fs.h:197-199` says that operations may be rejected when the maximum number of control blocks is
  reached.  `AcquireDir` has no such maximum: it allocates a block whenever none is found; the
  number of blocks is bounded by running calls plus the cache.  The comment is out of date.

## Proofs

Every theorem holds for any values of the constants that satisfy the named assumption of
the module, which says what kinds of values they are and, where noted, one fact more; TLC
evaluates the assumptions on every run.  In each module the properties follow from one
inductive invariant, given here with what it adds to the properties and why that is needed.

**`FilesystemProofs`** (any finite set of threads, any directories, names, blocks, name
subsets, cache size, 0 included, and readonly dbs; a request for one name has one).

- `RefsExact` alone is not inductive: that a reference given back was there needs the
  caller's program counter, and that a hit in the table is a live block needs the agreement
  of table and references.  `BlockInv` adds `Control` (what a thread's place in the code says
  of its call) and `Blocks` (a block is in the table under its directory exactly while it has
  references; a thread's block is the one of its directory; after the destructor nobody is in
  a call and nothing is cached).  `Room` carries the size of the cache.  Three lemmas are
  about the actions that touch the cache (`BlockBegin`, `BlockReturn`, `BlockClose`); the
  others leave it alone (`InnerKeeps`).  From it: `TypeCorrect`, `RefsAreExact`,
  `BlocksStayAlive`, `BlocksAreUnique`, `CacheStaysBounded`, `ShutdownIsClean`.
- `WayInv`: what the users of one block hold is disjoint, is busy, and is all that is busy.
  One round of the locking loop adds a set of free subsets (`LockWaysHolds`); `Finish` removes
  exactly what its thread holds, which is why clearing all flags is safe.  With one block per
  directory this gives `WaysAreExclusive`.  `StillFree` then says that a thread between
  `Check` and `Put` still finds its slot empty: any other thread that could store there would
  hold the same name subset of the same block.  This gives `CreatesNeverOverwrite`.
- `InoInv`: the ranges given to running calls are disjoint and at most `inoq_`; what is stored
  is at most `inoq_` and not among the numbers a call has left.  Unlike in `InoUnique`, a call
  keeps its numbers until it has returned, or `TryReuseIno` would not be justified.  This
  gives `InodesAreUnique`.
- `ServerIsAtomic`: the server implements `Namespace`, unless `skip_name_collision_checks` is
  set (then a create may well replace a name).  All of the above comes together: `StillFree`
  makes `Put` a `Create` of an absent name, `InoInv` makes its number fresh, and `Undecided`
  says that a call has its status exactly from the step on at which it takes effect.  One
  lemma per action (`AtomicPut`, `AtomicRead`, ...) names the step of `Namespace` it is.

`CacheBounded` is proved only; no run repeats it.

**`LRUCacheProofs`** (a finite set of entries, any keys, charges and capacity).  `CacheInv`:
the two lists partition the live entries, references are those of clients and cache, `total`
and `usage` are the sums they stand for, the table leads to the entries in the cache and
`usage` is within the capacity; table and usage only while the cache is open, as the
destructor leaves them behind.

- The private functions see states in between, in which a reference is about to be given back:
  `Good(c, h)` says the same of a state and of the references `h`, and `Owed` that one more is
  there than `h` has; each function is shown to keep or restore it (`UnrefOk` and its like).
- The loops are recursive functions over numbers.  The library's induction theorems cannot be
  used, as they take an operator; `NatSetInduction` is about a *set* of numbers instead and
  follows from the well-foundedness of `<`.  With it, `LoopExists` gives the loop its defining
  equation and `Along` carries a set of states through all rounds.
- Sums over charges are cardinalities of sets of units (`Sums`, `UnitSum`), so they change
  by what the finite set theorems say.
- `OldestFirst`: the rounds of an insertion take a prefix of the idle list (`Suffix`,
  `Ejected`) and stop as soon as there is room (`Tight`).
- `ImplementsRefCacheTheorem`: with unit charges `usage` is the number of cached entries, and
  an insertion evicts exactly as many idle ones as `RefCache` lets it (`UnitInsert`).

**`LeasesProofs`** (a finite set of threads, any names, ways, modes and cache size; servers
that put anything in `LeaseDue`).  What the cache does is cited from `LRUCacheProofs` through
an instance of it, whose assumption is proved (`CacheAssumption`).  `LeaseInv`:

- `Base`: the cache is `Good` for the users each lease has, what it has under a name is what
  the table has, and the table has exactly the live leases that have not been taken out of it.
  Operations that take a lease out of table and cache pass through states in which the two
  disagree; `Thinner` describes those, and `ThinCached` shows that the cache brings them back
  together.
- `Counted`, `Used`: a lease that is not regular has a context, its users are the lease's, and
  it has at least one, so that an eviction never deletes it.  A lookup is `Pending` between the
  reference to the lease and the one to the context.
- `HoldersOk`, `ServerOk`: a thread's lease is for its name and mode; one lookup of a busy way
  is at the server and its name has no lease, which stays so as others only take leases out.
- `ContextOk`, for servers whose leases for bulk insertions never expire (`BulkNever`, as those
  of `fs.cc`): such a lease is in the table as long as it is used.  `ContextGoneTheorem` has
  this as its hypothesis; without it `Destroy(BULK*)` leaves the context, see above.

From it: `LeaseTypes`, `RefsExactTheorem`, `ModeExclusiveTheorem`, `TableSoundTheorem`,
`BusyOwnedTheorem`, `ContextGoneTheorem`.

**`ClientProofs`** (any finite set of threads) has three parts.

*Path resolution* (any pathnames that begin with a slash, any users, modes and tree of existing
directories).  `PathInv`:

- The scanner comes first.  What `Splitter`, `SkipEmpty`, `LookAhead` and `NameAfter` return is
  characterised without their definitions (`FirstSlash`, `FirstChar`), and then compared with
  the reference: each name the loop takes is the next one in the order of `Starts`
  (`WalkOn` for a step of the walk, with `NameAt` and `Rank`), and where `AtLast` says that
  there is no further name, none begins further on.  No induction over the path is needed: the
  invariant says how far the walk has come.
- `ThreadOk`: a walk stands at a slash and its parent is the directory to which the names
  before that slash lead (`Walked`); at its end the parent and the name make up the path
  (`Resolution`); the directories it has come through may be searched (`Searched`).  A thread
  has a parent from `Resolu` until it returns and keeps a directory for a context only after.
- `DirsClosed`: a directory is beneath directories, so that the parent of what a walk finds is
  there; `LeaseRefsExact`, whose counts change by one thread at a time.

From it: `PathTypes`, `ResolvesRightTheorem`, `LeaseRefsExactTheorem`, `WalkPermittedTheorem`.

*Partitions and directories* (any directories, keys and cache size, 0 included).  Once a handle
that is not set has been used nothing can be said, so `PartInv` is `HandleSet => ...` around:

- `CacheFine`: the cache is `Good` for the users of each partition, in the sense of
  `LRUCacheProofs`, whose lemmas are cited through an instance; `pars_` has exactly the
  partitions that have references (`TablesAgree`), which holds while `DeletePartition` has the
  mutex unlocked only because its victim has left `pars_` before; a victim has no references
  and one thread that deletes it (`VictimsOk`); a thread that evicts has a partition of its own
  in the cache (`EvictingOk`), so that a second eviction cannot take it; and a thread has a
  partition, or a victim, exactly at the places where its code does (`PhasesOk`).
- `DirsCounted`: the references to a directory are those of the partitions in memory, victims
  included, and of the calls.  The reference of an evicted partition is given back at
  the end of its deletion, not when it leaves the cache.  The sums are cardinalities (`Tally`).
- `ClosedInv`: after the destructor nobody is in a call and nothing is left.

From it: `OnePartitionPerKeyTheorem`, `RefsExactTheorem`, the two properties of `client_lib`,
stated as there up to the first use of an unset handle.

*Batches and bulk insertions* (any names and hashes, counts in uninitialized memory; `Width` of
any size from 2 on; any number of servers up to the number of bits a bitmap may have,
`IndexAssumption`).  `ContextInv` adds to `CountCovers` and `OnlyOwnNames` that there is one
committer at a time and where it is, that a db with names in it is open, that what is kept was
put, and for `EarlyNamesStored` where an early name is: stored, or kept at the client
(`AcceptedKept`), once a commit runs for a server it has not got to (`EarlyAhead`), and stored
in the end (`EarlyDone`).  From it: `ContextTypes`, `CountCoversTheorem`,
`OnlyOwnNamesTheorem`, `EarlyNamesStoredTheorem`.

`SelectedServerTheorem`: a name is only ever kept for, and sent to, the server `SelectServer`
gives for its hash.  `SentToOwnerTheorem` is the property of the run, without a hypothesis about
the index.  What it takes is about numbers:

- `Powers`, `PowerNat`, `PowerOf`: `Pow2` is a recursive function, whose equation is shown from a
  table of its 17 values; each power is a multiple of those before it.
- `FewerBits`, `LastBit`: the remainders of a hash modulo two powers compare as the bits taken
  from it do.
- `FullRadix`: the radix of the index with all partitions set is the number of bits of the last
  one, so the number of servers is between two successive powers.
- `ParentExists`: an index that is not of a partition has a parent that is, the index computed
  from one bit less.  Hence the climb of `HashToIndex` ends after at most one step
  (`SelectsOwner`), and what it finds is the longest number the hash begins with, `Owner`.

**`RpcCallsProofs`** (any stubs, requests and message limit; more words than operation codes,
and 0 in the fields a call does not send).  First the conversions: what is encoded and decoded
again is what it was, for each operation (`RequestWords`, `DecodedWords`, `StatWords`,
`LookupStatWords`), the server's answer to a decoded request is the answer to the request
(`ServerAnswers`), and a message cut at `MaxMsg` is either whole or not decoded (`CutRequest`,
`CutReply`).  `RpcInv` then adds to `OwnAnswer` that every request and reply under way belongs
to a call that was made (`RequestsOk`, `RepliesOk`) and that a stub that is not in `stale` has
one at most (`OneUnderWay`).

**`CompactorProofs`** (any ranks, keys, routing and command lines; the keys of a source differ,
as those of a db do).  `CompactorInv` adds to `Complete` what a sender's two buffers, its
status and its pending call say of each other (`SendersOk`), that a key passed by the iterator
is in a buffer, a message or the destination (`Delivered`), and what the place of a main
thread says of its senders and of the barriers others have entered (`Control`, `Flushed`,
`Waited`): a rank that flushes its db has seen every other one past its last send.  A scan may
end early, so that a rank past it has sent what it has *read*; `Landed` says that this is in
the flushed db of its destination and that nobody scans any more, from which `Complete`
follows for the sources whose `iter` is OK.

**`ServerJobProofs`** (any ranks, ports, threads and a finite set of requests, any signals).
`ServerInv` adds to `AckedFlushed` that the receiving threads and the calls in the pool are
counted (`ThreadsCounted`, `PoolCounted`), which objects exist in which phase (`Phases`,
`Objects`) and where a call is (`Calls`).  `BGStop` returns when the count of threads is zero,
so nobody is in a call when ports, file system and db are deleted.  A thread that a signal has
thrown out of `poll()` ("eintr") is still counted and in no call; a failed flush leaves
`flush_status`, the only thing `AckedFlushed` has to know about it.

**`ClientJobProofs`** (any ranks, files and phases with `n` and the number of ranks up to
`Shift`, so that file numbers do not run into each other).  `ClientInv` adds how many barriers
a rank at a given place has entered (`Barriers`), so that a rank that has passed one knows
where the others are, who has made which directory (`DirsMade`, `DirsThere`) and which names a
rank's finished operations have left (`NamesOk`).  That these are `comm_size * writes`
different names is shown by a bijection (`NamesDiffer`, `CountNames`).

Only model-checked:

- liveness (`EveryCallReturns`, `Terminates`), which is beyond the prover;
- that `HandleSet` and `IndexAsserted` are violated (`part_handle`, `index_assert`):
  counterexamples, not theorems.

## Not modelled, and why

- 64-bit overflow of `inoq_` and 32-bit overflow of reference counts: not reachable in
  the life of a server.
- `dir->stats`, times, users and modes: no operation depends on them once the checks
  have passed.
- `DbGet` with neither a db nor readonly dbs, which returns OK without a stat: the
  server driver always sets at least one of them, and creates need `db_`.
- The inode numbers found in readonly dbs: `inoq_` starts at 0 whatever they hold, so
  uniqueness is a statement about the numbers this server has handed out.
- The operations of the directory index DeltaFS does not use (splits, merges, updates), the
  memory and the encoding of its bitmap.
- `fsro.cc` (options and scans over the LSM tree), `fsapi.cc` (an interface without state),
  `env_wrapper.cc` (instrumented file I/O), `base64enc.h`, the LSM tree and file formats.
- Option parsing, statistics and reports of the drivers, the RADOS environment.
- The TCP server (the TCP client is a transport of `RpcCalls`), pausing and resuming the thread
  pool, the `TEST_` hooks.
- Signals on the threads of the pool and of the info server, where the handler only takes and
  releases `mu_`, as it does on a receiving thread that is not in `poll()`.
- Tables left over from an earlier context that neither `DestroyDb` nor the `DB::Open` after it
  can delete.  `Bukin1` ignores the status of `DestroyDb`; the db is opened with
  `error_if_exists` and deletes the tables it does not know.  Should one file resist both, the
  commit would ingest it: `OnlyOwnNames` takes for granted that this does not happen.
- `skip_perm_checks`, which turns off what `WalkPermitted` is about.

## What is left

1. The hazards without a property in `PROJECT.json`: they are documented above as places where
   the code does less than one would expect, or concern the info server alone.
2. The TCP server and the pausing of the pool, should the drivers come to use them in ways
   that matter to shutdown.
