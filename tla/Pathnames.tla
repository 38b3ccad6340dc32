------------------------------ MODULE Pathnames ------------------------------
(***************************************************************************)
(* Pathname resolution and the calls built on it (fscli.cc): Atdir, Mkfle, *)
(* Mkdir, Lstat, BatchInit and BulkInit.  A thread walks a path one Lokup  *)
(* at a time, holding a lease on one directory, while other threads change *)
(* the namespace.                                                          *)
(*                                                                         *)
(* A path is a sequence of characters, a name a sequence without slashes.  *)
(* Nothing is ever renamed or removed, so the directory a lease is for is  *)
(* identified by the names that lead to it from the root.  What a Lokup    *)
(* does inside is the subject of Leases and Partitions, what a server does *)
(* that of Filesystem.                                                     *)
(***************************************************************************)
EXTENDS Client, Integers, Sequences, SequencesExt, FiniteSets

CONSTANTS Char,       \* the characters of names
          Path,       \* the pathnames that are used
          User, superuser,
          Group,      \* Group[u]: the group of user u
          Mode,       \* the modes directories are created with
          Existing,   \* Existing[d]: owner and mode of a directory there from the start
          MaxCalls    \* bound: calls that are made

\* A mode is a set of pairs of a class (u, g, o) and a permission (w, x).
AllPerms == {"u", "g", "o"} \X {"w", "x"}

ASSUME PathnamesAssumption ==
    /\ "/" \notin Char /\ NULL \notin Seq(Seq(Char))
    /\ \A path \in Path : path \in Seq(Char \cup {"/"}) /\ path # <<>> /\ path[1] = "/"
    /\ superuser \in User /\ DOMAIN Group = User
    /\ Mode \subseteq SUBSET AllPerms
    /\ \A d \in DOMAIN Existing :
        /\ d \in Seq(Seq(Char) \ {<<>>}) /\ d # <<>>
        /\ \A n \in 1 .. Len(d) : SubSeq(d, 1, n) \in DOMAIN Existing
        /\ Existing[d] \in [owner : User, mode : Mode]
    /\ MaxCalls \in Nat

VARIABLES dirs,     \* dirs[d]: owner and mode of directory d
          files,
          cached,   \* cached[d]: mode of the lease this client has for directory d
          refs,     \* refs[d]: references to the lease of d
          at,       \* at[t]: the relative root t works with, NULL for none
          stage, call, p, parent, tgt, slashes, status,   \* what t is doing
          kept,     \* kept[t]: the directory of the batch or bulk context t has open
          calls

pathVars == <<dirs, files, cached, refs, at, stage, call, p, parent, tgt, slashes, status,
          kept, calls>>

Op == {"Atdir", "Mkfle", "Mkdir", "Lstat", "BatchInit", "BulkInit"}
LokupMode == {"Regular", "BatchedCreats", "BulkIn"}
root == <<>>
\* f with e added, or its value there changed.
With(f, e, val) == [d \in DOMAIN f \cup {e} |-> IF d = e THEN val ELSE f[d]]
\* Between calls a thread has no path.
NoCall == [op |-> "Lstat", path |-> <<"/">>, who |-> superuser, at |-> NULL]
-----------------------------------------------------------------------------
(* The scanner of Resolv.  Positions count from 1; the terminating NUL is   *)
(* at Len(path) + 1.                                                        *)
End(path) == Len(path) + 1

FirstFrom(path, i, Test(_)) ==
    CHOOSE j \in i .. End(path) :
        /\ j = End(path) \/ Test(path[j])
        /\ \A k \in i .. j - 1 : ~Test(path[k])

\* p moves over empty names, to the last of a run of slashes.
SkipEmpty(path, i) == FirstFrom(path, i, LAMBDA ch : ch # "/") - 1
\* q: the next splitter after p.
Splitter(path, i) == FirstFrom(path, i + 1, LAMBDA ch : ch = "/")
\* Mutant: one slash is skipped.
LookAheadOne(path, q) == IF q = End(path) THEN q ELSE q + 1
\* c: where the next name starts, if there is one.
LookAhead(path, q) ==
    IF q = End(path) THEN q ELSE FirstFrom(path, q + 1, LAMBDA ch : ch # "/")

NameAfter(path, i) == SubSeq(path, i + 1, Splitter(path, i) - 1)
\* The scan is at the last component of the path: only slashes follow it.
AtLast(path, i) == LookAhead(path, Splitter(path, i)) = End(path)
HasTailingSlashes(path, i) == Splitter(path, i) # End(path)

\* What a path means: the names in it.
Starts(path) == {i \in 2 .. Len(path) : path[i] # "/" /\ path[i - 1] = "/"}
NameAt(path, i) == SubSeq(path, i, FirstFrom(path, i, LAMBDA ch : ch = "/") - 1)
Rank(path, i) == Cardinality({j \in Starts(path) : j <= i})
Components(path) ==
    [n \in 1 .. Cardinality(Starts(path)) |->
        NameAt(path, CHOOSE i \in Starts(path) : Rank(path, i) = n)]
-----------------------------------------------------------------------------
(* Permissions, which client and server test alike.                         *)
Allowed(who, d, perm) ==
    \/ who = superuser
    \/ who = dirs[d].owner /\ <<"u", perm>> \in dirs[d].mode
    \/ Group[who] = Group[dirs[d].owner] /\ <<"g", perm>> \in dirs[d].mode
    \/ <<"o", perm>> \in dirs[d].mode

IsDirWriteOk(who, d) == Allowed(who, d, "w")
IsLookupOk(who, d) == Allowed(who, d, "x")

\* What the server answers; the server or the network may fail ("IOError").
ServerAnswer(d) ==
    {"IOError", IF d \in DOMAIN dirs THEN "OK"
                ELSE IF d \in files THEN "DirExpected" ELSE "NotFound"}

\* Answers of a lookup of directory d beneath its parent: permissions are tested
\* first, and a lease in the cache is not looked up again but must have the mode.
Leased(d, mode) == IF cached[d] = mode THEN {"OK"} ELSE {"AccessDenied"}
\* Mutant: permissions are only tested for what is not cached.
LokupAnswerCacheFirst(who, d, mode) ==
    IF d \in DOMAIN cached THEN Leased(d, mode)
    ELSE IF IsLookupOk(who, Front(d)) THEN ServerAnswer(d) ELSE {"AccessDenied"}
LokupAnswer(who, d, mode) ==
    IF ~IsLookupOk(who, Front(d)) THEN {"AccessDenied"}
    ELSE IF d \in DOMAIN cached THEN Leased(d, mode) ELSE ServerAnswer(d)
Cache(d, mode) == With(cached, d, mode)
Uncache(d) == Restrict(cached, DOMAIN cached \ {d})

\* Root's lease is static.
Ref(r, d) == IF d = root THEN r ELSE [r EXCEPT ![d] = @ + 1]
\* Mutant: no lease is released.
ReleaseNothing(r, d) == r
Release(r, d) == IF d = root THEN r ELSE [r EXCEPT ![d] = @ - 1]
-----------------------------------------------------------------------------
PathTypeOK ==
    LET Dir == DOMAIN dirs
    IN  /\ root \in Dir /\ \A d \in Dir : d \in Seq(Seq(Char))
        /\ \A d \in Dir : dirs[d] \in [owner : User, mode : Mode \cup {AllPerms}]
        /\ files \subseteq Seq(Seq(Char))
        /\ DOMAIN cached \subseteq Dir /\ \A d \in DOMAIN cached : cached[d] \in LokupMode
        /\ refs \in [Dir -> Nat]
        /\ at \in [Thread -> Seq(Seq(Char)) \cup {NULL}]
        /\ stage \in [Thread -> {"idle", "start", "walk", "target", "failed", "return"}]
        /\ call \in [Thread -> [op : Op, path : Path \cup {NoCall.path}, who : User,
                              at : Seq(Seq(Char)) \cup {NULL}]]
        /\ p \in [Thread -> Nat]
        /\ parent \in [Thread -> Dir \cup {NULL}]
        /\ tgt \in [Thread -> Seq(Char)]
        /\ slashes \in [Thread -> BOOLEAN]
        /\ kept \in [Thread -> Dir \cup {NULL}]
        /\ calls \in 0 .. MaxCalls

PathInit ==
    /\ dirs = With(Existing, root, [owner |-> superuser, mode |-> AllPerms])
    /\ files = {} /\ cached = <<>>
    /\ refs = [d \in DOMAIN dirs |-> 0]
    /\ at = [t \in Thread |-> NULL]
    /\ stage = [t \in Thread |-> "idle"]
    /\ call = [t \in Thread |-> NoCall]
    /\ p = [t \in Thread |-> 1]
    /\ parent = [t \in Thread |-> NULL]
    /\ tgt = [t \in Thread |-> <<>>]
    /\ slashes = [t \in Thread |-> FALSE]
    /\ status = [t \in Thread |-> "OK"]
    /\ kept = [t \in Thread |-> NULL]
    /\ calls = 0

Goto(t, label) == stage' = [stage EXCEPT ![t] = label]

\* A call enters Resolu.
Call(t, op, path, who) ==
    /\ stage[t] = "idle" /\ kept[t] = NULL
    /\ calls < MaxCalls
    /\ calls' = calls + 1
    /\ call' = [call EXCEPT ![t] = [op |-> op, path |-> path, who |-> who, at |-> at[t]]]
    /\ Goto(t, "start")
    /\ UNCHANGED <<dirs, files, cached, refs, at, p, parent, tgt, slashes, status, kept>>

\* Resolu looks up the relative root, and returns without a parent when that fails.
Resolu(t) ==
    /\ stage[t] = "start"
    /\ IF call[t].at = NULL
       THEN /\ parent' = [parent EXCEPT ![t] = root]
            /\ Goto(t, "walk")
            /\ UNCHANGED <<cached, refs, status>>
       ELSE \E s \in LokupAnswer(call[t].who, call[t].at, "Regular") :
            /\ status' = [status EXCEPT ![t] = s]
            /\ IF s = "OK"
               THEN /\ refs' = Ref(refs, call[t].at)
                    /\ cached' = Cache(call[t].at, "Regular")
                    /\ parent' = [parent EXCEPT ![t] = call[t].at]
                    /\ Goto(t, "walk")
               ELSE Goto(t, "return") /\ UNCHANGED <<cached, refs, parent>>
    /\ UNCHANGED <<dirs, files, at, call, p, tgt, slashes, kept, calls>>

\* One round of Resolv: the next name is looked up and the lease of the parent
\* exchanged for that of the child.  An error ends the walk with the parent still held.
Resolv(t) ==
    LET path == call[t].path
        i == SkipEmpty(path, p[t])
        name == NameAfter(path, i)
        child == Append(parent[t], name)
    IN  /\ stage[t] = "walk" /\ ~AtLast(path, i)
        /\ p' = [p EXCEPT ![t] = LookAhead(path, Splitter(path, i)) - 1]
        /\ \E s \in LokupAnswer(call[t].who, child, "Regular") :
            /\ status' = [status EXCEPT ![t] = s]
            /\ IF s = "OK"
               THEN /\ refs' = Release(Ref(refs, child), parent[t])
                    /\ cached' = Cache(child, "Regular")
                    /\ parent' = [parent EXCEPT ![t] = child]
                    /\ UNCHANGED <<stage, tgt>>
               ELSE /\ tgt' = [tgt EXCEPT ![t] = name]
                    /\ Goto(t, "failed")
                    /\ UNCHANGED <<cached, refs, parent>>
        /\ UNCHANGED <<dirs, files, at, call, slashes, kept, calls>>

\* The walk ends before the last component; Resolu looks at what follows it.
Resolved(t) ==
    LET path == call[t].path
        i == SkipEmpty(path, p[t])
    IN  /\ stage[t] = "walk" /\ AtLast(path, i)
        /\ tgt' = [tgt EXCEPT ![t] = NameAfter(path, i)]
        /\ slashes' = [slashes EXCEPT ![t] = HasTailingSlashes(path, i)]
        /\ Goto(t, "target")
        /\ UNCHANGED <<dirs, files, cached, refs, at, call, p, parent, status, kept, calls>>

Target(t) == Append(parent[t], tgt[t])
Entries == DOMAIN dirs \cup files
Finish(t, s) == status' = [status EXCEPT ![t] = s] /\ Goto(t, "return")
Unchanged == UNCHANGED <<call, p, parent, tgt, slashes, calls>>

\* What the server says of a name, after the client's own test of the permissions.
Mkfle2(t) ==
    IF ~IsDirWriteOk(call[t].who, parent[t]) THEN {"AccessDenied"}
    ELSE {"IOError", IF Target(t) \in Entries THEN "AlreadyExists" ELSE "OK"}
Mkdir2(t) ==
    IF ~IsDirWriteOk(call[t].who, parent[t]) THEN {"AccessDenied"}
    ELSE {"IOError", IF Target(t) \in Entries THEN "AlreadyExists" ELSE "OK"}
Lstat2(t) ==
    IF ~IsLookupOk(call[t].who, parent[t]) THEN {"AccessDenied"}
    ELSE {"IOError", IF Target(t) \in Entries THEN "OK" ELSE "NotFound"}

\* Before that, the index of the parent directory is fetched, which may fail.
Mkfle1(t) == {"IOError"} \cup Mkfle2(t)
Mkdir1(t) == {"IOError"} \cup Mkdir2(t)
Lstat1(t) == {"IOError"} \cup Lstat2(t)

Mkfle(t) ==
    /\ stage[t] = "target" /\ call[t].op = "Mkfle"
    /\ IF tgt[t] = <<>> \/ slashes[t] THEN Finish(t, "FileExpected") /\ UNCHANGED files
       ELSE \E s \in Mkfle1(t) :
            /\ Finish(t, s)
            /\ files' = IF s = "OK" THEN files \cup {Target(t)} ELSE files
    /\ Unchanged /\ UNCHANGED <<dirs, cached, refs, at, kept>>

Mkdir(t, mode) ==
    /\ stage[t] = "target" /\ call[t].op = "Mkdir"
    /\ IF tgt[t] = <<>> THEN Finish(t, "AlreadyExists") /\ UNCHANGED <<dirs, refs>>
       ELSE \E s \in Mkdir1(t) :
            /\ Finish(t, s)
            /\ IF s = "OK"
               THEN /\ dirs' = With(dirs, Target(t), [owner |-> call[t].who, mode |-> mode])
                    /\ refs' = With(refs, Target(t), 0)
               ELSE UNCHANGED <<dirs, refs>>
    /\ Unchanged /\ UNCHANGED <<files, cached, at, kept>>

\* With slashes behind the name, a stat that is not one of a directory makes Lstat
\* answer DirExpected.  When Lstat1 has failed the stat is whatever was in it before.
Lstat(t) ==
    /\ stage[t] = "target" /\ call[t].op = "Lstat"
    /\ \/ tgt[t] = <<>> /\ Finish(t, "OK")
       \/ /\ tgt[t] # <<>>
          /\ \E s \in Lstat1(t) : \E is_dir \in BOOLEAN :
                /\ s = "OK" => is_dir = (Target(t) \in DOMAIN dirs)
                /\ Finish(t, IF slashes[t] /\ ~is_dir THEN "DirExpected" ELSE s)
    /\ Unchanged /\ UNCHANGED <<dirs, files, cached, refs, at, kept>>

\* The handle is the target seen from its parent; a path without names gives no handle.
Atdir(t) ==
    /\ stage[t] = "target" /\ call[t].op = "Atdir"
    /\ at' = [at EXCEPT ![t] = IF tgt[t] = <<>> THEN NULL ELSE Target(t)]
    /\ Finish(t, "OK")
    /\ Unchanged /\ UNCHANGED <<dirs, files, cached, refs, kept>>

\* BatchInit and BulkInit look up the target itself, in a mode of their own, and keep
\* the lease.
InitContext(t, mode) ==
    /\ \/ /\ tgt[t] = <<>> /\ Finish(t, "NotSupported")
          /\ UNCHANGED <<cached, refs, kept>>
       \/ /\ tgt[t] # <<>>
          /\ \E s \in LokupAnswer(call[t].who, Target(t), mode) :
                /\ Finish(t, s)
                /\ IF s = "OK"
                   THEN /\ refs' = Ref(refs, Target(t))
                        /\ cached' = Cache(Target(t), mode)
                        /\ kept' = [kept EXCEPT ![t] = Target(t)]
                   ELSE UNCHANGED <<cached, refs, kept>>
    /\ Unchanged /\ UNCHANGED <<dirs, files, at>>

BatchInit(t) ==
    /\ stage[t] = "target" /\ call[t].op = "BatchInit"
    /\ InitContext(t, "BatchedCreats")
BulkInit(t) ==
    /\ stage[t] = "target" /\ call[t].op = "BulkInit"
    /\ InitContext(t, "BulkIn")

\* Every call releases its parent directory, if it has one, and returns.
Return(t) ==
    /\ stage[t] \in {"failed", "return"}
    /\ refs' = IF parent[t] = NULL THEN refs ELSE Release(refs, parent[t])
    /\ parent' = [parent EXCEPT ![t] = NULL]
    /\ tgt' = [tgt EXCEPT ![t] = <<>>]
    /\ call' = [call EXCEPT ![t] = NoCall]
    /\ p' = [p EXCEPT ![t] = 1]
    /\ slashes' = [slashes EXCEPT ![t] = FALSE]
    /\ status' = [status EXCEPT ![t] = "OK"]
    /\ Goto(t, "idle")
    /\ UNCHANGED <<dirs, files, cached, at, kept, calls>>

\* Destroy(BAT) and Destroy(BULK): with the last handle the lease itself goes, so that
\* the directory can be looked up for regular operations again.
Destroy(t) ==
    /\ stage[t] = "idle" /\ kept[t] # NULL
    /\ refs' = Release(refs, kept[t])
    /\ kept' = [kept EXCEPT ![t] = NULL]
    /\ cached' = IF \E u \in Thread \ {t} : kept[u] = kept[t] THEN cached ELSE Uncache(kept[t])
    /\ UNCHANGED <<dirs, files, at, stage, call, p, parent, tgt, slashes, status, calls>>

\* Leases nobody uses leave the cache at any time (capacity, expiry).
Forget(d) ==
    /\ d \in DOMAIN cached /\ refs[d] = 0
    /\ cached' = Uncache(d)
    /\ UNCHANGED <<dirs, files, refs, at, stage, call, p, parent, tgt, slashes, status, kept, calls>>

PathNext ==
    \/ \E t \in Thread :
        \/ \E op \in Op, path \in Path, who \in User : Call(t, op, path, who)
        \/ Resolu(t) \/ Resolv(t) \/ Resolved(t)
        \/ Mkfle(t) \/ (\E mode \in Mode : Mkdir(t, mode)) \/ Lstat(t) \/ Atdir(t)
        \/ BatchInit(t) \/ BulkInit(t) \/ Return(t) \/ Destroy(t)
    \/ \E d \in DOMAIN cached : Forget(d)

PathSpec == PathInit /\ [][PathNext]_pathVars
-----------------------------------------------------------------------------
RootOf(t) == IF call[t].at = NULL THEN root ELSE call[t].at

\* Whatever way a path is written, with slashes repeated or at its end, Resolv stops
\* at the directory and the name that its non-empty names denote (fscli.cc 537-605).
ResolvesRight ==
    \A t \in Thread : stage[t] = "target" =>
        LET names == Components(call[t].path)
        IN  /\ parent[t] \o (IF tgt[t] = <<>> THEN <<>> ELSE <<tgt[t]>>)
                 = RootOf(t) \o names
            /\ slashes[t] <=> names # <<>> /\ Last(call[t].path) = "/"

\* References to leases are exactly those of walks and open batches: no error path
\* leaks one or gives one back twice, and an idle client holds none.
LeaseRefsExact ==
    \A d \in DOMAIN dirs \ {root} :
        refs[d] = Cardinality({t \in Thread : parent[t] = d})
                  + Cardinality({t \in Thread : kept[t] = d})

\* A walk only gets beneath directories its user may search, also where another
\* user's lookup has left the lease in the cache.
WalkPermitted ==
    \A t \in Thread : parent[t] # NULL =>
        \A n \in Len(RootOf(t)) .. Len(parent[t]) - 1 :
            IsLookupOk(call[t].who, SubSeq(parent[t], 1, n))
=============================================================================
