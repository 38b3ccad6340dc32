---------------------------- MODULE MCFilesystem ----------------------------
(* Small instances of Filesystem for TLC. *)
EXTENDS Filesystem, TLC

CONSTANTS d1, d2, n1, n2, n3

ways == (n1 :> 0) @@ (n2 :> 1) @@ (n3 :> 0)

R(op, d, names) == [op |-> op, dir |-> d, names |-> names, lease |-> "ok"]

\* One writable directory d1 with a name subset that two names share, another
\* directory d2 that competes for the cache, and a name of the readonly chain.
MCWayOf == [n \in Name |-> ways[n]]
MCOwned == Slot \ {<<d2, n2>>}
MCReadonlyDb == [s \in Slot |-> IF s = <<d1, n3>> THEN [kind |-> "dir", ino |-> 7] ELSE NoEnt]

\* Every operation, with every way its checks can end.
AllRequests ==
    {R("Mkfle", d1, <<n1>>), R("Mkdir", d1, <<n1>>), R("Mkfle", d1, <<n3>>),
     R("Mkfls", d1, <<n1, n2>>), R("Mkfls", d1, <<>>), R("Mkfls", d1, <<n2, n2>>), R("Bukin", d1, <<n2>>),
     R("Lokup", d1, <<n1>>), R("Lstat", d1, <<n2>>), R("Mkfle", d2, <<n2>>),
     [R("Mkfls", d1, <<n1, n2>>) EXCEPT !.lease = "expired"],
     [R("Mkfle", d2, <<n1>>) EXCEPT !.lease = "denied"]}

\* Calls in one directory that lock one name subset or all of them.
LockRequests ==
    {R("Mkfle", d1, <<n2>>), R("Mkfls", d1, <<n1>>), R("Bukin", d1, <<n2>>)}

Symmetry == Permutations(Thread) \cup Permutations(Block)
=============================================================================
