----------------------------- MODULE MCRpcCalls -----------------------------
(* Small instances of RpcCalls for TLC. *)
EXTENDS RpcCalls, TLC
MCParent == [dno |-> 1, ino |-> 6, due |-> 31, zsrv |-> 2, mode |-> 3, uid |-> 1, gid |-> 2]
MCNotFound == <<3>>
Plain(op, name) ==
    [op |-> op, parent |-> MCParent, name |-> name, uid |-> 1, gid |-> 2,
     n |-> IF op = "Mkfls" THEN 1 ELSE 0,
     mode |-> IF op \in {"Mkdir", "Mkfle", "Mkfls"} THEN 2 ELSE 0]
MCRequests == {Plain(op, name) : op \in Op, name \in {<<1, 2>>, MCNotFound}}
=============================================================================
