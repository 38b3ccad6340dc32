------------------------------ MODULE RpcCalls ------------------------------
(***************************************************************************)
(* A metadata call on its way through the rpc layer (fscom.cc, fssvr.cc):  *)
(* the client stub encodes the request, the server's dispatch table picks  *)
(* the operation, which decodes it, calls the filesystem and encodes the   *)
(* answer, and the stub decodes that.  In between are the two transports   *)
(* of posix_rpc_udp.cc and posix_rpc_tcp.cc.                               *)
(*                                                                         *)
(* A message is a sequence of words.  A 32-bit field is one word, a 64-bit *)
(* field two, the low one first; the length of a name and its characters   *)
(* are a word each.                                                        *)
(***************************************************************************)
EXTENDS Integers, Sequences

CONSTANTS Stub,      \* client stubs, each used by one thread at a time
          Request,   \* the calls that are made
          Udp,       \* the stubs that use UDP; the others use TCP
          MaxMsg,    \* udp_max_incoming_msgsz, in words
          MaxCalls,  \* bound: calls that are made
          NotFound,  \* a name no directory has, to get an error code back
          Word       \* a word is a number below this

Op == {"Lokup", "Mkdir", "Mkfle", "Mkfls", "Bukin", "Lstat"}
Half == 0 .. Word - 1    \* a word
LookupStat == [dno : 0 .. Word * Word - 1, ino : 0 .. Word * Word - 1,
               due : 0 .. Word * Word - 1, zsrv : Half, mode : Half, uid : Half, gid : Half]

ASSUME RpcAssumption ==
    /\ Udp \subseteq Stub /\ MaxMsg \in Nat /\ MaxCalls \in Nat
    /\ Word \in Nat /\ Word > 5    \* every operation has a code
    /\ Request # {}
    /\ \A q \in Request : /\ q.op \in Op /\ q.parent \in LookupStat
                          /\ q.name \in Seq(Half) /\ Len(q.name) \in Half
                          /\ q.uid \in Half /\ q.gid \in Half
                          /\ q.n \in Half /\ q.mode \in Half
                          \* What a call has no field for is 0.
                          /\ q.op # "Mkfls" => q.n = 0
                          /\ q.op \in {"Lokup", "Bukin", "Lstat"} => q.mode = 0
    /\ NotFound \in Seq(Half)

VARIABLES pc, req, conn,     \* the call a stub is in, and the number of it
          requests, replies, \* messages under way or in a socket
          result, calls,
          stale              \* stubs whose call failed or whose datagram came twice: one
                             \* more reply may come

vars == <<pc, req, conn, requests, replies, result, calls, stale>>
-----------------------------------------------------------------------------
(* Encoding and decoding.                                                   *)
Code == [Lokup |-> 0, Mkdir |-> 1, Mkfle |-> 2, Mkfls |-> 3, Bukin |-> 4, Lstat |-> 5]

EncodeFixed64(v) == <<v % Word, v \div Word>>
DecodeFixed64(w, i) == w[i] + Word * w[i + 1]

EncodeLookupStat(s) ==
    EncodeFixed64(s.dno) \o EncodeFixed64(s.ino) \o EncodeFixed64(s.due)
        \o <<s.zsrv, s.mode, s.uid, s.gid>>
GetLookupStat(w) ==
    [dno |-> DecodeFixed64(w, 1), ino |-> DecodeFixed64(w, 3), due |-> DecodeFixed64(w, 5),
     zsrv |-> w[7], mode |-> w[8], uid |-> w[9], gid |-> w[10]]
EncodeStat(s) ==
    EncodeFixed64(s.dno) \o EncodeFixed64(s.ino) \o <<s.mode, s.uid, s.gid>>
GetStat(w) ==
    [dno |-> DecodeFixed64(w, 1), ino |-> DecodeFixed64(w, 3),
     mode |-> w[5], uid |-> w[6], gid |-> w[7]]

\* What all requests begin with: operation, parent directory, name, user.
Prefix(q) ==
    <<Code[q.op]>> \o EncodeLookupStat(q.parent) \o <<Len(q.name)>> \o q.name
        \o <<q.uid, q.gid>>

\* The requests the client stubs make.  The name of Mkfls is an array of names, that
\* of Bukin a directory of tables.
LokupCli(q) == Prefix(q)
MkdirCli(q) == Prefix(q) \o <<q.mode>>
MkfleCli(q) == Prefix(q) \o <<q.mode>>
MkflsCli(q) == Prefix(q) \o <<q.n, q.mode>>
BukinCli(q) == Prefix(q)
LstatCli(q) == Prefix(q)

EncodeRequest(q) ==
    CASE q.op = "Lokup" -> LokupCli(q) [] q.op = "Mkdir" -> MkdirCli(q)
      [] q.op = "Mkfle" -> MkfleCli(q) [] q.op = "Mkfls" -> MkflsCli(q)
      [] q.op = "Bukin" -> BukinCli(q) [] q.op = "Lstat" -> LstatCli(q)

\* Decoding of a request with k words behind the name; Field(m, i) is one of them.
Decodable(m, k) == Len(m) >= 12 /\ Len(m) >= 12 + m[12] + k
Field(m, i) == m[12 + m[12] + i]
Decoded(op, m) ==
    [op |-> op, parent |-> GetLookupStat(SubSeq(m, 2, 11)), name |-> SubSeq(m, 13, 12 + m[12]),
     uid |-> Field(m, 1), gid |-> Field(m, 2), n |-> 0, mode |-> 0]

\* The filesystem behind the server, seen from here: an answer that depends on every
\* argument, so that one lost or exchanged on the way shows in it.
FsAnswer(q) ==
    IF q.name = NotFound THEN [err |-> 1]
    ELSE LET id == q.parent.ino + Len(q.name)
             stat == [dno |-> q.parent.dno, ino |-> id % (Word * Word),
                      mode |-> (q.mode + q.parent.mode) % Word, uid |-> q.uid, gid |-> q.gid]
         IN  IF q.op = "Lokup"
             THEN [err |-> 0, val |-> [dno |-> stat.dno, ino |-> stat.ino,
                                       due |-> q.parent.due, zsrv |-> q.parent.zsrv,
                                       mode |-> stat.mode, uid |-> stat.uid, gid |-> stat.gid]]
             ELSE IF q.op = "Mkfls" THEN [err |-> 0, val |-> q.n]
             ELSE IF q.op = "Bukin" THEN [err |-> 0, val |-> 0] ELSE [err |-> 0, val |-> stat]

\* An error code, then the value of a call that succeeded.
BadRequest == <<>>
Reply(a, Encode(_)) == IF a.err # 0 THEN <<a.err>> ELSE <<0>> \o Encode(a.val)

LokupOperation(m) ==
    IF ~Decodable(m, 2) THEN BadRequest
    ELSE Reply(FsAnswer(Decoded("Lokup", m)), EncodeLookupStat)
MkdirOperation(m) ==
    IF ~Decodable(m, 3) THEN BadRequest
    ELSE Reply(FsAnswer([Decoded("Mkdir", m) EXCEPT !.mode = Field(m, 3)]), EncodeStat)
MkfleOperation(m) ==
    IF ~Decodable(m, 3) THEN BadRequest
    ELSE Reply(FsAnswer([Decoded("Mkfle", m) EXCEPT !.mode = Field(m, 3)]), EncodeStat)
MkflsOperation(m) ==
    IF ~Decodable(m, 4) THEN BadRequest
    ELSE Reply(FsAnswer([Decoded("Mkfls", m) EXCEPT !.n = Field(m, 3), !.mode = Field(m, 4)]),
               LAMBDA n : <<n>>)
BukinOperation(m) ==
    IF ~Decodable(m, 2) THEN BadRequest
    ELSE Reply(FsAnswer(Decoded("Bukin", m)), LAMBDA v : <<>>)
LstatOperation(m) ==
    IF ~Decodable(m, 2) THEN BadRequest
    ELSE Reply(FsAnswer(Decoded("Lstat", m)), EncodeStat)

\* The routing table of the server.
hmap(op, m) ==
    CASE op = 0 -> LokupOperation(m) [] op = 1 -> MkdirOperation(m)
      [] op = 2 -> MkfleOperation(m) [] op = 3 -> MkflsOperation(m)
      [] op = 4 -> BukinOperation(m) [] op = 5 -> LstatOperation(m)

\* FilesystemServer::Call.
ServerCall(m) == IF m = <<>> THEN BadRequest ELSE hmap(m[1], m)

\* The stubs' side of a reply: `size' words of value are wanted.
Corruption == [err |-> -1]
Disconnected == [err |-> -2]
Ret(m, size, Get(_)) ==
    IF m = <<>> THEN Corruption
    ELSE IF m[1] # 0 THEN [err |-> m[1]]
    ELSE IF Len(m) - 1 < size THEN Corruption
    ELSE [err |-> 0, val |-> Get(Tail(m))]

LokupRet(m) == Ret(m, 10, GetLookupStat)
MkdirRet(m) == Ret(m, 7, GetStat)
MkfleRet(m) == Ret(m, 7, GetStat)
MkflsRet(m) == Ret(m, 1, Head)
BukinRet(m) == Ret(m, 0, LAMBDA v : 0)
LstatRet(m) == Ret(m, 7, GetStat)

DecodeReply(op, m) ==
    CASE op = "Lokup" -> LokupRet(m) [] op = "Mkdir" -> MkdirRet(m)
      [] op = "Mkfle" -> MkfleRet(m) [] op = "Mkfls" -> MkflsRet(m)
      [] op = "Bukin" -> BukinRet(m) [] op = "Lstat" -> LstatRet(m)
-----------------------------------------------------------------------------
None == [err |-> -3]

TypeOK ==
    /\ pc \in [Stub -> {"idle", "called"}]
    /\ req \in [Stub -> Request]
    /\ conn \in [Stub -> 0 .. MaxCalls]
    /\ \A m \in requests \cup replies :
        /\ m.stub \in Stub /\ m.conn \in 0 .. MaxCalls
        /\ m.msg \in Seq(Half) /\ m.copy \in BOOLEAN
    /\ calls \in 0 .. MaxCalls /\ stale \subseteq Stub

Init ==
    /\ pc = [c \in Stub |-> "idle"]
    /\ req = [c \in Stub |-> CHOOSE q \in Request : TRUE]
    /\ conn = [c \in Stub |-> 0]
    /\ requests = {} /\ replies = {}
    /\ result = [c \in Stub |-> None]
    /\ calls = 0 /\ stale = {}

\* The stub's Call: one message out.  UDP keeps its socket from call to call, TCP
\* connects anew.
Send(c, q) ==
    /\ pc[c] = "idle" /\ calls < MaxCalls
    /\ calls' = calls + 1
    /\ pc' = [pc EXCEPT ![c] = "called"]
    /\ req' = [req EXCEPT ![c] = q]
    /\ conn' = [conn EXCEPT ![c] = calls + 1]
    /\ result' = [result EXCEPT ![c] = None]
    /\ requests' = requests \cup {[stub |-> c, conn |-> calls + 1, msg |-> EncodeRequest(q),
                                    copy |-> FALSE]}
    /\ UNCHANGED <<replies, stale>>

\* A datagram that is too long for the buffer it is received in loses its end.
Received(r) == IF r.stub \in Udp /\ Len(r.msg) > MaxMsg THEN SubSeq(r.msg, 1, MaxMsg) ELSE r.msg

\* To a request that it cannot decode, a UDP server does not reply; TCP closes.
Handle(r) ==
    LET answer == ServerCall(Received(r))
    IN  /\ requests' = requests \ {r}
        /\ replies' = IF answer = BadRequest /\ r.stub \in Udp THEN replies
                      ELSE replies \cup {[r EXCEPT !.msg = answer]}
        /\ UNCHANGED <<pc, req, conn, result, calls, stale>>

\* UDP loses messages; a TCP connection that breaks delivers the first part of one.
Lose(m) ==
    /\ requests' = requests \ {m}
    /\ replies' = IF m.stub \in Udp THEN replies \ {m}
                  ELSE {IF x = m THEN [x EXCEPT !.msg = SubSeq(@, 1, Len(@) - 1)] ELSE x :
                        x \in replies}
    /\ UNCHANGED <<pc, req, conn, result, calls, stale>>

\* UDP may deliver a datagram twice.
Duplicate(m) ==
    /\ m.stub \in Udp /\ ~m.copy
    /\ LET again == {[m EXCEPT !.copy = TRUE]}
       IN \/ m \in requests /\ requests' = requests \cup again /\ UNCHANGED replies
          \/ m \in replies /\ replies' = replies \cup again /\ UNCHANGED requests
    /\ stale' = stale \cup {m.stub}
    /\ UNCHANGED <<pc, req, conn, result, calls>>

\* Mutant: a reply is taken from any connection of the stub.
MineAny(c, m) == m.stub = c
\* What the client takes for the reply to its call: with UDP whatever is in the socket.
Mine(c, m) == m.stub = c /\ (c \in Udp \/ m.conn = conn[c])

Receive(c, m) ==
    /\ pc[c] = "called" /\ Mine(c, m)
    /\ replies' = replies \ {m}
    /\ result' = [result EXCEPT ![c] = DecodeReply(req[c].op, m.msg)]
    /\ pc' = [pc EXCEPT ![c] = "idle"]
    /\ UNCHANGED <<req, conn, requests, calls, stale>>

\* A call that fails without a reply: nothing comes in time, or send, recv or poll, or
\* with TCP connect, reports an error.
Timeout(c) ==
    /\ pc[c] = "called"
    /\ result' = [result EXCEPT ![c] = Disconnected]
    /\ pc' = [pc EXCEPT ![c] = "idle"]
    /\ stale' = stale \cup {c}
    /\ UNCHANGED <<req, conn, requests, replies, calls>>

Next ==
    \/ \E c \in Stub, q \in Request : Send(c, q)
    \/ \E r \in requests : Handle(r)
    \/ \E m \in requests \cup replies : Lose(m) \/ Duplicate(m)
    \/ \E c \in Stub, m \in replies : Receive(c, m)
    \/ \E c \in Stub : Timeout(c)

Spec == Init /\ [][Next]_vars
-----------------------------------------------------------------------------
Answered(c) == result[c] \in {None, Disconnected, Corruption, FsAnswer(req[c])}

\* A call returns what the filesystem answered to this very call, or an error of the
\* transport: encoding and decoding lose nothing, cut messages are noticed, and no
\* reply is taken for that to another call.  Excepted are UDP stubs after a call that
\* failed or a datagram that was delivered twice, as one more reply may be to come:
\* messages have no numbers to tell it by.
OwnAnswer == \A c \in Stub : (c \in Udp /\ c \in stale) \/ Answered(c)
=============================================================================
