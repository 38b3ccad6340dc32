--------------------------- MODULE RpcCallsProofs ---------------------------
(***************************************************************************)
(* Proofs that a call gets the answer to itself, for any requests, names,  *)
(* word size, buffer size and number of stubs.                             *)
(***************************************************************************)
EXTENDS RpcCalls, SequenceTheorems, TLAPS

LEMMA Words ==
    /\ Word \in Nat /\ Word > 5 /\ MaxMsg \in Nat
    /\ \A v \in 0 .. Word * Word - 1 :
          v \in Nat /\ v % Word \in Half /\ v \div Word \in Half
          /\ (v % Word) + Word * (v \div Word) = v
    /\ {0, 1, 2, 3, 4, 5} \subseteq Half /\ Half \subseteq Nat
  <1>1. Word \in Nat /\ Word > 5 /\ MaxMsg \in Nat
    BY RpcAssumption
  <1>2. {0, 1, 2, 3, 4, 5} \subseteq Half /\ Half \subseteq Nat
    BY <1>1 DEF Half
  <1>3. ASSUME NEW v \in 0 .. Word * Word - 1
        PROVE  v \in Nat /\ v % Word \in Half /\ v \div Word \in Half
               /\ (v % Word) + Word * (v \div Word) = v
    <2>1. Word * Word \in Nat /\ v \in Nat /\ v < Word * Word
      BY <1>1
    <2>2. v % Word \in 0 .. Word - 1 /\ v \div Word \in Nat /\ (v % Word) + Word * (v \div Word) = v
      BY <1>1, <2>1
    <2>3. v \div Word < Word
      <3> DEFINE d == v \div Word
      <3>1. d \in Nat /\ Word * d <= v
        BY <1>1, <2>1, <2>2
      <3> HIDE DEF d
      <3>2. SUFFICES ASSUME d >= Word PROVE FALSE
        BY <3>1, <1>1 DEF d
      <3>3. PICK k \in Nat : d = Word + k
        <4>1. d - Word \in Nat /\ d = Word + (d - Word)
          BY <1>1, <3>1, <3>2
        <4> QED BY <4>1
      <3>4. Word * d = Word * Word + Word * k /\ Word * k \in Nat
        BY <1>1, <3>3
      <3> QED BY <1>1, <2>1, <3>1, <3>4
    <2> QED BY <1>1, <2>1, <2>2, <2>3 DEF Half
  <1> QED BY <1>1, <1>2, <1>3

LEMMA RequestFacts ==
    ASSUME NEW q \in Request
    PROVE  /\ q.op \in Op /\ q.parent \in LookupStat
           /\ q.name \in Seq(Half) /\ Len(q.name) \in Half /\ Len(q.name) \in Nat
           /\ q.uid \in Half /\ q.gid \in Half /\ q.n \in Half /\ q.mode \in Half
           /\ q.op # "Mkfls" => q.n = 0
           /\ q.op \in {"Lokup", "Bukin", "Lstat"} => q.mode = 0
  BY RpcAssumption

\* x has the words of u, then those of v.
Joins(x, u, v) ==
    /\ x \in Seq(Half) /\ Len(x) = Len(u) + Len(v)
    /\ \A i \in 1 .. Len(u) + Len(v) : x[i] = IF i <= Len(u) THEN u[i] ELSE v[i - Len(u)]

LEMMA Joined ==
    ASSUME NEW u \in Seq(Half), NEW v \in Seq(Half)
    PROVE  Joins(u \o v, u, v)
  BY DEF Joins

\* The words of an encoded stat.
LEMMA Encode64 ==
    ASSUME NEW v \in 0 .. Word * Word - 1
    PROVE  /\ EncodeFixed64(v) \in Seq(Half) /\ Len(EncodeFixed64(v)) = 2
           /\ EncodeFixed64(v)[1] + Word * EncodeFixed64(v)[2] = v
  <1> DEFINE a == v % Word
             b == v \div Word
  <1>1. a \in Half /\ b \in Half /\ a + Word * b = v
    BY Words
  <1>2. EncodeFixed64(v) = <<a, b>>
    BY DEF EncodeFixed64
  <1> HIDE DEF a, b
  <1> QED BY <1>1, <1>2

LEMMA LookupStatWords ==
    ASSUME NEW s \in LookupStat
    PROVE  /\ EncodeLookupStat(s) \in Seq(Half) /\ Len(EncodeLookupStat(s)) = 10
           /\ GetLookupStat(EncodeLookupStat(s)) = s
  <1> DEFINE a == EncodeFixed64(s.dno)
             b == EncodeFixed64(s.ino)
             c == EncodeFixed64(s.due)
             d == <<s.zsrv, s.mode, s.uid, s.gid>>
             x == a \o b
             y == x \o c
             w == y \o d
  <1>1. /\ a \in Seq(Half) /\ Len(a) = 2 /\ a[1] + Word * a[2] = s.dno
        /\ b \in Seq(Half) /\ Len(b) = 2 /\ b[1] + Word * b[2] = s.ino
        /\ c \in Seq(Half) /\ Len(c) = 2 /\ c[1] + Word * c[2] = s.due
    BY Encode64 DEF LookupStat
  <1>2. /\ d \in Seq(Half) /\ Len(d) = 4
        /\ d[1] = s.zsrv /\ d[2] = s.mode /\ d[3] = s.uid /\ d[4] = s.gid
    BY DEF LookupStat
  <1>3. w = EncodeLookupStat(s)
    BY DEF EncodeLookupStat
  <1> HIDE DEF a, b, c, d
  <1>4. Joins(x, a, b)
    BY <1>1, Joined
  <1> HIDE DEF x
  <1>5. x \in Seq(Half) /\ Len(x) = 4 /\ x[1] = a[1] /\ x[2] = a[2] /\ x[3] = b[1] /\ x[4] = b[2]
    BY <1>1, <1>4 DEF Joins
  <1>6. Joins(y, x, c)
    BY <1>1, <1>5, Joined
  <1> HIDE DEF y
  <1>7. /\ y \in Seq(Half) /\ Len(y) = 6
        /\ y[1] = a[1] /\ y[2] = a[2] /\ y[3] = b[1] /\ y[4] = b[2] /\ y[5] = c[1] /\ y[6] = c[2]
    BY <1>1, <1>5, <1>6 DEF Joins
  <1>8. Joins(w, y, d)
    BY <1>2, <1>7, Joined
  <1> HIDE DEF w
  <1>9. /\ w \in Seq(Half) /\ Len(w) = 10
        /\ w[1] = a[1] /\ w[2] = a[2] /\ w[3] = b[1] /\ w[4] = b[2] /\ w[5] = c[1] /\ w[6] = c[2]
        /\ w[7] = d[1] /\ w[8] = d[2] /\ w[9] = d[3] /\ w[10] = d[4]
    BY <1>2, <1>7, <1>8 DEF Joins
  <1>10. GetLookupStat(w) = s
    BY <1>1, <1>2, <1>9 DEF GetLookupStat, DecodeFixed64, LookupStat
  <1> QED BY <1>3, <1>9, <1>10

Stat == [dno : 0 .. Word * Word - 1, ino : 0 .. Word * Word - 1,
         mode : Half, uid : Half, gid : Half]

LEMMA StatWords ==
    ASSUME NEW s \in Stat
    PROVE  /\ EncodeStat(s) \in Seq(Half) /\ Len(EncodeStat(s)) = 7
           /\ GetStat(EncodeStat(s)) = s
  <1> DEFINE a == EncodeFixed64(s.dno)
             b == EncodeFixed64(s.ino)
             d == <<s.mode, s.uid, s.gid>>
             x == a \o b
             w == x \o d
  <1>1. /\ a \in Seq(Half) /\ Len(a) = 2 /\ a[1] + Word * a[2] = s.dno
        /\ b \in Seq(Half) /\ Len(b) = 2 /\ b[1] + Word * b[2] = s.ino
    BY Encode64 DEF Stat
  <1>2. d \in Seq(Half) /\ Len(d) = 3 /\ d[1] = s.mode /\ d[2] = s.uid /\ d[3] = s.gid
    BY DEF Stat
  <1>3. w = EncodeStat(s)
    BY DEF EncodeStat
  <1> HIDE DEF a, b, d
  <1>4. Joins(x, a, b)
    BY <1>1, Joined
  <1> HIDE DEF x
  <1>5. x \in Seq(Half) /\ Len(x) = 4 /\ x[1] = a[1] /\ x[2] = a[2] /\ x[3] = b[1] /\ x[4] = b[2]
    BY <1>1, <1>4 DEF Joins
  <1>6. Joins(w, x, d)
    BY <1>2, <1>5, Joined
  <1> HIDE DEF w
  <1>7. /\ w \in Seq(Half) /\ Len(w) = 7
        /\ w[1] = a[1] /\ w[2] = a[2] /\ w[3] = b[1] /\ w[4] = b[2]
        /\ w[5] = d[1] /\ w[6] = d[2] /\ w[7] = d[3]
    BY <1>2, <1>5, <1>6 DEF Joins
  <1>8. GetStat(w) = s
    BY <1>1, <1>2, <1>7 DEF GetStat, DecodeFixed64, Stat
  <1> QED BY <1>3, <1>7, <1>8
-----------------------------------------------------------------------------
(***************************************************************************)
(* Requests.  Begins(m, q): the words of m up to the user are those of q.  *)
(***************************************************************************)
Begins(m, q) ==
    /\ m \in Seq(Half) /\ Len(m) >= 14 + Len(q.name)
    /\ m[1] = Code[q.op]
    /\ \A i \in 1 .. 10 : m[i + 1] = EncodeLookupStat(q.parent)[i]
    /\ m[12] = Len(q.name)
    /\ \A i \in 1 .. Len(q.name) : m[12 + i] = q.name[i]
    /\ m[13 + Len(q.name)] = q.uid /\ m[14 + Len(q.name)] = q.gid

LEMMA PrefixWords ==
    ASSUME NEW q \in Request
    PROVE  Begins(Prefix(q), q) /\ Len(Prefix(q)) = 14 + Len(q.name)
  <1> DEFINE a == <<Code[q.op]>>
             b == EncodeLookupStat(q.parent)
             c == <<Len(q.name)>>
             d == q.name
             e == <<q.uid, q.gid>>
             L == Len(q.name)
             x == a \o b
             y == x \o c
             z == y \o d
             w == z \o e
  <1>1. /\ a \in Seq(Half) /\ Len(a) = 1 /\ a[1] = Code[q.op]
    <2>1. Code[q.op] \in Half
      BY RequestFacts, Words DEF Op, Code
    <2> QED BY <2>1
  <1>2. b \in Seq(Half) /\ Len(b) = 10
    BY RequestFacts, LookupStatWords
  <1>3. c \in Seq(Half) /\ Len(c) = 1 /\ c[1] = L /\ d \in Seq(Half) /\ Len(d) = L /\ L \in Nat
    BY RequestFacts
  <1>4. e \in Seq(Half) /\ Len(e) = 2 /\ e[1] = q.uid /\ e[2] = q.gid
    BY RequestFacts
  <1>5. w = Prefix(q)
    BY DEF Prefix
  <1>6. L = Len(q.name) /\ d = q.name
    OBVIOUS
  <1> HIDE DEF a, b, c, d, e, L
  <1>7. Joins(x, a, b)
    BY <1>1, <1>2, Joined
  <1> HIDE DEF x
  <1>8. x \in Seq(Half) /\ Len(x) = 11 /\ x[1] = a[1] /\ \A i \in 1 .. 10 : x[i + 1] = b[i]
    BY <1>1, <1>2, <1>7 DEF Joins
  <1>9. Joins(y, x, c)
    BY <1>3, <1>8, Joined
  <1> HIDE DEF y
  <1>10. /\ y \in Seq(Half) /\ Len(y) = 12 /\ y[1] = a[1] /\ y[12] = L
         /\ \A i \in 1 .. 10 : y[i + 1] = b[i]
    BY <1>3, <1>8, <1>9 DEF Joins
  <1>11. Joins(z, y, d)
    BY <1>3, <1>10, Joined
  <1> HIDE DEF z
  <1>12. /\ z \in Seq(Half) /\ Len(z) = 12 + L /\ z[1] = a[1] /\ z[12] = L
         /\ \A i \in 1 .. 10 : z[i + 1] = b[i]
         /\ \A i \in 1 .. L : z[12 + i] = d[i]
    <2>1. z \in Seq(Half) /\ Len(z) = 12 + L
      BY <1>3, <1>10, <1>11 DEF Joins
    <2>2. \A i \in 1 .. 12 : z[i] = y[i]
      BY <1>3, <1>10, <1>11 DEF Joins
    <2>3. \A i \in 1 .. L : z[12 + i] = d[i]
      BY <1>3, <1>10, <1>11 DEF Joins
    <2>4. \A i \in 1 .. 10 : z[i + 1] = y[i + 1]
      BY <2>2
    <2> QED BY <1>10, <2>1, <2>2, <2>3, <2>4
  <1>13. Joins(w, z, e)
    BY <1>4, <1>12, Joined
  <1> HIDE DEF w
  <1>14. /\ w \in Seq(Half) /\ Len(w) = 14 + L /\ w[1] = a[1] /\ w[12] = L
         /\ \A i \in 1 .. 10 : w[i + 1] = b[i]
         /\ \A i \in 1 .. L : w[12 + i] = d[i]
         /\ w[13 + L] = e[1] /\ w[14 + L] = e[2]
    BY <1>3, <1>4, <1>12, <1>13 DEF Joins
  <1>15. Begins(w, q)
    BY <1>1, <1>4, <1>6, <1>14 DEF Begins, b
  <1> QED BY <1>5, <1>6, <1>14, <1>15

\* What the requests have behind the user.
Rest(q) == CASE q.op \in {"Mkdir", "Mkfle"} -> <<q.mode>> [] q.op = "Mkfls" -> <<q.n, q.mode>>
             [] OTHER -> <<>>

LEMMA RequestWords ==
    ASSUME NEW q \in Request
    PROVE  /\ Begins(EncodeRequest(q), q)
           /\ Len(EncodeRequest(q)) = 14 + Len(q.name) + Len(Rest(q))
           /\ \A i \in 1 .. Len(Rest(q)) : EncodeRequest(q)[14 + Len(q.name) + i] = Rest(q)[i]
  <1> DEFINE p == Prefix(q)
             t == Rest(q)
             x == p \o t
             m == EncodeRequest(q)
             L == Len(q.name)
  <1>1. Begins(p, q) /\ Len(p) = 14 + L /\ p \in Seq(Half) /\ L \in Nat
    BY PrefixWords, RequestFacts DEF Begins
  <1>2. t \in Seq(Half) /\ Len(t) \in Nat
    BY RequestFacts DEF Rest
  <1>3. CASE t # <<>>
    <2>1. m = x
      BY <1>3, RequestFacts DEF EncodeRequest, MkdirCli, MkfleCli, MkflsCli, Rest
    <2>5. L = Len(q.name)
      OBVIOUS
    <2> HIDE DEF p, t, L
    <2>2. Joins(x, p, t)
      BY <1>1, <1>2, Joined
    <2> HIDE DEF x
    <2>3. /\ x \in Seq(Half) /\ Len(x) = 14 + L + Len(t)
          /\ \A i \in 1 .. 14 + L : x[i] = p[i]
          /\ \A i \in 1 .. Len(t) : x[14 + L + i] = t[i]
      BY <1>1, <1>2, <2>2 DEF Joins
    <2>4. Begins(x, q)
      <3>1. \A i \in 1 .. 10 : x[i + 1] = p[i + 1]
        BY <1>1, <2>3
      <3>2. \A i \in 1 .. L : x[12 + i] = p[12 + i]
        BY <1>1, <2>3
      <3>3. x[1] = p[1] /\ x[12] = p[12] /\ x[13 + L] = p[13 + L] /\ x[14 + L] = p[14 + L]
        BY <1>1, <2>3
      <3>4. /\ p[1] = Code[q.op] /\ p[12] = L /\ p[13 + L] = q.uid /\ p[14 + L] = q.gid
            /\ \A i \in 1 .. 10 : p[i + 1] = EncodeLookupStat(q.parent)[i]
            /\ \A i \in 1 .. L : p[12 + i] = q.name[i]
        BY <1>1, <2>5 DEF Begins
      <3>5. Len(x) >= 14 + L
        BY <1>1, <1>2, <2>3
      <3>6. \A i \in 1 .. 10 : x[i + 1] = EncodeLookupStat(q.parent)[i]
        BY <3>1, <3>4
      <3>7. \A i \in 1 .. L : x[12 + i] = q.name[i]
        BY <3>2, <3>4
      <3>8. x[1] = Code[q.op] /\ x[12] = L /\ x[13 + L] = q.uid /\ x[14 + L] = q.gid
        BY <3>3, <3>4
      <3> QED BY <2>3, <2>5, <3>5, <3>6, <3>7, <3>8 DEF Begins
    <2> QED BY <2>1, <2>3, <2>4, <2>5 DEF t
  <1>4. CASE t = <<>>
    <2>1. m = p /\ Len(t) = 0
      BY <1>4, RequestFacts DEF EncodeRequest, LokupCli, BukinCli, LstatCli, Rest, Op
    <2> QED BY <1>1, <2>1
  <1> QED BY <1>3, <1>4

\* The decoders get back what was encoded.
LEMMA DecodedWords ==
    ASSUME NEW q \in Request, NEW m, Begins(m, q), NEW op
    PROVE  /\ Decoded(op, m) = [op |-> op, parent |-> q.parent, name |-> q.name, uid |-> q.uid,
                                gid |-> q.gid, n |-> 0, mode |-> 0]
           /\ \A i : Field(m, i) = m[12 + Len(q.name) + i]
           /\ \A k : Decodable(m, k) <=> Len(m) >= 12 + Len(q.name) + k
           /\ m # <<>> /\ m[1] = Code[q.op]
  <1> DEFINE L == Len(q.name)
             b == EncodeLookupStat(q.parent)
             s == SubSeq(m, 2, 11)
             d == SubSeq(m, 13, 12 + L)
  <1>1. b \in Seq(Half) /\ Len(b) = 10 /\ GetLookupStat(b) = q.parent
    BY RequestFacts, LookupStatWords
  <1>2. q.name \in Seq(Half) /\ Len(q.name) = L /\ L \in Nat
    BY RequestFacts
  <1>11. m \in Seq(Half) /\ Len(m) >= 14 + L /\ m[1] = Code[q.op] /\ m[12] = L
    BY DEF Begins
  <1>12. m[13 + L] = q.uid /\ m[14 + L] = q.gid
    BY DEF Begins
  <1>13. \A i \in 1 .. 10 : m[i + 1] = b[i]
    BY DEF Begins
  <1>14. \A i \in 1 .. L : m[12 + i] = q.name[i]
    BY DEF Begins
  <1> HIDE DEF b, L
  <1>15. Len(m) \in Nat
    BY <1>11
  <1>0. /\ m \in Seq(Half) /\ Len(m) >= 14 + L /\ L \in Nat /\ Len(m) \in Nat
        /\ m[12] = L /\ m[13 + L] = q.uid /\ m[14 + L] = q.gid
    BY <1>2, <1>11, <1>12, <1>15
  <1>3. s = b
    <2>1. s \in Seq(Half) /\ Len(s) = 10 /\ \A i \in 1 .. 10 : s[i] = m[i + 1]
      <3>1. 2 \in 1 .. Len(m) /\ 11 \in 1 .. Len(m)
        BY <1>0
      <3>2. \A k \in 2 .. 11 : m[k] \in Half
        BY <1>0
      <3> QED BY <1>0, <3>1, <3>2, SubSeqProperties
    <2> HIDE DEF s
    <2> QED BY <1>13, <1>1, <2>1, SeqEqual
  <1>4. d = q.name
    <2>1. d \in Seq(Half) /\ Len(d) = L /\ \A i \in 1 .. L : d[i] = m[12 + i]
      BY <1>0, SubSeqProperties
    <2> HIDE DEF d
    <2> QED BY <1>14, <1>2, <2>1, SeqEqual
  <1>5. Field(m, 1) = q.uid /\ Field(m, 2) = q.gid
    BY <1>0 DEF Field
  <1>6. GetLookupStat(SubSeq(m, 2, 11)) = q.parent /\ SubSeq(m, 13, 12 + m[12]) = q.name
    BY <1>0, <1>1, <1>3, <1>4
  <1>7. Decoded(op, m) = [op |-> op, parent |-> q.parent, name |-> q.name, uid |-> q.uid,
                          gid |-> q.gid, n |-> 0, mode |-> 0]
    BY <1>5, <1>6 DEF Decoded
  <1>8. \A i : Field(m, i) = m[12 + Len(q.name) + i]
    BY <1>0, <1>2 DEF Field
  <1>9. \A k : Decodable(m, k) <=> Len(m) >= 12 + Len(q.name) + k
    BY <1>0, <1>2 DEF Decodable
  <1>10. m # <<>> /\ m[1] = Code[q.op]
    BY <1>0, <1>11
  <1> QED BY <1>7, <1>8, <1>9, <1>10

\* The answer of the filesystem depends on the fields of the request.
LEMMA SameAnswer ==
    ASSUME NEW a, NEW b, a.op = b.op, a.parent = b.parent, a.name = b.name, a.uid = b.uid,
           a.gid = b.gid, a.n = b.n, a.mode = b.mode
    PROVE  FsAnswer(a) = FsAnswer(b)
  BY DEF FsAnswer

(***************************************************************************)
(* Replies.                                                                *)
(***************************************************************************)
Value(op, v) == IF op = "Lokup" THEN EncodeLookupStat(v)
                ELSE IF op = "Mkfls" THEN <<v>>
                ELSE IF op = "Bukin" THEN <<>> ELSE EncodeStat(v)
ReplyOf(op, a) == IF a.err # 0 THEN <<a.err>> ELSE <<0>> \o Value(op, a.val)

\* The reply to q.
ReplyTo(q) == ReplyOf(q.op, FsAnswer(q))

\* What the operations of the server do with a message that they can decode.
LEMMA Operations ==
    ASSUME NEW m
    PROVE  /\ Decodable(m, 2) => /\ LokupOperation(m) = ReplyOf("Lokup", FsAnswer(Decoded("Lokup", m)))
                                 /\ BukinOperation(m) = ReplyOf("Bukin", FsAnswer(Decoded("Bukin", m)))
                                 /\ LstatOperation(m) = ReplyOf("Lstat", FsAnswer(Decoded("Lstat", m)))
           /\ Decodable(m, 3) =>
                /\ MkdirOperation(m) =
                      ReplyOf("Mkdir", FsAnswer([Decoded("Mkdir", m) EXCEPT !.mode = Field(m, 3)]))
                /\ MkfleOperation(m) =
                      ReplyOf("Mkfle", FsAnswer([Decoded("Mkfle", m) EXCEPT !.mode = Field(m, 3)]))
           /\ Decodable(m, 4) =>
                MkflsOperation(m) =
                  ReplyOf("Mkfls", FsAnswer([Decoded("Mkfls", m) EXCEPT !.n = Field(m, 3),
                                                                        !.mode = Field(m, 4)]))
  <1> DEFINE a == FsAnswer(Decoded("Lokup", m))
             b == FsAnswer(Decoded("Bukin", m))
             c == FsAnswer(Decoded("Lstat", m))
             d == FsAnswer([Decoded("Mkdir", m) EXCEPT !.mode = Field(m, 3)])
             e == FsAnswer([Decoded("Mkfle", m) EXCEPT !.mode = Field(m, 3)])
             f == FsAnswer([Decoded("Mkfls", m) EXCEPT !.n = Field(m, 3), !.mode = Field(m, 4)])
             R(x, v) == IF x.err # 0 THEN <<x.err>> ELSE <<0>> \o v
  <1>1. /\ Decodable(m, 2) =>
              /\ LokupOperation(m) = R(a, EncodeLookupStat(a.val))
              /\ BukinOperation(m) = R(b, <<>>)
              /\ LstatOperation(m) = R(c, EncodeStat(c.val))
        /\ Decodable(m, 3) =>
              /\ MkdirOperation(m) = R(d, EncodeStat(d.val))
              /\ MkfleOperation(m) = R(e, EncodeStat(e.val))
        /\ Decodable(m, 4) =>
              MkflsOperation(m) = R(f, <<f.val>>)
    BY Zenon DEF LokupOperation, BukinOperation, LstatOperation, MkdirOperation, MkfleOperation,
                 MkflsOperation, Reply
  <1> HIDE DEF a, b, c, d, e, f
  <1>2. /\ ReplyOf("Lokup", a) = R(a, EncodeLookupStat(a.val))
        /\ ReplyOf("Bukin", b) = R(b, <<>>)
        /\ ReplyOf("Lstat", c) = R(c, EncodeStat(c.val))
        /\ ReplyOf("Mkdir", d) = R(d, EncodeStat(d.val))
        /\ ReplyOf("Mkfle", e) = R(e, EncodeStat(e.val))
        /\ ReplyOf("Mkfls", f) = R(f, <<f.val>>)
    BY DEF ReplyOf, Value
  <1>3. /\ Decodable(m, 2) => /\ LokupOperation(m) = ReplyOf("Lokup", a)
                              /\ BukinOperation(m) = ReplyOf("Bukin", b)
                              /\ LstatOperation(m) = ReplyOf("Lstat", c)
        /\ Decodable(m, 3) => /\ MkdirOperation(m) = ReplyOf("Mkdir", d)
                              /\ MkfleOperation(m) = ReplyOf("Mkfle", e)
        /\ Decodable(m, 4) => MkflsOperation(m) = ReplyOf("Mkfls", f)
    <2> HIDE DEF R
    <2> QED BY <1>1, <1>2, Zenon
  <1> QED BY <1>3 DEF a, b, c, d, e, f

LEMMA Dispatch ==
    ASSUME NEW m
    PROVE  /\ hmap(0, m) = LokupOperation(m) /\ hmap(1, m) = MkdirOperation(m)
           /\ hmap(2, m) = MkfleOperation(m) /\ hmap(3, m) = MkflsOperation(m)
           /\ hmap(4, m) = BukinOperation(m) /\ hmap(5, m) = LstatOperation(m)
  BY DEF hmap

LEMMA ServerAnswers ==
    ASSUME NEW q \in Request
    PROVE  ServerCall(EncodeRequest(q)) = ReplyTo(q)
  <1> DEFINE m == EncodeRequest(q)
             L == Len(q.name)
             t == Rest(q)
             w(op) == [op |-> op, parent |-> q.parent, name |-> q.name, uid |-> q.uid,
                       gid |-> q.gid, n |-> 0, mode |-> 0]
  <1>1. /\ \A op : Decoded(op, m) = w(op)
        /\ \A i : Field(m, i) = m[12 + L + i]
        /\ \A k : Decodable(m, k) <=> Len(m) >= 12 + L + k
        /\ m # <<>> /\ m[1] = Code[q.op]
    <2>1. Begins(m, q)
      BY RequestWords
    <2> HIDE DEF m
    <2> QED BY <2>1, DecodedWords
  <1>2. Len(m) = 14 + L + Len(t) /\ L \in Nat /\ \A i \in 1 .. Len(t) : m[14 + L + i] = t[i]
    BY RequestWords, RequestFacts
  <1>3. /\ q.op \in Op
        /\ q.op # "Mkfls" => q.n = 0
        /\ q.op \in {"Lokup", "Bukin", "Lstat"} => q.mode = 0
    BY RequestFacts
  <1>4. ServerCall(m) = hmap(Code[q.op], m)
    BY <1>1 DEF ServerCall
  <1> HIDE DEF m, L, t
  <1>5. CASE q.op \in {"Lokup", "Bukin", "Lstat"}
    <2>1. Len(t) = 0
      BY <1>5 DEF t, Rest
    <2>2. /\ q.op = "Lokup" => Code[q.op] = 0
          /\ q.op = "Bukin" => Code[q.op] = 4
          /\ q.op = "Lstat" => Code[q.op] = 5
      BY DEF Code
    <2>3. FsAnswer(w(q.op)) = FsAnswer(q)
      BY <1>3, <1>5, SameAnswer
    <2>4. FsAnswer(Decoded(q.op, m)) = FsAnswer(q)
      BY <1>1, <2>3
    <2>5. Decodable(m, 2)
      BY <1>1, <1>2, <2>1
    <2>6. hmap(Code[q.op], m) = ReplyOf(q.op, FsAnswer(Decoded(q.op, m)))
      BY <1>5, <2>2, <2>5, Dispatch, Operations, Zenon
    <2> QED BY <1>4, <2>4, <2>6 DEF ReplyTo, m
  <1>8. CASE q.op \in {"Mkdir", "Mkfle"}
    <2>1. Len(t) = 1 /\ t[1] = q.mode
      BY <1>8 DEF t, Rest
    <2>2. /\ q.op = "Mkdir" => Code[q.op] = 1
          /\ q.op = "Mkfle" => Code[q.op] = 2
      BY DEF Code
    <2>3. Field(m, 3) = q.mode
      <3>1. 1 \in 1 .. Len(t) /\ 12 + L + 3 = 14 + L + 1
        BY <1>2, <2>1
      <3> QED BY <1>1, <1>2, <2>1, <3>1
    <2>4. FsAnswer([w(q.op) EXCEPT !.mode = q.mode]) = FsAnswer(q)
      BY <1>3, <1>8, SameAnswer
    <2>5. Decodable(m, 3)
      BY <1>1, <1>2, <2>1
    <2>6. FsAnswer([Decoded(q.op, m) EXCEPT !.mode = Field(m, 3)]) = FsAnswer(q)
      BY <1>1, <2>3, <2>4
    <2>7. hmap(Code[q.op], m)
            = ReplyOf(q.op, FsAnswer([Decoded(q.op, m) EXCEPT !.mode = Field(m, 3)]))
      BY <1>8, <2>2, <2>5, Dispatch, Operations, Zenon
    <2> QED BY <1>4, <2>6, <2>7 DEF ReplyTo, m
  <1>9. CASE q.op = "Mkfls"
    <2>1. Len(t) = 2 /\ t[1] = q.n /\ t[2] = q.mode
      BY <1>9 DEF t, Rest
    <2>2. Code[q.op] = 3
      BY <1>9 DEF Code
    <2>3. Field(m, 3) = q.n /\ Field(m, 4) = q.mode
      <3>1. 1 \in 1 .. Len(t) /\ 12 + L + 3 = 14 + L + 1 /\ 2 \in 1 .. Len(t)
            /\ 12 + L + 4 = 14 + L + 2
        BY <1>2, <2>1
      <3> QED BY <1>1, <1>2, <2>1, <3>1
    <2>4. FsAnswer([w("Mkfls") EXCEPT !.n = q.n, !.mode = q.mode]) = FsAnswer(q)
      BY <1>9, SameAnswer
    <2>5. Decodable(m, 4)
      BY <1>1, <1>2, <2>1
    <2>6. FsAnswer([Decoded("Mkfls", m) EXCEPT !.n = Field(m, 3), !.mode = Field(m, 4)]) = FsAnswer(q)
      BY <1>1, <2>3, <2>4
    <2>7. hmap(3, m) = ReplyOf("Mkfls", FsAnswer(q))
      BY <2>5, <2>6, Dispatch, Operations
    <2> QED BY <1>4, <1>9, <2>2, <2>7 DEF ReplyTo, m
  <1> QED BY <1>3, <1>5, <1>8, <1>9 DEF m, Op

(***************************************************************************)
(* Messages that lost their end.                                           *)
(***************************************************************************)
\* w is the first part of z, or all of it.
Cut(w, z) == /\ w \in Seq(Half) /\ Len(w) <= Len(z)
             /\ \A i \in 1 .. Len(w) : w[i] = z[i]

LEMMA Undecodable ==
    ASSUME NEW m
    PROVE  /\ ~Decodable(m, 2) => /\ LokupOperation(m) = <<>> /\ BukinOperation(m) = <<>>
                                  /\ LstatOperation(m) = <<>>
           /\ ~Decodable(m, 3) => MkdirOperation(m) = <<>> /\ MkfleOperation(m) = <<>>
           /\ ~Decodable(m, 4) => MkflsOperation(m) = <<>>
  BY Zenon DEF LokupOperation, BukinOperation, LstatOperation, MkdirOperation, MkfleOperation,
               MkflsOperation, BadRequest, Reply

\* The server notices a request that lost its end.
LEMMA CutRequest ==
    ASSUME NEW q \in Request, NEW w, Cut(w, EncodeRequest(q)), Len(w) < Len(EncodeRequest(q))
    PROVE  ServerCall(w) = <<>>
  <1> DEFINE m == EncodeRequest(q)
             L == Len(q.name)
             t == Rest(q)
  <1>1. w \in Seq(Half) /\ Len(w) \in Nat /\ \A i \in 1 .. Len(w) : w[i] = m[i]
    BY DEF Cut
  <1>2. /\ Len(m) = 14 + L + Len(t) /\ L \in Nat /\ m[12] = L /\ m[1] = Code[q.op]
        /\ q.op \in Op
    BY RequestWords, RequestFacts DEF Begins
  <1>3. /\ q.op \in {"Lokup", "Bukin", "Lstat"} => Len(t) = 0
        /\ q.op \in {"Mkdir", "Mkfle"} => Len(t) = 1
        /\ q.op = "Mkfls" => Len(t) = 2
    BY DEF Rest
  <1>4. Len(w) < Len(m)
    OBVIOUS
  <1> HIDE DEF m, L, t
  <1>5. CASE w = <<>>
    BY <1>5 DEF ServerCall, BadRequest
  <1>6. CASE w # <<>>
    <2>1. Len(w) > 0 /\ w[1] = m[1] /\ (Len(w) >= 12 => w[12] = m[12])
      BY <1>1, <1>6
    <2>2. ServerCall(w) = hmap(Code[q.op], w)
      BY <1>2, <1>6, <2>1 DEF ServerCall
    <2>3. Len(t) \in Nat
      BY <1>2, <1>3 DEF Op
    <2>4. ASSUME NEW j \in Nat, Len(t) = j
          PROVE  ~Decodable(w, 2 + j)
      BY <1>1, <1>2, <1>4, <2>1, <2>3, <2>4 DEF Decodable
    <2>5. /\ q.op \in {"Lokup", "Bukin", "Lstat"} => ~Decodable(w, 2)
          /\ q.op \in {"Mkdir", "Mkfle"} => ~Decodable(w, 3)
          /\ q.op = "Mkfls" => ~Decodable(w, 4)
      <3>1. Len(t) = 0 => ~Decodable(w, 2)
        BY <2>4
      <3>2. Len(t) = 1 => ~Decodable(w, 3)
        BY <2>4
      <3>3. Len(t) = 2 => ~Decodable(w, 4)
        BY <2>4
      <3> QED BY <1>3, <3>1, <3>2, <3>3
    <2>6. /\ q.op = "Lokup" => Code[q.op] = 0
          /\ q.op = "Mkdir" => Code[q.op] = 1
          /\ q.op = "Mkfle" => Code[q.op] = 2
          /\ q.op = "Mkfls" => Code[q.op] = 3
          /\ q.op = "Bukin" => Code[q.op] = 4
          /\ q.op = "Lstat" => Code[q.op] = 5
      BY DEF Code
    <2>7. hmap(Code[q.op], w) = <<>>
      BY <1>2, <2>5, <2>6, Dispatch, Undecodable DEF Op
    <2> QED BY <2>2, <2>7
  <1> QED BY <1>5, <1>6

\* What the filesystem answers: an error, or a value of the kind the call returns.
LEMMA Answers ==
    ASSUME NEW q \in Request
    PROVE  \/ FsAnswer(q) = [err |-> 1]
           \/ \E v : /\ FsAnswer(q) = [err |-> 0, val |-> v]
                     /\ q.op = "Lokup" => v \in LookupStat
                     /\ q.op \in {"Mkdir", "Mkfle", "Lstat"} => v \in Stat
                     /\ q.op = "Mkfls" => v \in Half
                     /\ q.op = "Bukin" => v = 0
  <1> DEFINE W == Word * Word
             id == q.parent.ino + Len(q.name)
             i == id % W
             u == q.mode + q.parent.mode
             d == u % Word
             st == [dno |-> q.parent.dno, ino |-> i, mode |-> d, uid |-> q.uid, gid |-> q.gid]
             lo == [dno |-> st.dno, ino |-> st.ino, due |-> q.parent.due, zsrv |-> q.parent.zsrv,
                    mode |-> st.mode, uid |-> st.uid, gid |-> st.gid]
  <1>1. W \in Nat /\ W > 0 /\ Word \in Nat /\ Word > 0
    BY Words
  <1>2. /\ q.parent.ino \in Nat /\ Len(q.name) \in Nat /\ q.mode \in Nat /\ q.parent.mode \in Nat
        /\ q.parent.dno \in 0 .. W - 1 /\ q.parent.due \in 0 .. W - 1 /\ q.parent.zsrv \in Half
        /\ q.uid \in Half /\ q.gid \in Half /\ q.n \in Half
    BY <1>1, RequestFacts, Words DEF LookupStat
  <1>3. i \in 0 .. W - 1
    <2> HIDE DEF W
    <2> QED BY <1>1, <1>2
  <1>4. d \in Half
    <2>1. u \in Nat
      BY <1>2
    <2> HIDE DEF u
    <2> QED BY <1>1, <2>1 DEF Half
  <1>5. FsAnswer(q) = IF q.name = NotFound THEN [err |-> 1]
                      ELSE IF q.op = "Lokup" THEN [err |-> 0, val |-> lo]
                      ELSE IF q.op = "Mkfls" THEN [err |-> 0, val |-> q.n]
                      ELSE IF q.op = "Bukin" THEN [err |-> 0, val |-> 0]
                      ELSE [err |-> 0, val |-> st]
    BY DEF FsAnswer
  <1> HIDE DEF i, d
  <1>6. st \in Stat
    BY <1>2, <1>3, <1>4 DEF Stat
  <1>7. lo \in LookupStat
    BY <1>2, <1>3, <1>4 DEF LookupStat
  <1> HIDE DEF st, lo, W
  <1>8. CASE q.name = NotFound
    BY <1>5, <1>8
  <1>9. CASE q.name # NotFound
    <2> DEFINE v == IF q.op = "Lokup" THEN lo ELSE IF q.op = "Mkfls" THEN q.n
                    ELSE IF q.op = "Bukin" THEN 0 ELSE st
    <2>1. FsAnswer(q) = [err |-> 0, val |-> v]
      BY <1>5, <1>9
    <2>2. /\ q.op = "Lokup" => v \in LookupStat
          /\ q.op \in {"Mkdir", "Mkfle", "Lstat"} => v \in Stat
          /\ q.op = "Mkfls" => v \in Half
          /\ q.op = "Bukin" => v = 0
      BY <1>2, <1>6, <1>7
    <2> HIDE DEF v
    <2> QED BY <2>1, <2>2
  <1> QED BY <1>8, <1>9

(***************************************************************************)
(* The stubs' side of a reply.                                             *)
(***************************************************************************)
Size(op) == IF op = "Lokup" THEN 10 ELSE IF op = "Mkfls" THEN 1
            ELSE IF op = "Bukin" THEN 0 ELSE 7
Get(op, w) == IF op = "Lokup" THEN GetLookupStat(w) ELSE IF op = "Mkfls" THEN Head(w)
              ELSE IF op = "Bukin" THEN 0 ELSE GetStat(w)
RetOf(op, m) == IF m = <<>> THEN Corruption
                ELSE IF m[1] # 0 THEN [err |-> m[1]]
                ELSE IF Len(m) - 1 < Size(op) THEN Corruption
                ELSE [err |-> 0, val |-> Get(op, Tail(m))]

LEMMA Rets ==
    ASSUME NEW op \in Op, NEW m
    PROVE  DecodeReply(op, m) = RetOf(op, m)
  <1> DEFINE R(k, v) == IF m = <<>> THEN Corruption
                        ELSE IF m[1] # 0 THEN [err |-> m[1]]
                        ELSE IF Len(m) - 1 < k THEN Corruption
                        ELSE [err |-> 0, val |-> v]
  <1>1. /\ LokupRet(m) = R(10, GetLookupStat(Tail(m)))
        /\ MkdirRet(m) = R(7, GetStat(Tail(m)))
        /\ MkfleRet(m) = R(7, GetStat(Tail(m)))
        /\ MkflsRet(m) = R(1, Head(Tail(m)))
        /\ BukinRet(m) = R(0, 0)
        /\ LstatRet(m) = R(7, GetStat(Tail(m)))
    BY Zenon DEF LokupRet, MkdirRet, MkfleRet, MkflsRet, BukinRet, LstatRet, Ret
  <1>2. RetOf(op, m) = R(Size(op), Get(op, Tail(m)))
    BY Zenon DEF RetOf
  <1> HIDE DEF R
  <1>3. /\ op = "Lokup" => Size(op) = 10 /\ Get(op, Tail(m)) = GetLookupStat(Tail(m))
        /\ op \in {"Mkdir", "Mkfle", "Lstat"} => Size(op) = 7 /\ Get(op, Tail(m)) = GetStat(Tail(m))
        /\ op = "Mkfls" => Size(op) = 1 /\ Get(op, Tail(m)) = Head(Tail(m))
        /\ op = "Bukin" => Size(op) = 0 /\ Get(op, Tail(m)) = 0
    BY DEF Size, Get
  <1>4. /\ op = "Lokup" => DecodeReply(op, m) = LokupRet(m)
        /\ op = "Mkdir" => DecodeReply(op, m) = MkdirRet(m)
        /\ op = "Mkfle" => DecodeReply(op, m) = MkfleRet(m)
        /\ op = "Mkfls" => DecodeReply(op, m) = MkflsRet(m)
        /\ op = "Bukin" => DecodeReply(op, m) = BukinRet(m)
        /\ op = "Lstat" => DecodeReply(op, m) = LstatRet(m)
    BY DEF DecodeReply
  <1> QED BY <1>1, <1>2, <1>3, <1>4 DEF Op

LEMMA ValueWords ==
    ASSUME NEW op \in Op, NEW v, op = "Lokup" => v \in LookupStat,
           op \in {"Mkdir", "Mkfle", "Lstat"} => v \in Stat,
           op = "Mkfls" => v \in Half, op = "Bukin" => v = 0
    PROVE  /\ Value(op, v) \in Seq(Half) /\ Len(Value(op, v)) = Size(op)
           /\ Get(op, Value(op, v)) = v
  <1>1. CASE op = "Lokup"
    BY <1>1, LookupStatWords DEF Value, Size, Get
  <1>2. CASE op \in {"Mkdir", "Mkfle", "Lstat"}
    BY <1>2, StatWords DEF Value, Size, Get
  <1>3. CASE op = "Mkfls"
    BY <1>3 DEF Value, Size, Get
  <1>4. CASE op = "Bukin"
    BY <1>4 DEF Value, Size, Get
  <1> QED BY <1>1, <1>2, <1>3, <1>4 DEF Op

LEMMA CutReply ==
    ASSUME NEW q \in Request
    PROVE  /\ ReplyTo(q) \in Seq(Half) /\ ReplyTo(q) # <<>>
           /\ \A w : Cut(w, ReplyTo(q)) => DecodeReply(q.op, w) \in {Corruption, FsAnswer(q)}
  <1>0. q.op \in Op /\ 1 \in Half /\ 0 \in Half
    BY RequestFacts, Words
  <1>1. CASE FsAnswer(q) = [err |-> 1]
    <2>1. ReplyTo(q) = << 1 >>
      BY <1>1 DEF ReplyTo, ReplyOf
    <2>2. ASSUME NEW w, Cut(w, << 1 >>)
          PROVE  DecodeReply(q.op, w) \in {Corruption, FsAnswer(q)}
      <3>1. w \in Seq(Half) /\ (w = <<>> \/ w[1] = 1)
        BY <2>2 DEF Cut
      <3>2. RetOf(q.op, w) \in {Corruption, [err |-> 1]}
        BY <3>1 DEF RetOf
      <3> QED BY <1>0, <1>1, <3>2, Rets
    <2> QED BY <1>0, <2>1, <2>2
  <1>2. ASSUME NEW v, FsAnswer(q) = [err |-> 0, val |-> v], q.op = "Lokup" => v \in LookupStat,
               q.op \in {"Mkdir", "Mkfle", "Lstat"} => v \in Stat,
               q.op = "Mkfls" => v \in Half, q.op = "Bukin" => v = 0
        PROVE  /\ ReplyTo(q) \in Seq(Half) /\ ReplyTo(q) # <<>>
               /\ \A w : Cut(w, ReplyTo(q)) => DecodeReply(q.op, w) \in {Corruption, FsAnswer(q)}
    <2> DEFINE u == Value(q.op, v)
               k == Size(q.op)
               a == <<0>>
               z == a \o u
    <2>1. u \in Seq(Half) /\ Len(u) = k /\ Get(q.op, u) = v
      BY <1>0, <1>2, ValueWords
    <2>2. ReplyTo(q) = z
      BY <1>2 DEF ReplyTo, ReplyOf
    <2>3. a \in Seq(Half) /\ Len(a) = 1 /\ a[1] = 0
      BY <1>0
    <2>7. k \in Nat
      BY DEF Size
    <2> HIDE DEF u, k, a
    <2>4. Joins(z, a, u)
      BY <2>1, <2>3, Joined
    <2> HIDE DEF z
    <2>5. z \in Seq(Half) /\ Len(z) = 1 + k /\ z[1] = 0 /\ \A i \in 1 .. k : z[i + 1] = u[i]
      BY <2>1, <2>3, <2>4, <2>7 DEF Joins
    <2>6. ASSUME NEW w, Cut(w, z)
          PROVE  DecodeReply(q.op, w) \in {Corruption, FsAnswer(q)}
      <3>1. w \in Seq(Half) /\ Len(w) <= 1 + k /\ \A i \in 1 .. Len(w) : w[i] = z[i]
        BY <2>5, <2>6 DEF Cut
      <3>2. CASE w = <<>> \/ Len(w) - 1 < k
        <4>1. w # <<>> => w[1] = 0
          BY <2>5, <3>1
        <4>2. RetOf(q.op, w) = Corruption
          BY <3>2, <4>1 DEF RetOf, k
        <4> QED BY <1>0, <4>2, Rets
      <3>3. CASE w # <<>> /\ ~(Len(w) - 1 < k)
        <4>1. Len(w) = 1 + k /\ w[1] = 0
          BY <2>5, <2>7, <3>1, <3>3
        <4>2. /\ Tail(w) \in Seq(Half) /\ Len(Tail(w)) = k
              /\ \A i \in 1 .. k : Tail(w)[i] = w[i + 1]
          BY <2>7, <3>1, <3>3, <4>1
        <4>3. \A i \in 1 .. k : w[i + 1] = u[i]
          <5>1. \A i \in 1 .. k : i + 1 \in 1 .. Len(w)
            BY <2>7, <4>1
          <5> QED BY <2>5, <3>1, <5>1
        <4>4. Tail(w) = u
          BY <2>1, <4>2, <4>3, SeqEqual
        <4>5. RetOf(q.op, w) = [err |-> 0, val |-> v]
          BY <2>1, <3>3, <4>1, <4>4 DEF RetOf, k
        <4> QED BY <1>0, <1>2, <4>5, Rets
      <3> QED BY <3>2, <3>3
    <2>8. z # <<>>
      BY <2>5, <2>7
    <2> QED BY <2>2, <2>5, <2>6, <2>8
  <1> QED BY <1>1, <1>2, Answers
-----------------------------------------------------------------------------
(***************************************************************************)
(* The invariant.  A message that belongs to the connection its stub has   *)
(* now is about the call the stub is in; a UDP stub that is not stale has  *)
(* at most one message under way, of the call it is in.                    *)
(***************************************************************************)
Message == [stub : Stub, conn : 0 .. MaxCalls, msg : Seq(Half), copy : BOOLEAN]

\* Message m was made for call q of stub m.stub.
Serves(m, q) == m.conn = conn[m.stub] => q = req[m.stub]

RequestsOk ==
    \A r \in requests :
        /\ r \in Message /\ r.conn <= calls
        /\ \E q \in Request : r.msg = EncodeRequest(q) /\ Serves(r, q)

RepliesOk ==
    \A m \in replies :
        /\ m \in Message /\ m.conn <= calls
        /\ \E q \in Request : Cut(m.msg, ReplyTo(q)) /\ Serves(m, q)

OneUnderWay ==
    /\ \A m, k \in requests :
          m.stub = k.stub /\ m.stub \in Udp \ stale => m = k
    /\ \A m, k \in replies :
          m.stub = k.stub /\ m.stub \in Udp \ stale => m = k
    /\ \A m \in requests, k \in replies : m.stub = k.stub => m.stub \notin Udp \ stale
    /\ \A m \in requests \cup replies :
          m.stub \in Udp \ stale => pc[m.stub] = "called" /\ m.conn = conn[m.stub]

RpcTyped ==
    /\ pc \in [Stub -> {"idle", "called"}] /\ req \in [Stub -> Request]
    /\ conn \in [Stub -> 0 .. MaxCalls] /\ calls \in 0 .. MaxCalls /\ stale \subseteq Stub
    /\ result = [c \in Stub |-> result[c]]
    /\ \A c \in Stub : conn[c] <= calls

RpcInv == RpcTyped /\ RequestsOk /\ RepliesOk /\ OneUnderWay /\ OwnAnswer

LEMMA InvTypes ==
    ASSUME RpcInv
    PROVE  TypeOK
  BY DEF RpcInv, RpcTyped, RequestsOk, RepliesOk, Message, TypeOK

LEMMA RpcStart ==
    ASSUME Init
    PROVE  RpcInv
  <1>1. PICK q \in Request : TRUE
    BY RpcAssumption
  <1>2. (CHOOSE x \in Request : TRUE) \in Request
    BY <1>1
  <1>3. MaxCalls \in Nat
    BY RpcAssumption
  <1>4. RpcTyped
    BY <1>2, <1>3 DEF Init, RpcTyped
  <1>5. RequestsOk /\ RepliesOk /\ OneUnderWay
    BY DEF Init, RequestsOk, RepliesOk, OneUnderWay
  <1>6. OwnAnswer
    BY DEF Init, OwnAnswer, Answered
  <1> QED BY <1>4, <1>5, <1>6 DEF RpcInv

LEMMA SendStep ==
    ASSUME RpcInv, NEW c \in Stub, NEW q \in Request, Send(c, q)
    PROVE  RpcInv'
  <1> DEFINE e == EncodeRequest(q)
  <1>11. PICK b \in 0 .. MaxCalls : b = calls + 1
    BY RpcAssumption DEF Send, RpcInv, RpcTyped
  <1>12. e \in Seq(Half)
    BY RequestWords DEF Begins
  <1>13. PICK r \in Message : r = [stub |-> c, conn |-> b, msg |-> e, copy |-> FALSE]
    BY <1>11, <1>12 DEF Message
  <1>0. /\ pc[c] = "idle" /\ b \in 0 .. MaxCalls /\ calls \in Nat /\ MaxCalls \in Nat /\ b = calls + 1
        /\ calls' = b /\ pc' = [pc EXCEPT ![c] = "called"] /\ req' = [req EXCEPT ![c] = q]
        /\ conn' = [conn EXCEPT ![c] = b] /\ result' = [result EXCEPT ![c] = None]
        /\ requests' = requests \cup {r} /\ replies' = replies /\ stale' = stale
    BY <1>11, <1>13, RpcAssumption DEF Send, RpcInv, RpcTyped
  <1>1. e \in Seq(Half) /\ e = EncodeRequest(q)
    BY <1>12
  <1> HIDE DEF e
  <1>2. r \in Message /\ r.stub = c /\ r.conn = b /\ r.msg = e
    BY <1>13
  <1>3. /\ \A d \in Stub : conn[d] \in Nat /\ conn[d] <= calls
        /\ conn'[c] = b /\ req'[c] = q /\ result'[c] = None /\ pc'[c] = "called"
        /\ \A d \in Stub \ {c} : /\ conn'[d] = conn[d] /\ req'[d] = req[d]
                                 /\ result'[d] = result[d] /\ pc'[d] = pc[d]
    BY <1>0 DEF RpcInv, RpcTyped
  <1>4. RpcTyped'
    BY <1>0, <1>3 DEF RpcInv, RpcTyped
  <1>5. \A m \in requests \cup replies :
            /\ m \in Message /\ m.stub \in Stub /\ m.conn <= calls /\ m.conn \in Nat /\ m.conn # b
    BY <1>0 DEF RpcInv, RequestsOk, RepliesOk, Message
  <1>6. ASSUME NEW m \in requests \cup replies, NEW x \in Request, Serves(m, x)
        PROVE  Serves(m, x)'
    BY <1>3, <1>5, <1>6 DEF Serves
  <1>7. RequestsOk'
    <2>1. ASSUME NEW m \in requests
          PROVE  /\ m \in Message /\ m.conn <= calls'
                 /\ \E x \in Request : m.msg = EncodeRequest(x) /\ Serves(m, x)'
      BY <1>0, <1>5, <1>6 DEF RpcInv, RequestsOk
    <2>2. Serves(r, q)' /\ r.conn <= calls'
      BY <1>0, <1>2, <1>3 DEF Serves
    <2> QED BY <1>0, <1>1, <1>2, <2>1, <2>2 DEF RequestsOk, Serves
  <1>8. RepliesOk'
    <2>1. ASSUME NEW m \in replies
          PROVE  /\ m \in Message /\ m.conn <= calls'
                 /\ \E x \in Request : Cut(m.msg, ReplyTo(x)) /\ Serves(m, x)'
      BY <1>0, <1>5, <1>6 DEF RpcInv, RepliesOk
    <2> QED BY <1>0, <2>1 DEF RepliesOk, Serves
  <1>9. OneUnderWay'
    <2>1. \A m \in requests \cup replies : m.stub = c => c \notin Udp \ stale
      BY <1>0 DEF RpcInv, OneUnderWay
    <2> QED BY <1>0, <1>2, <1>3, <1>5, <2>1 DEF RpcInv, OneUnderWay
  <1>10. OwnAnswer'
    BY <1>0, <1>3 DEF RpcInv, OwnAnswer, Answered
  <1> QED BY <1>4, <1>7, <1>8, <1>9, <1>10 DEF RpcInv

\* What an action that leaves the stubs alone does not disturb.
LEMMA Kept ==
    ASSUME RpcInv, UNCHANGED <<pc, req, conn, result, calls, stale>>
    PROVE  /\ RpcTyped' /\ OwnAnswer' /\ \A m, q : Serves(m, q)' <=> Serves(m, q)
  BY DEF RpcInv, RpcTyped, OwnAnswer, Answered, Serves

LEMMA HandleStep ==
    ASSUME RpcInv, NEW r \in requests, Handle(r)
    PROVE  RpcInv'
  <1>0. /\ r \in Message /\ r.stub \in Stub /\ r.conn <= calls
        /\ UNCHANGED <<pc, req, conn, result, calls, stale>> /\ requests' = requests \ {r}
    BY DEF RpcInv, RequestsOk, Handle, Message
  <1>1. PICK q \in Request : r.msg = EncodeRequest(q) /\ Serves(r, q)
    BY DEF RpcInv, RequestsOk
  <1>2. RpcTyped' /\ OwnAnswer' /\ \A m, x : Serves(m, x)' <=> Serves(m, x)
    BY <1>0, Kept
  <1>3. ReplyTo(q) \in Seq(Half) /\ ReplyTo(q) # <<>>
    BY CutReply
  <1>4. PICK k \in Message : k = [r EXCEPT !.msg = ReplyTo(q)]
    BY <1>0, <1>3 DEF Message
  <1>5. k.stub = r.stub /\ k.conn = r.conn /\ k.msg = ReplyTo(q)
    BY <1>0, <1>4 DEF Message
  <1>6. replies' = replies \/ replies' = replies \cup {k}
    <2>1. CASE Received(r) = r.msg
      <3>1. ServerCall(Received(r)) = ReplyTo(q)
        BY <1>1, <2>1, ServerAnswers
      <3> QED BY <1>3, <1>4, <3>1 DEF Handle, BadRequest
    <2>2. CASE Received(r) # r.msg
      <3> DEFINE w == SubSeq(r.msg, 1, MaxMsg)
      <3>1. r.stub \in Udp /\ Len(r.msg) > MaxMsg /\ Received(r) = w
        BY <2>2 DEF Received
      <3>2. r.msg \in Seq(Half) /\ MaxMsg \in Nat
        BY <1>0, RpcAssumption DEF Message
      <3>3. w \in Seq(Half) /\ Len(w) = MaxMsg /\ \A i \in 1 .. MaxMsg : w[i] = r.msg[i]
        <4>1. \A i \in 1 .. MaxMsg : r.msg[i] \in Half
          BY <3>1, <3>2
        <4> QED BY <3>1, <3>2, <4>1, SubSeqProperties
      <3> HIDE DEF w
      <3>4. Cut(w, EncodeRequest(q)) /\ Len(w) < Len(EncodeRequest(q))
        BY <1>1, <3>1, <3>2, <3>3 DEF Cut
      <3>5. ServerCall(Received(r)) = <<>>
        BY <3>1, <3>4, CutRequest
      <3> QED BY <3>1, <3>5 DEF Handle, BadRequest
    <2> QED BY <2>1, <2>2
  <1>7. RequestsOk'
    BY <1>0, <1>2 DEF RpcInv, RequestsOk
  <1>8. RepliesOk'
    <2>1. Serves(k, q)
      BY <1>1, <1>5 DEF Serves
    <2>2. Cut(k.msg, ReplyTo(q))
      BY <1>3, <1>5 DEF Cut
    <2> QED BY <1>0, <1>2, <1>4, <1>5, <1>6, <2>1, <2>2 DEF RpcInv, RepliesOk
  <1>9. OneUnderWay'
    BY <1>0, <1>5, <1>6 DEF RpcInv, OneUnderWay
  <1> QED BY <1>2, <1>7, <1>8, <1>9 DEF RpcInv

LEMMA LoseStep ==
    ASSUME RpcInv, NEW m \in requests \cup replies, Lose(m)
    PROVE  RpcInv'
  <1>0. UNCHANGED <<pc, req, conn, result, calls, stale>> /\ requests' = requests \ {m}
    BY DEF Lose
  <1>2. RpcTyped' /\ OwnAnswer' /\ \A k, x : Serves(k, x)' <=> Serves(k, x)
    BY <1>0, Kept
  <1>3. RequestsOk'
    BY <1>0, <1>2 DEF RpcInv, RequestsOk
  <1>4. CASE m.stub \in Udp
    <2>1. replies' = replies \ {m}
      BY <1>4 DEF Lose
    <2>2. RepliesOk'
      BY <1>0, <1>2, <2>1 DEF RpcInv, RepliesOk
    <2>3. OneUnderWay'
      BY <1>0, <2>1 DEF RpcInv, OneUnderWay
    <2> QED BY <1>2, <1>3, <2>2, <2>3 DEF RpcInv
  <1>5. CASE m.stub \notin Udp
    <2> DEFINE w == SubSeq(m.msg, 1, Len(m.msg) - 1)
               k == [m EXCEPT !.msg = w]
    <2>1. m \in Message
      BY DEF RpcInv, RequestsOk, RepliesOk
    <2>2. \A x \in replies' : x \in replies \/ (x = k /\ m \in replies)
      BY <1>5 DEF Lose
    <2>3. /\ w \in Seq(Half) /\ Len(w) <= Len(m.msg)
          /\ \A i \in 1 .. Len(w) : w[i] = m.msg[i]
      <3>1. m.msg \in Seq(Half) /\ Len(m.msg) \in Nat
        BY <2>1 DEF Message
      <3>2. \A i \in 1 .. Len(m.msg) - 1 : m.msg[i] \in Half
        BY <3>1
      <3>3. /\ w \in Seq(Half) /\ Len(w) = IF 1 <= Len(m.msg) - 1 THEN Len(m.msg) - 1 ELSE 0
            /\ \A i \in 1 .. Len(m.msg) - 1 : w[i] = m.msg[i]
        BY <3>1, <3>2, SubSeqProperties
      <3> HIDE DEF w
      <3> QED BY <3>1, <3>3
    <2> HIDE DEF w
    <2>4. k \in Message /\ k.stub = m.stub /\ k.conn = m.conn /\ k.msg = w
      BY <2>1, <2>3 DEF Message
    <2> HIDE DEF k
    <2>5. \A z : Cut(m.msg, z) => Cut(w, z)
      <3>1. m.msg \in Seq(Half) /\ Len(m.msg) \in Nat /\ Len(w) \in Nat
        BY <2>1, <2>3 DEF Message
      <3> SUFFICES ASSUME NEW z, Cut(m.msg, z) PROVE Cut(w, z)
        OBVIOUS
      <3>2. Len(w) <= Len(z)
        BY <2>3, <3>1 DEF Cut
      <3>3. \A i \in 1 .. Len(w) : w[i] = z[i]
        BY <2>3, <3>1 DEF Cut
      <3> QED BY <2>3, <3>2, <3>3 DEF Cut
    <2>6. RepliesOk'
      <3>1. ASSUME m \in replies
            PROVE  k.conn <= calls /\ \E x \in Request : Cut(k.msg, ReplyTo(x)) /\ Serves(k, x)
        <4>1. PICK x \in Request : Cut(m.msg, ReplyTo(x)) /\ Serves(m, x) /\ m.conn <= calls
          BY <3>1 DEF RpcInv, RepliesOk
        <4>2. Serves(k, x)
          BY <2>4, <4>1 DEF Serves
        <4> QED BY <2>4, <2>5, <4>1, <4>2
      <3> QED BY <1>0, <1>2, <2>2, <2>4, <3>1 DEF RpcInv, RepliesOk
    <2>7. OneUnderWay'
      BY <1>0, <1>5, <2>2, <2>4 DEF RpcInv, OneUnderWay
    <2> QED BY <1>2, <1>3, <2>6, <2>7 DEF RpcInv
  <1> QED BY <1>4, <1>5

LEMMA DuplicateStep ==
    ASSUME RpcInv, NEW m \in requests \cup replies, Duplicate(m)
    PROVE  RpcInv'
  <1> DEFINE k == [m EXCEPT !.copy = TRUE]
  <1>0. /\ UNCHANGED <<pc, req, conn, result, calls>> /\ stale' = stale \cup {m.stub}
        /\ \/ m \in requests /\ requests' = requests \cup {k} /\ replies' = replies
           \/ m \in replies /\ replies' = replies \cup {k} /\ requests' = requests
    BY DEF Duplicate
  <1>1. m \in Message /\ m.stub \in Stub
    BY DEF RpcInv, RequestsOk, RepliesOk, Message
  <1>2. k \in Message /\ k.stub = m.stub /\ k.conn = m.conn /\ k.msg = m.msg
    BY <1>1 DEF Message
  <1> HIDE DEF k
  <1>3. \A x, q : Serves(x, q)' <=> Serves(x, q)
    BY <1>0 DEF Serves
  <1>4. RpcTyped'
    BY <1>0, <1>1 DEF RpcInv, RpcTyped
  <1>5. OwnAnswer'
    BY <1>0 DEF RpcInv, OwnAnswer, Answered
  <1>6. \A q : Serves(m, q) => Serves(k, q)
    BY <1>2 DEF Serves
  <1>7. RequestsOk'
    <2>1. ASSUME m \in requests
          PROVE  k.conn <= calls /\ \E q \in Request : k.msg = EncodeRequest(q) /\ Serves(k, q)
      BY <1>2, <1>6, <2>1 DEF RpcInv, RequestsOk
    <2> QED BY <1>0, <1>2, <1>3, <2>1 DEF RpcInv, RequestsOk
  <1>8. RepliesOk'
    <2>1. ASSUME m \in replies
          PROVE  k.conn <= calls /\ \E q \in Request : Cut(k.msg, ReplyTo(q)) /\ Serves(k, q)
      BY <1>2, <1>6, <2>1 DEF RpcInv, RepliesOk
    <2> QED BY <1>0, <1>2, <1>3, <2>1 DEF RpcInv, RepliesOk
  <1>9. OneUnderWay'
    BY <1>0, <1>2 DEF RpcInv, OneUnderWay
  <1> QED BY <1>4, <1>5, <1>7, <1>8, <1>9 DEF RpcInv

LEMMA ReceiveStep ==
    ASSUME RpcInv, NEW c \in Stub, NEW m \in replies, Receive(c, m)
    PROVE  RpcInv'
  <1> DEFINE a == DecodeReply(req[c].op, m.msg)
  <1>0. /\ pc[c] = "called" /\ Mine(c, m) /\ replies' = replies \ {m}
        /\ result' = [result EXCEPT ![c] = a] /\ pc' = [pc EXCEPT ![c] = "idle"]
        /\ req' = req /\ conn' = conn /\ requests' = requests /\ calls' = calls
        /\ stale' = stale
    BY DEF Receive
  <1>1. RpcTyped'
    BY <1>0 DEF RpcInv, RpcTyped
  <1>2. \A k, x : Serves(k, x)' <=> Serves(k, x)
    BY <1>0 DEF Serves
  <1>3. RequestsOk' /\ RepliesOk'
    BY <1>0, <1>2 DEF RpcInv, RequestsOk, RepliesOk
  <1>4. m.stub = c
    BY <1>0 DEF Mine
  <1>5. OneUnderWay'
    <2>1. c \in Udp \ stale => \A k \in requests \cup (replies \ {m}) : k.stub # c
      BY <1>4 DEF RpcInv, OneUnderWay
    <2>2. \A d \in Stub : d # c => pc'[d] = pc[d]
      BY <1>0 DEF RpcInv, RpcTyped
    <2>3. \A k \in requests \cup replies : k.stub \in Stub
      BY DEF RpcInv, RequestsOk, RepliesOk, Message
    <2> QED BY <1>0, <2>1, <2>2, <2>3 DEF RpcInv, OneUnderWay
  <1>6. ASSUME c \notin Udp \/ c \notin stale
        PROVE  a \in {Corruption, FsAnswer(req[c])}
    <2>1. m.conn = conn[c]
      BY <1>0, <1>4, <1>6 DEF Mine, RpcInv, OneUnderWay
    <2>2. PICK q \in Request : Cut(m.msg, ReplyTo(q)) /\ Serves(m, q)
      BY DEF RpcInv, RepliesOk
    <2>3. q = req[c]
      BY <1>4, <2>1, <2>2 DEF Serves
    <2> QED BY <2>2, <2>3, CutReply
  <1> HIDE DEF a
  <1>7. OwnAnswer'
    <2>1. result'[c] = a /\ \A d \in Stub \ {c} : result'[d] = result[d]
      BY <1>0 DEF RpcInv, RpcTyped
    <2> QED BY <1>0, <1>6, <2>1 DEF RpcInv, OwnAnswer, Answered
  <1> QED BY <1>1, <1>3, <1>5, <1>7 DEF RpcInv

LEMMA TimeoutStep ==
    ASSUME RpcInv, NEW c \in Stub, Timeout(c)
    PROVE  RpcInv'
  <1>0. /\ result' = [result EXCEPT ![c] = Disconnected] /\ pc' = [pc EXCEPT ![c] = "idle"]
        /\ req' = req /\ conn' = conn /\ requests' = requests /\ replies' = replies
        /\ calls' = calls /\ stale' = stale \cup {c}
    BY DEF Timeout
  <1>1. RpcTyped'
    BY <1>0 DEF RpcInv, RpcTyped
  <1>2. \A k, x : Serves(k, x)' <=> Serves(k, x)
    BY <1>0 DEF Serves
  <1>3. RequestsOk' /\ RepliesOk'
    BY <1>0, <1>2 DEF RpcInv, RequestsOk, RepliesOk
  <1>4. OneUnderWay'
    <2>1. \A d \in Stub : d # c => pc'[d] = pc[d]
      BY <1>0 DEF RpcInv, RpcTyped
    <2>2. \A k \in requests \cup replies : k.stub \in Stub
      BY DEF RpcInv, RequestsOk, RepliesOk, Message
    <2> QED BY <1>0, <2>1, <2>2 DEF RpcInv, OneUnderWay
  <1>5. OwnAnswer'
    <2>1. result'[c] = Disconnected /\ \A d \in Stub \ {c} : result'[d] = result[d]
      BY <1>0 DEF RpcInv, RpcTyped
    <2> QED BY <1>0, <2>1 DEF RpcInv, OwnAnswer, Answered
  <1> QED BY <1>1, <1>3, <1>4, <1>5 DEF RpcInv

LEMMA RpcInductive ==
    ASSUME RpcInv, [Next]_vars
    PROVE  RpcInv'
  <1>1. CASE Next
    BY <1>1, SendStep, HandleStep, LoseStep, DuplicateStep, ReceiveStep, TimeoutStep DEF Next
  <1>2. CASE UNCHANGED vars
    <2>1. RpcTyped' /\ OwnAnswer' /\ \A m, q : Serves(m, q)' <=> Serves(m, q)
      BY <1>2, Kept DEF vars
    <2> QED BY <1>2, <2>1 DEF vars, RpcInv, RequestsOk, RepliesOk, OneUnderWay
  <1> QED BY <1>1, <1>2

LEMMA RpcInvariant == Spec => []RpcInv
  <1>1. Init => RpcInv
    BY RpcStart
  <1>2. RpcInv /\ [Next]_vars => RpcInv'
    BY RpcInductive
  <1> QED BY <1>1, <1>2, PTL DEF Spec

\* The state of the rpc layer is well formed: what is under way are words, of calls
\* that were made.
THEOREM RpcTypes == Spec => []TypeOK
  <1>1. RpcInv => TypeOK
    BY InvTypes
  <1> QED BY <1>1, RpcInvariant, PTL

\* A call gets the answer to itself or an error of the transport, whatever the
\* requests, the size of a word and of the server's buffer: decoding undoes encoding,
\* a message without its end is noticed by the server and by the stub, and a late or
\* second reply is only taken for another by a UDP stub that had a call fail or a
\* datagram delivered twice.
THEOREM OwnAnswerTheorem == Spec => []OwnAnswer
  <1>1. RpcInv => OwnAnswer
    BY DEF RpcInv
  <1> QED BY <1>1, RpcInvariant, PTL
=============================================================================
