--------------------------- MODULE RecvFuncProofs ---------------------------
(***************************************************************************)
(* Proofs about RecvFunc: for any messages shorter than 32760 bytes, any   *)
(* number of them, any number of reconnections, and however the bytes are  *)
(* cut into reads.                                                         *)
(***************************************************************************)
EXTENDS RecvFunc, SequenceLemmas

(* What MakePocket() keeps of any bytes is a pocket's.                     *)
LEMMA CStringText ==
    ASSUME NEW s \in Seq(Byte)
    PROVE  CString(s) \in Seq(1 .. 255)
<1> DEFINE zeros == {i \in DOMAIN s : s[i] = 0}
           z == CHOOSE i \in zeros : \A j \in zeros : i <= j
<1>1. /\ Len(s) \in Nat /\ DOMAIN s = 1 .. Len(s)
      /\ \A i \in 1 .. Len(s) : s[i] \in 0 .. 255
  BY ElementOfSeq, LenProperties DEF Byte
<1>2. CASE zeros = {}
  <2>1. ASSUME NEW i \in 1 .. Len(s) PROVE s[i] \in 1 .. 255
    <3>1. i \notin zeros
      BY <1>2
    <3>2. QED  BY <1>1, <3>1
  <2>2. SubSeq(s, 1, Len(s)) \in Seq(1 .. 255)
    BY <1>1, <2>1, SubSeqProperties
  <2>3. CString(s) = SubSeq(s, 1, Len(s))
    BY <1>2, SubSeqFull DEF CString
  <2>4. QED  BY <2>2, <2>3
<1>3. CASE zeros # {}
  <2>1. zeros \in SUBSET Nat
    BY <1>1
  <2>2. \E x \in zeros : \A y \in zeros : x <= y
    BY <1>3, <2>1, Least
  <2>3. z \in zeros /\ \A y \in zeros : z <= y
    BY <2>2
  <2>4. CString(s) = SubSeq(s, 1, z - 1)
    BY <1>3 DEF CString
  <2> HIDE DEF z
  <2>5. \A i \in 1 .. z - 1 : s[i] \in 1 .. 255
    <3>1. ASSUME NEW i \in 1 .. z - 1 PROVE s[i] \in 1 .. 255
      <4>1. z \in 1 .. Len(s) /\ i \in 1 .. Len(s) /\ ~(z <= i)
        BY <1>1, <2>3
      <4>2. i \notin zeros
        BY <2>3, <4>1
      <4>3. QED  BY <1>1, <4>1, <4>2
    <3>2. QED  BY <3>1
  <2>6. z - 1 \in Int
    BY <1>1, <2>3
  <2>7. QED  BY <2>4, <2>5, <2>6, SubSeqProperties
<1>4. QED  BY <1>2, <1>3

(* A length below 32760 comes out of a head as it went into it, and the    *)
(* bytes at the front do not hide the body.                                *)
LEMMA ShortWord ==
    ASSUME NEW n \in Nat, n < 32760
    PROVE  /\ WordOf(n) \in Word /\ SignStable(WordOf(n)) /\ IntOf(WordOf(n)) = n
           /\ WordOf(n)[1] + 256 * WordOf(n)[2] = n
<1> DEFINE lo == n % 256
           hi == n \div 256
<1>1. lo \in 0 .. 255 /\ hi \in 0 .. 127 /\ n = lo + 256 * hi
  OBVIOUS
<1>2. n \div 65536 = 0 /\ n \div 16777216 = 0
  OBVIOUS
<1>3. /\ WordOf(n)[1] = lo /\ WordOf(n)[2] = hi % 256
      /\ WordOf(n)[3] = (n \div 65536) % 256 /\ WordOf(n)[4] = n \div 16777216
      /\ WordOf(n) = [k \in 1 .. 4 |-> WordOf(n)[k]]
  BY DEF WordOf
<1> HIDE DEF lo, hi
<1>4. hi % 256 = hi /\ 0 % 256 = 0
  BY <1>1
<1>5. /\ WordOf(n)[1] = lo /\ WordOf(n)[2] = hi
      /\ WordOf(n)[3] = 0 /\ WordOf(n)[4] = 0
  BY <1>2, <1>3, <1>4
<1> DEFINE w == WordOf(n)
<1>6. w = [k \in 1 .. 4 |-> w[k]] /\ w[1] = lo /\ w[2] = hi /\ w[3] = 0 /\ w[4] = 0
  BY <1>3, <1>5
<1> HIDE DEF w
<1>7. \A k \in 1 .. 4 : w[k] \in 0 .. 255
  BY <1>1, <1>6
<1>8. w \in [1 .. 4 -> 0 .. 255]
  BY <1>6, <1>7
<1>9. w \in Word
  BY <1>8 DEF Word, Byte
<1>10. SignStable(w)
  BY <1>1, <1>6 DEF SignStable, Extends
<1>11. IntOf(w) = n /\ w[1] + 256 * w[2] = n
  BY <1>1, <1>6 DEF IntOf
<1>12. QED  BY <1>9, <1>10, <1>11 DEF w

LEMMA HeadDecoded ==
    ASSUME NEW id \in Word, SignStable(id), NEW n \in Nat, n < 32760,
           NEW h, h = EncodeHead(id, WordOf(n))
    PROVE  /\ h \in Seq(Byte) /\ Len(h) = HeadLen
           /\ ReadId(h) = id /\ IntOf(ReadLen(h)) = n /\ HasBody(h)
<1> DEFINE w == WordOf(n)
           s == ShortLen(w)
<1>1. /\ w \in Word /\ SignStable(w) /\ IntOf(w) = n
      /\ w[1] + 256 * w[2] = n
  BY ShortWord
<1>2. s = (n + 8) % 65536
  BY <1>1 DEF ShortLen
<1> HIDE DEF w
<1>3. s \in Nat /\ s >= 8 /\ s < 32768
  BY <1>2
<1> HIDE DEF s
<1>4. /\ s % 256 \in 0 .. 255 /\ s \div 256 \in 0 .. 127
      /\ s = (s % 256) + 256 * (s \div 256)
  BY <1>3
<1>5. h = << s % 256, s \div 256, id[1], id[2], id[3], id[4],
             w[1], w[2], w[3], w[4] >>
  BY DEF EncodeHead, w, s
<1>6. /\ id[1] \in Byte /\ id[2] \in Byte /\ id[3] \in Byte /\ id[4] \in Byte
      /\ w[1] \in Byte /\ w[2] \in Byte /\ w[3] \in Byte /\ w[4] \in Byte
      /\ id = <<id[1], id[2], id[3], id[4]>> /\ w = <<w[1], w[2], w[3], w[4]>>
  BY <1>1 DEF Word
<1> DEFINE a == s % 256
           b == s \div 256
<1>7. /\ a \in Byte /\ b \in Byte /\ a + 256 * b >= 8
      /\ h = << a, b, id[1], id[2], id[3], id[4], w[1], w[2], w[3], w[4] >>
  BY <1>3, <1>4, <1>5 DEF Byte
<1> HIDE DEF a, b
<1>8. h \in Seq(Byte) /\ Len(h) = HeadLen
  BY <1>6, <1>7 DEF HeadLen
<1>9. ReadId(h) = id
  <2>1. ReadId(h) = << id[1], id[2], IF Extends(id[2]) THEN 255 ELSE id[3],
                IF Extends(id[2]) \/ Extends(id[3]) THEN 255 ELSE id[4] >>
    BY <1>7 DEF ReadId, ReadWord
  <2>2. QED  BY <1>6, <2>1 DEF SignStable
<1>10. ReadLen(h) = w
  <2>1. ReadLen(h) = << w[1], w[2], IF Extends(w[2]) THEN 255 ELSE w[3],
                 IF Extends(w[2]) \/ Extends(w[3]) THEN 255 ELSE w[4] >>
    BY <1>7 DEF ReadLen, ReadWord
  <2>2. QED  BY <1>1, <1>6, <2>1 DEF SignStable
<1>11. HasBody(h)
  <2>1. h[1] = a /\ h[2] = b
    BY <1>7
  <2>2. QED  BY <1>7, <2>1 DEF HasBody, ReadShort, Extends, Byte
<1>12. QED  BY <1>1, <1>8, <1>9, <1>10, <1>11

\* h is the head that goes before message m.
IsHead(h, m) ==
    /\ h \in Seq(Byte) /\ Len(h) = HeadLen /\ Framed(m) = h \o m.msg
    /\ ReadId(h) = m.id /\ IntOf(ReadLen(h)) = Len(m.msg) /\ HasBody(h)

LEMMA FrameBytes ==
    ASSUME NEW m \in Messages
    PROVE  /\ m.id \in Word /\ m.msg \in Seq(Byte) /\ Len(m.msg) \in Nat
           /\ Framed(m) \in Seq(Byte)
           /\ \E h : IsHead(h, m)
<1> DEFINE h == EncodeHead(m.id, WordOf(Len(m.msg)))
<1>1. /\ m.id \in Word /\ SignStable(m.id) /\ m.msg \in Seq(Byte)
      /\ Len(m.msg) < 32760 /\ m.id # WordOf(0)
  BY MessagesAssumption
<1>2. Len(m.msg) \in Nat
  BY <1>1, LenProperties
<1>3. Framed(m) = h \o m.msg
  <2>1. Framed(m) = IF m.id = WordOf(0) THEN m.msg ELSE h \o m.msg
    BY DEF Framed
  <2> HIDE DEF h
  <2>2. QED  BY <1>1, <2>1
<1>4. /\ h \in Seq(Byte) /\ Len(h) = HeadLen
      /\ ReadId(h) = m.id /\ IntOf(ReadLen(h)) = Len(m.msg) /\ HasBody(h)
  BY <1>1, <1>2, HeadDecoded
<1> HIDE DEF h
<1> DEFINE b == m.msg
<1>5. h \o b \in Seq(Byte)
  <2>1. b \in Seq(Byte) /\ h \in Seq(Byte)
    BY <1>1, <1>4
  <2> HIDE DEF b
  <2>2. QED  BY <2>1, ConcatProperties
<1>6. Framed(m) \in Seq(Byte)
  BY <1>3, <1>5
<1>7. IsHead(h, m)
  BY <1>3, <1>4 DEF IsHead
<1>8. QED  BY <1>1, <1>2, <1>6, <1>7

-----------------------------------------------------------------------------
(* The messages of the server, as the bytes that are still to come and as  *)
(* the pockets that are due after the first n of them.                     *)
RestOf(ms, n) == Frames(SubSeq(ms, n + 1, Len(ms)))
DoneOf(ms, n) == Pockets(SubSeq(ms, 1, n))

Pocket == [id : Word, msg : Seq(1 .. 255)]

FrameOf == [m \in Messages |-> Framed(m)]
PocketsOf == [m \in Messages |-> PocketOf(m)]

LEMMA PocketMade ==
    ASSUME NEW id \in Word, NEW msg \in Seq(Byte)
    PROVE  MakePocket(msg, id) \in Pocket
BY CStringText DEF MakePocket, Pocket

LEMMA MapsOf ==
    /\ IsMap(FrameOf, Messages, Seq(Byte)) /\ IsMap(PocketsOf, Messages, Seq(Pocket))
    /\ \A m \in Messages : FrameOf[m] = Framed(m) /\ PocketsOf[m] = PocketOf(m)
<1>1. ASSUME NEW m \in Messages PROVE Framed(m) \in Seq(Byte) /\ PocketOf(m) \in Seq(Pocket)
  <2>1. MakePocket(m.msg, m.id) \in Pocket /\ Framed(m) \in Seq(Byte)
    BY FrameBytes, PocketMade
  <2> DEFINE p == MakePocket(m.msg, m.id)
  <2>2. PocketOf(m) = <<>> \/ PocketOf(m) = <<p>>
    BY DEF PocketOf
  <2> HIDE DEF p
  <2>3. <<>> \in Seq(Pocket) /\ (p \in Pocket => <<p>> \in Seq(Pocket))
    OBVIOUS
  <2>4. QED  BY <2>1, <2>2, <2>3 DEF p
<1>2. QED  BY <1>1 DEF IsMap, FrameOf, PocketsOf

LEMMA FramesConcat ==
    ASSUME NEW a \in Seq(Messages), NEW b \in Seq(Messages)
    PROVE  /\ Flat(FrameOf, a) \in Seq(Byte)
           /\ Flat(FrameOf, a \o b) = Flat(FrameOf, a) \o Flat(FrameOf, b)
<1>1. IsMap(FrameOf, Messages, Seq(Byte))
  BY MapsOf
<1>2. QED  BY <1>1, FlatConcat

LEMMA PocketsConcat ==
    ASSUME NEW a \in Seq(Messages), NEW b \in Seq(Messages)
    PROVE  /\ Flat(PocketsOf, a) \in Seq(Pocket)
           /\ Flat(PocketsOf, a \o b) = Flat(PocketsOf, a) \o Flat(PocketsOf, b)
<1>1. IsMap(PocketsOf, Messages, Seq(Pocket))
  BY MapsOf
<1>2. QED  BY <1>1, FlatConcat

LEMMA Flattened ==
    ASSUME NEW ms \in Seq(Messages)
    PROVE  Frames(ms) = Flat(FrameOf, ms) /\ Pockets(ms) = Flat(PocketsOf, ms)
<1>1. \A i \in DOMAIN ms : ms[i] \in Messages
  BY LenProperties, ElementOfSeq
<1>2. [i \in DOMAIN ms |-> Framed(ms[i])] = Mapped(FrameOf, ms)
  BY <1>1, MapsOf DEF Mapped
<1>3. [i \in DOMAIN ms |-> PocketOf(ms[i])] = Mapped(PocketsOf, ms)
  BY <1>1, MapsOf DEF Mapped
<1>4. QED  BY <1>2, <1>3 DEF Frames, Pockets, Flat

LEMMA PartsOf ==
    ASSUME NEW ms \in Seq(Messages), NEW k \in 0 .. Len(ms)
    PROVE  /\ SubSeq(ms, 1, k) \in Seq(Messages)
           /\ SubSeq(ms, k + 1, Len(ms)) \in Seq(Messages)
           /\ RestOf(ms, k) = Flat(FrameOf, SubSeq(ms, k + 1, Len(ms)))
           /\ DoneOf(ms, k) = Flat(PocketsOf, SubSeq(ms, 1, k))
           /\ RestOf(ms, k) \in Seq(Byte) /\ DoneOf(ms, k) \in Seq(Pocket)
<1>1. SubSeq(ms, 1, k) \in Seq(Messages) /\ SubSeq(ms, k + 1, Len(ms)) \in Seq(Messages)
  BY CutSeq
<1>2. /\ RestOf(ms, k) = Flat(FrameOf, SubSeq(ms, k + 1, Len(ms)))
      /\ DoneOf(ms, k) = Flat(PocketsOf, SubSeq(ms, 1, k))
  BY <1>1, Flattened DEF RestOf, DoneOf
<1>3. /\ Flat(FrameOf, SubSeq(ms, k + 1, Len(ms))) \in Seq(Byte)
      /\ Flat(PocketsOf, SubSeq(ms, 1, k)) \in Seq(Pocket)
  BY <1>1, FramesConcat, PocketsConcat
<1>4. QED  BY <1>1, <1>2, <1>3

(* Message k is the next on the connection after the n before it, and the  *)
(* next to be due.                                                         *)
LEMMA NextMessage ==
    ASSUME NEW ms \in Seq(Messages), NEW k \in 1 .. Len(ms), NEW n, n = k - 1
    PROVE  /\ ms[k] \in Messages /\ n \in 0 .. Len(ms) /\ k \in 0 .. Len(ms)
           /\ RestOf(ms, n) = Framed(ms[k]) \o RestOf(ms, k)
           /\ DoneOf(ms, k) = DoneOf(ms, n) \o PocketOf(ms[k])
<1> DEFINE m == ms[k]
           one == <<ms[k]>>
           after == SubSeq(ms, n + 1, Len(ms))
           rest == SubSeq(ms, k + 1, Len(ms))
           front == SubSeq(ms, 1, n)
           upto == SubSeq(ms, 1, k)
<1>1. /\ m \in Messages /\ one \in Seq(Messages)
      /\ n \in 0 .. Len(ms) /\ k \in 0 .. Len(ms)
      /\ after = one \o rest /\ upto = front \o one
  BY AtPlace
<1>2. /\ RestOf(ms, n) = Flat(FrameOf, after) /\ RestOf(ms, k) = Flat(FrameOf, rest)
      /\ DoneOf(ms, n) = Flat(PocketsOf, front) /\ DoneOf(ms, k) = Flat(PocketsOf, upto)
      /\ rest \in Seq(Messages) /\ front \in Seq(Messages)
  BY <1>1, PartsOf
<1>3. one = <<m>>
  OBVIOUS
<1> HIDE DEF m, one, after, rest, front, upto
<1>4. Flat(FrameOf, after) = Flat(FrameOf, one) \o Flat(FrameOf, rest)
  BY <1>1, <1>2, FramesConcat
<1>5. Flat(PocketsOf, upto) = Flat(PocketsOf, front) \o Flat(PocketsOf, one)
  BY <1>1, <1>2, PocketsConcat
<1>6. Flat(FrameOf, one) = Framed(m) /\ Flat(PocketsOf, one) = PocketOf(m)
  <2>1. IsMap(FrameOf, Messages, Seq(Byte)) /\ FrameOf[m] = Framed(m)
    BY <1>1, MapsOf
  <2>2. IsMap(PocketsOf, Messages, Seq(Pocket)) /\ PocketsOf[m] = PocketOf(m)
    BY <1>1, MapsOf
  <2>3. Flat(FrameOf, <<m>>) = FrameOf[m]
    BY <1>1, <2>1, FlatOne
  <2>4. Flat(PocketsOf, <<m>>) = PocketsOf[m]
    BY <1>1, <2>2, FlatOne
  <2>5. QED  BY <1>3, <2>1, <2>2, <2>3, <2>4
<1>7. QED  BY <1>1, <1>2, <1>4, <1>5, <1>6 DEF m

LEMMA NoneLeft ==
    ASSUME NEW ms \in Seq(Messages)
    PROVE  RestOf(ms, Len(ms)) = <<>> /\ DoneOf(ms, 0) = <<>>
<1>1. Len(ms) \in Nat
  BY LenProperties
<1>2. SubSeq(ms, Len(ms) + 1, Len(ms)) = <<>> /\ SubSeq(ms, 1, 0) = <<>>
  BY <1>1, SubSeqEmpty
<1>3. <<>> \in Seq(Messages) /\ Frames(<<>>) = <<>> /\ Pockets(<<>>) = <<>>
  BY FlattenEmpty DEF Frames, Pockets
<1>4. QED  BY <1>2, <1>3 DEF RestOf, DoneOf

(* The server sends one more.                                              *)
LEMMA OneMore ==
    ASSUME NEW ms \in Seq(Messages), NEW m \in Messages, NEW n \in 0 .. Len(ms)
    PROVE  /\ n \in 0 .. Len(Append(ms, m))
           /\ RestOf(Append(ms, m), n) = RestOf(ms, n) \o Framed(m)
           /\ DoneOf(Append(ms, m), n) = DoneOf(ms, n)
<1> DEFINE t == Append(ms, m)
           r == SubSeq(ms, n + 1, Len(ms))
<1>1. /\ Len(ms) \in Nat /\ t \in Seq(Messages) /\ Len(t) = Len(ms) + 1
      /\ t = ms \o <<m>> /\ <<m>> \in Seq(Messages)
      /\ \A i \in 1 .. Len(ms) : t[i] = ms[i]
  BY LenProperties, AppendProperties, AppendIsConcat
<1>2. n \in 0 .. Len(t)
  BY <1>1
<1> HIDE DEF t
<1>3. /\ SubSeq(ms, 1, n) \in Seq(Messages) /\ Len(SubSeq(ms, 1, n)) = n
      /\ r \in Seq(Messages) /\ ms = SubSeq(ms, 1, n) \o r
  BY CutSeq
<1>4. /\ SubSeq(t, 1, n) \in Seq(Messages) /\ Len(SubSeq(t, 1, n)) = n
      /\ SubSeq(t, n + 1, Len(t)) \in Seq(Messages)
      /\ t = SubSeq(t, 1, n) \o SubSeq(t, n + 1, Len(t))
  BY <1>1, <1>2, CutSeq
<1> HIDE DEF r
<1>5. t = SubSeq(ms, 1, n) \o (r \o <<m>>) /\ r \o <<m>> \in Seq(Messages)
  <2> DEFINE a == SubSeq(ms, 1, n)
             e == <<m>>
  <2> HIDE DEF a, e
  <2>1. t = (a \o r) \o e /\ a \in Seq(Messages) /\ r \in Seq(Messages)
        /\ e \in Seq(Messages)
    BY <1>1, <1>3 DEF a, e
  <2>2. t = a \o (r \o e) /\ r \o e \in Seq(Messages)
    <3>1. Grouped(Messages, a, r, e)
      BY <2>1, Associates
    <3>2. QED  BY <2>1, <3>1 DEF Grouped
  <2>3. QED  BY <2>2 DEF a, e
<1>6. SubSeq(t, 1, n) = SubSeq(ms, 1, n) /\ SubSeq(t, n + 1, Len(t)) = r \o <<m>>
  <2> DEFINE a == SubSeq(ms, 1, n)
             b == SubSeq(t, 1, n)
             c == SubSeq(t, n + 1, Len(t))
             d == r \o <<m>>
  <2> HIDE DEF a, b, c, d
  <2>1. /\ a \in Seq(Messages) /\ b \in Seq(Messages) /\ c \in Seq(Messages)
        /\ d \in Seq(Messages) /\ b \o c = a \o d /\ Len(b) = Len(a)
    BY <1>3, <1>4, <1>5 DEF a, b, c, d
  <2>2. b = a /\ c = d
    BY <2>1, SameCut
  <2>3. QED  BY <2>2 DEF a, b, c, d
<1>7. RestOf(t, n) = RestOf(ms, n) \o Framed(m)
  <2>1. Flat(FrameOf, r \o <<m>>) = Flat(FrameOf, r) \o Flat(FrameOf, <<m>>)
    BY <1>1, <1>3, FramesConcat
  <2>2. Flat(FrameOf, <<m>>) = Framed(m)
    <3>1. IsMap(FrameOf, Messages, Seq(Byte)) /\ FrameOf[m] = Framed(m)
      BY MapsOf
    <3>2. QED  BY <3>1, FlatOne
  <2>3. RestOf(t, n) = Flat(FrameOf, r \o <<m>>)
    BY <1>1, <1>2, <1>6, PartsOf
  <2>4. RestOf(ms, n) = Flat(FrameOf, r)
    BY PartsOf DEF r
  <2>5. QED  BY <2>1, <2>2, <2>3, <2>4
<1>8. DoneOf(t, n) = DoneOf(ms, n)
  BY <1>6 DEF DoneOf
<1>9. QED  BY <1>2, <1>7, <1>8 DEF t
-----------------------------------------------------------------------------
(* Where a connection stands.  r are the bytes that are taken of the       *)
(* message under way and those still in the stream, g the pockets pushed;  *)
(* ms are the messages of the server.  For some n the first n of them are  *)
(* pushed, and r is what the others make, less an end in L that is lost.   *)
AtFront(ms, r, g, L) ==
    \E n \in 0 .. Len(ms) : \E u \in L : RestOf(ms, n) = r \o u /\ g = DoneOf(ms, n)

LEMMA FrontStart ==
    ASSUME NEW L, <<>> \in L
    PROVE  AtFront(<<>>, <<>>, <<>>, L)
<1>1. <<>> \in Seq(Messages) /\ Len(<<>>) = 0 /\ 0 \in 0 .. Len(<<>>)
  OBVIOUS
<1>2. RestOf(<<>>, 0) = <<>> /\ DoneOf(<<>>, 0) = <<>>
  BY <1>1, NoneLeft
<1>3. <<>> \o <<>> = <<>>
  OBVIOUS
<1>4. QED  BY <1>1, <1>2, <1>3 DEF AtFront

LEMMA FrontSends ==
    ASSUME NEW ms \in Seq(Messages), NEW m \in Messages, NEW r \in Seq(Byte), NEW g,
           AtFront(ms, r, g, {<<>>})
    PROVE  AtFront(Append(ms, m), r \o Framed(m), g, {<<>>})
<1>1. PICK n \in 0 .. Len(ms) : RestOf(ms, n) = r \o <<>> /\ g = DoneOf(ms, n)
  BY DEF AtFront
<1>2. r \o <<>> = r
  BY ConcatEmptySeq
<1>3. /\ n \in 0 .. Len(Append(ms, m))
      /\ RestOf(Append(ms, m), n) = r \o Framed(m)
      /\ DoneOf(Append(ms, m), n) = g
  BY <1>1, <1>2, OneMore
<1>4. r \o Framed(m) \in Seq(Byte)
  BY FrameBytes, ConcatProperties
<1>5. (r \o Framed(m)) \o <<>> = r \o Framed(m)
  BY <1>4, ConcatEmptySeq
<1>6. QED  BY <1>3, <1>5 DEF AtFront

\* An end of what is under way is lost.
LEMMA FrontCut ==
    ASSUME NEW ms \in Seq(Messages), NEW s \in Seq(Byte), NEW t \in Seq(Byte), NEW g,
           NEW L \in SUBSET Seq(Byte), AtFront(ms, s \o t, g, L)
    PROVE  AtFront(ms, s, g, Seq(Byte))
<1>1. PICK n \in 0 .. Len(ms), u \in L : RestOf(ms, n) = (s \o t) \o u /\ g = DoneOf(ms, n)
  BY DEF AtFront
<1>2. u \in Seq(Byte)
  OBVIOUS
<1>3. Grouped(Byte, s, t, u)
  BY <1>2, Associates
<1>4. RestOf(ms, n) = s \o (t \o u) /\ t \o u \in Seq(Byte)
  BY <1>1, <1>3 DEF Grouped
<1>5. QED  BY <1>1, <1>4 DEF AtFront

Regrouped(a, b, c, d) ==
    /\ (a \o (b \o c)) \o d = a \o (b \o (c \o d))
    /\ c \o d \in Seq(Byte) /\ b \o (c \o d) \in Seq(Byte)

LEMMA Regroup4 ==
    ASSUME NEW a \in Seq(Byte), NEW b \in Seq(Byte), NEW c \in Seq(Byte),
           NEW d \in Seq(Byte)
    PROVE  Regrouped(a, b, c, d)
<1> DEFINE x == b \o c
           y == c \o d
<1>1. Grouped(Byte, b, c, d)
  BY Associates
<1>2. x \in Seq(Byte) /\ y \in Seq(Byte) /\ x \o d = b \o y
  BY <1>1 DEF Grouped
<1> HIDE DEF x, y
<1>3. Grouped(Byte, a, x, d) /\ Grouped(Byte, b, y, d)
  BY <1>2, Associates
<1>4. (a \o x) \o d = a \o (x \o d) /\ b \o y \in Seq(Byte)
  BY <1>3 DEF Grouped
<1>5. QED  BY <1>2, <1>4 DEF x, y, Regrouped

\* h is the head of message k, and t its body with all that follows.
IsNext(ms, n, h, t, k) ==
    /\ k \in 0 .. Len(ms)
    /\ ms[k] \in Messages /\ ms[k].msg \in Seq(Byte) /\ Len(ms[k].msg) \in Nat
    /\ ReadId(h) = ms[k].id /\ IntOf(ReadLen(h)) = Len(ms[k].msg)
    /\ RestOf(ms, k) \in Seq(Byte) /\ t = ms[k].msg \o RestOf(ms, k)
    /\ DoneOf(ms, k) = DoneOf(ms, n) \o PocketOf(ms[k])

\* The ten bytes h at the front are a head, and t starts with its body.
LEMMA FrontHead ==
    ASSUME NEW ms \in Seq(Messages), NEW n \in 0 .. Len(ms),
           NEW h \in Seq(Byte), Len(h) = HeadLen, NEW t \in Seq(Byte),
           RestOf(ms, n) = h \o t
    PROVE  HasBody(h) /\ \E k : IsNext(ms, n, h, t, k)
<1>1. Len(ms) \in Nat /\ Len(h \o t) = Len(h) + Len(t) /\ Len(t) \in Nat
  BY LenProperties, ConcatProperties
<1>2. n # Len(ms)
  <2>1. Len(h \o t) # 0
    BY <1>1 DEF HeadLen
  <2>2. QED  BY <2>1, NoneLeft
<1>3. PICK k \in 1 .. Len(ms) : n = k - 1
  <2>1. n + 1 \in 1 .. Len(ms) /\ n = (n + 1) - 1
    BY <1>1, <1>2
  <2>2. QED  BY <2>1
<1> DEFINE m == ms[k]
<1>4. /\ m \in Messages /\ k \in 0 .. Len(ms)
      /\ RestOf(ms, n) = Framed(m) \o RestOf(ms, k)
      /\ DoneOf(ms, k) = DoneOf(ms, n) \o PocketOf(m)
  BY <1>3, NextMessage
<1>5. RestOf(ms, k) \in Seq(Byte)
  BY <1>4, PartsOf
<1> HIDE DEF m
<1>6. m.msg \in Seq(Byte) /\ Len(m.msg) \in Nat
  BY <1>4, FrameBytes
<1>7. PICK e : IsHead(e, m)
  BY <1>4, FrameBytes
<1>8. h = e /\ t = m.msg \o RestOf(ms, k)
  <2> DEFINE b == m.msg
             r == RestOf(ms, k)
  <2>1. (e \o b) \o r = h \o t /\ b \in Seq(Byte) /\ r \in Seq(Byte)
    BY <1>4, <1>5, <1>6, <1>7 DEF IsHead
  <2> HIDE DEF b, r
  <2>2. e \o (b \o r) = h \o t /\ b \o r \in Seq(Byte)
    <3>1. Grouped(Byte, e, b, r)
      BY <1>7, <2>1, Associates DEF IsHead
    <3>2. QED  BY <2>1, <3>1 DEF Grouped
  <2>3. h = e /\ t = b \o r
    BY <1>7, <2>1, <2>2, SameCut DEF IsHead
  <2>4. QED  BY <2>3 DEF b, r
<1>9. HasBody(h)
  BY <1>7, <1>8 DEF IsHead
<1>10. IsNext(ms, n, h, t, k)
  BY <1>4, <1>5, <1>6, <1>7, <1>8 DEF m, IsHead, IsNext
<1>11. QED  BY <1>9, <1>10

\* A whole head h: its length is a number, and none ends the message.
LEMMA FrontDecode ==
    ASSUME NEW ms \in Seq(Messages), NEW h \in Seq(Byte), Len(h) = HeadLen,
           NEW s \in Seq(Byte), NEW g, NEW L \in SUBSET Seq(Byte), AtFront(ms, h \o s, g, L)
    PROVE  /\ HasBody(h) /\ IntOf(ReadLen(h)) \in Nat /\ IntOf(ReadLen(h)) < 32760
           /\ IntOf(ReadLen(h)) = 0 => AtFront(ms, s, g, L)
<1>1. PICK n \in 0 .. Len(ms), u \in L : RestOf(ms, n) = (h \o s) \o u /\ g = DoneOf(ms, n)
  BY DEF AtFront
<1>2. u \in Seq(Byte)
  OBVIOUS
<1> DEFINE t == s \o u
<1>3. RestOf(ms, n) = h \o t /\ t \in Seq(Byte)
  <2>1. Grouped(Byte, h, s, u)
    BY <1>2, Associates
  <2>2. QED  BY <1>1, <2>1 DEF Grouped
<1> HIDE DEF t
<1>4. PICK k : IsNext(ms, n, h, t, k)
  BY <1>3, FrontHead
<1>5. HasBody(h)
  BY <1>3, FrontHead
<1>6. Len(ms[k].msg) < 32760
  BY <1>4, MessagesAssumption DEF IsNext
<1>7. ASSUME IntOf(ReadLen(h)) = 0 PROVE AtFront(ms, s, g, L)
  <2>1. ms[k].msg = <<>>
    BY <1>4, <1>7, EmptySeq DEF IsNext
  <2>2. PocketOf(ms[k]) = <<>>
    BY <2>1 DEF PocketOf
  <2>3. t = RestOf(ms, k)
    BY <1>4, <2>1, ConcatEmptySeq DEF IsNext
  <2>4. DoneOf(ms, n) \in Seq(Pocket)
    BY PartsOf
  <2>5. DoneOf(ms, k) = g
    BY <1>1, <1>4, <2>2, <2>4, ConcatEmptySeq DEF IsNext
  <2>6. k \in 0 .. Len(ms)
    BY <1>4 DEF IsNext
  <2>7. RestOf(ms, k) = s \o u
    BY <2>3 DEF t
  <2>8. QED  BY <2>5, <2>6, <2>7 DEF AtFront
<1>8. IntOf(ReadLen(h)) \in Nat /\ IntOf(ReadLen(h)) < 32760
  BY <1>4, <1>6 DEF IsNext
<1>9. QED  BY <1>5, <1>7, <1>8

\* b is a whole body of the head h, and not empty.
IsBody(b, h) == Len(b) = IntOf(ReadLen(h)) /\ b # <<>>

\* The whole body b of the head h is taken, and its pocket pushed.
LEMMA FrontBody ==
    ASSUME NEW ms \in Seq(Messages), NEW h \in Seq(Byte), Len(h) = HeadLen,
           NEW b \in Seq(Byte), IsBody(b, h),
           NEW s \in Seq(Byte), NEW g \in Seq(Pocket), NEW L \in SUBSET Seq(Byte),
           AtFront(ms, h \o (b \o s), g, L)
    PROVE  AtFront(ms, s, Append(g, MakePocket(b, ReadId(h))), L)
<1>1. PICK n \in 0 .. Len(ms), u \in L :
         RestOf(ms, n) = (h \o (b \o s)) \o u /\ g = DoneOf(ms, n)
  BY DEF AtFront
<1>2. u \in Seq(Byte)
  OBVIOUS
<1> DEFINE r == s \o u
           t == b \o r
<1>3. RestOf(ms, n) = h \o t /\ t \in Seq(Byte) /\ r \in Seq(Byte)
  <2>1. Regrouped(h, b, s, u)
    BY <1>2, Regroup4
  <2>2. QED  BY <1>1, <2>1 DEF Regrouped
<1> HIDE DEF r, t
<1>4. PICK k : IsNext(ms, n, h, t, k)
  BY <1>3, FrontHead
<1>5. b = ms[k].msg /\ r = RestOf(ms, k)
  <2> DEFINE c == ms[k].msg
             d == RestOf(ms, k)
  <2>1. /\ c \in Seq(Byte) /\ d \in Seq(Byte) /\ r \in Seq(Byte)
        /\ b \o r = c \o d /\ Len(b) = Len(c)
    BY <1>3, <1>4 DEF t, IsNext, IsBody
  <2> HIDE DEF c, d
  <2>2. b = c /\ r = d
    BY <2>1, SameCut
  <2>3. QED  BY <2>2 DEF c, d
<1>6. DoneOf(ms, k) = Append(g, MakePocket(b, ReadId(h)))
  <2> DEFINE p == MakePocket(b, ReadId(h))
  <2>1. PocketOf(ms[k]) = <<p>>
    BY <1>4, <1>5 DEF PocketOf, IsNext, IsBody
  <2>2. p \in Pocket
    <3>1. ReadId(h) \in Word
      BY <1>4, FrameBytes DEF IsNext
    <3>2. QED  BY <3>1, PocketMade
  <2> HIDE DEF p
  <2>3. Append(g, p) = g \o <<p>>
    BY <2>2, AppendIsConcat
  <2>4. QED  BY <1>1, <1>4, <2>1, <2>3 DEF p, IsNext
<1>7. RestOf(ms, k) = s \o u /\ k \in 0 .. Len(ms)
  BY <1>4, <1>5 DEF r, IsNext
<1>8. QED  BY <1>6, <1>7 DEF AtFront

\* The pockets pushed are a first part of those due.
LEMMA FrontInOrder ==
    ASSUME NEW ms \in Seq(Messages), NEW r, NEW g, NEW L, AtFront(ms, r, g, L)
    PROVE  IsPrefix(g, Pockets(ms))
<1>1. PICK n \in 0 .. Len(ms) : g = DoneOf(ms, n)
  BY DEF AtFront
<1>2. g = Flat(PocketsOf, SubSeq(ms, 1, n)) /\ g \in Seq(Pocket)
  BY <1>1, PartsOf
<1>3. IsMap(PocketsOf, Messages, Seq(Pocket))
  BY MapsOf
<1>4. PICK u \in Seq(Pocket) : Flat(PocketsOf, ms) = g \o u
  <2>1. \E u \in Seq(Pocket) : Flat(PocketsOf, ms) = Flat(PocketsOf, SubSeq(ms, 1, n)) \o u
    BY <1>3, FlatPart
  <2>2. QED  BY <1>2, <2>1
<1>5. Pockets(ms) = g \o u
  BY <1>4, Flattened
<1>6. IsPrefix(g, g \o u)
  <2>1. /\ Len(g) \in Nat /\ Len(u) \in Nat /\ Len(g \o u) = Len(g) + Len(u)
        /\ g \o u \in Seq(Pocket)
    BY <1>2, LenProperties, ConcatProperties
  <2> DEFINE w == g \o u
  <2>2. Len(g) \in 0 .. Len(w) /\ w \in Seq(Pocket) /\ Len(g) <= Len(w)
    BY <2>1
  <2>3. /\ w = SubSeq(w, 1, Len(g)) \o SubSeq(w, Len(g) + 1, Len(w))
        /\ SubSeq(w, 1, Len(g)) \in Seq(Pocket) /\ Len(SubSeq(w, 1, Len(g))) = Len(g)
        /\ SubSeq(w, Len(g) + 1, Len(w)) \in Seq(Pocket)
    BY <2>2, CutSeq
  <2> DEFINE a == SubSeq(w, 1, Len(g))
             b == SubSeq(w, Len(g) + 1, Len(w))
  <2>4. /\ a \o b = g \o u /\ a \in Seq(Pocket) /\ b \in Seq(Pocket) /\ Len(a) = Len(g)
    BY <2>3
  <2> HIDE DEF a, b
  <2>5. a = g
    BY <1>2, <2>4, SameCut
  <2>6. SubSeq(w, 1, Len(g)) = SubSeq(g, 1, Len(g))
    BY <1>2, <2>5, SubSeqFull DEF a
  <2>7. QED  BY <2>2, <2>6 DEF IsPrefix
<1>7. QED  BY <1>5, <1>6
-----------------------------------------------------------------------------
(* The invariant.  Taken are the bytes of the message under way that are   *)
(* read; Lost is what may have been lost of the end of the stream.         *)
Taken == IF rpc \in {"more", "decode"} THEN head
         ELSE IF rpc = "body" THEN head \o body ELSE <<>>
Lost  == IF link = "up" THEN {<<>>} ELSE Seq(Byte)

\* How much of a message is read at each position of th_recv.
ReaderInv ==
    /\ rpc = "head" => head = <<>>
    /\ rpc = "more" => Len(head) < HeadLen
    /\ rpc \in {"decode", "body"} => Len(head) >= HeadLen
    /\ rpc \in {"decode", "body"} /\ ~torn => Len(head) = HeadLen
    /\ rpc \in {"head", "more", "decode"} => body = <<>>
    /\ rpc = "body" => Len(body) < BodyLen

FrontInv == ~torn => rpc # "aborted" /\ AtFront(sent, Taken \o stream, Got, Lost)

ReadInv == TypeOK /\ ReaderInv /\ FrontInv

LEMMA WordTyped ==
    ASSUME NEW a \in Byte, NEW b \in Byte, NEW c \in Byte, NEW d \in Byte
    PROVE  <<a, b, c, d>> \in Word /\ IntOf(<<a, b, c, d>>) \in Int
<1>1. <<a, b, c, d>> \in Word
  BY DEF Word
<1>2. a \in Int /\ b \in Int /\ c \in Int /\ d \in Int
  BY DEF Byte
<1>3. IntOf(<<a, b, c, d>>)
        = a + 256 * b + 65536 * c + 16777216 * (IF d >= 128 THEN d - 256 ELSE d)
  BY DEF IntOf
<1>4. QED  BY <1>1, <1>2, <1>3

LEMMA HeadTyped ==
    ASSUME NEW h \in Seq(Byte), HeadLen <= Len(h)
    PROVE  ReadId(h) \in Word /\ IntOf(ReadLen(h)) \in Int
<1>1. Len(h) \in Nat /\ 10 <= Len(h) /\ \A i \in 1 .. Len(h) : h[i] \in Byte
  BY LenProperties, ElementOfSeq DEF HeadLen
<1>2. \A i \in 1 .. 10 : h[i] \in Byte
  BY <1>1
<1>3. /\ h[3] \in Byte /\ h[4] \in Byte /\ h[5] \in Byte /\ h[6] \in Byte
      /\ h[7] \in Byte /\ h[8] \in Byte /\ h[9] \in Byte /\ h[10] \in Byte
      /\ 255 \in Byte
  BY <1>2 DEF Byte
<1> DEFINE c3 == IF Extends(h[4]) THEN 255 ELSE h[5]
           c4 == IF Extends(h[4]) \/ Extends(h[5]) THEN 255 ELSE h[6]
           c9 == IF Extends(h[8]) THEN 255 ELSE h[9]
           c10 == IF Extends(h[8]) \/ Extends(h[9]) THEN 255 ELSE h[10]
<1>4. c3 \in Byte /\ c4 \in Byte /\ c9 \in Byte /\ c10 \in Byte
  BY <1>3
<1>5. ReadId(h) = <<h[3], h[4], c3, c4>> /\ ReadLen(h) = <<h[7], h[8], c9, c10>>
  BY DEF ReadId, ReadLen, ReadWord
<1> HIDE DEF c3, c4, c9, c10
<1>6. /\ <<h[3], h[4], c3, c4>> \in Word
      /\ IntOf(<<h[7], h[8], c9, c10>>) \in Int
  BY <1>3, <1>4, WordTyped
<1>7. QED  BY <1>5, <1>6

\* What a read returns is taken from the front of the stream.
LEMMA ChunkTaken ==
    ASSUME stream \in Seq(Byte), NEW n \in Nat, NEW c \in Chunks(n)
    PROVE  /\ c \in Seq(Byte) /\ Len(c) \in Nat /\ Len(c) <= n
           /\ SubSeq(stream, Len(c) + 1, Len(stream)) \in Seq(Byte)
           /\ c \o SubSeq(stream, Len(c) + 1, Len(stream)) = stream
<1>1. Len(stream) \in Nat
  BY LenProperties
<1>2. PICK k \in 0 .. Len(stream) : k <= n /\ c = SubSeq(stream, 1, k)
  <2>1. CASE link \in {"up", "fin"} /\ stream # <<>>
    <3>1. PICK k \in 1 .. (IF n <= Len(stream) THEN n ELSE Len(stream)) :
            c = SubSeq(stream, 1, k)
      BY <2>1 DEF Chunks
    <3>2. k \in 0 .. Len(stream) /\ k <= n
      BY <1>1, <3>1
    <3>3. QED  BY <3>1, <3>2
  <2>2. CASE ~(link \in {"up", "fin"} /\ stream # <<>>)
    <3>1. c = <<>>
      BY <2>2 DEF Chunks
    <3>2. SubSeq(stream, 1, 0) = <<>> /\ 0 \in 0 .. Len(stream) /\ 0 <= n
      BY <1>1, SubSeqEmpty
    <3>3. QED  BY <3>1, <3>2
  <2>3. QED  BY <2>1, <2>2
<1>3. /\ SubSeq(stream, 1, k) \in Seq(Byte) /\ Len(SubSeq(stream, 1, k)) = k
      /\ SubSeq(stream, k + 1, Len(stream)) \in Seq(Byte)
      /\ stream = SubSeq(stream, 1, k) \o SubSeq(stream, k + 1, Len(stream))
  BY CutSeq
<1>4. Len(c) = k
  BY <1>2, <1>3
<1> DEFINE r == SubSeq(stream, k + 1, Len(stream))
<1>5. SubSeq(stream, Len(c) + 1, Len(stream)) = r /\ r \in Seq(Byte) /\ stream = c \o r
  BY <1>2, <1>3, <1>4
<1> HIDE DEF r
<1>6. c \in Seq(Byte)
  BY <1>2, <1>3
<1>7. k \in Nat /\ k <= n
  BY <1>1, <1>2
<1>8. QED  BY <1>4, <1>5, <1>6, <1>7

LEMMA InitTyped == Init => TypeOK /\ ReaderInv
<1> SUFFICES ASSUME Init PROVE TypeOK /\ ReaderInv
  OBVIOUS
<1>1. /\ <<>> \in Seq(Byte) /\ <<>> \in Seq([id : Word, msg : Seq(1 .. 255)])
      /\ <<>> \in Seq(Messages) /\ Len(<<>>) = 0
  OBVIOUS
<1>2. TypeOK
  <2>1. 0 < HeadLen + PtrSize /\ 0 <= MaxMessages /\ 0 \in 0 .. MaxConnects /\ 0 \in 0 .. 0
    BY RecvBoundsAssumption, PtrSizeAssumption DEF HeadLen
  <2>2. /\ Len(head) = 0 /\ Len(sent) = 0 /\ Len(m_recvQueue) = 0
        /\ head \in Seq(Byte) /\ body \in Seq(Byte) /\ stream \in Seq(Byte)
        /\ sent \in Seq(Messages) /\ m_recvQueue \in Seq([id : Word, msg : Seq(1 .. 255)])
    BY <1>1 DEF Init
  <2>3. /\ mark \in 0 .. Len(m_recvQueue) /\ connects \in 0 .. MaxConnects
        /\ Len(head) < HeadLen + PtrSize /\ Len(sent) <= MaxMessages
    BY <2>1, <2>2 DEF Init
  <2>4. QED  BY <2>2, <2>3 DEF Init, TypeOK
<1>3. ReaderInv
  BY DEF Init, ReaderInv
<1>4. QED  BY <1>2, <1>3

\* Every step keeps the types, and what is read at each position.
LEMMA NextTyped ==
    ASSUME TypeOK, ReaderInv, [Next]_vars
    PROVE  TypeOK' /\ ReaderInv'
<1> USE DEF At, connVars, recvVars
<1>1. CASE RecvLoop
  BY <1>1 DEF RecvLoop, TypeOK, ReaderInv, BodyLen
<1>2. CASE CheckHolds
  <2>1. <<>> \in Seq(Byte) /\ Len(<<>>) = 0
    OBVIOUS
  <2>2. QED  BY <1>2, <2>1, PtrSizeAssumption DEF CheckHolds, TypeOK,
     ReaderInv, HeadLen
<1>3. CASE Reconnect
  <2>1. <<>> \in Seq(Byte) /\ <<>> \in Seq(Messages) /\ Len(<<>>) = 0
    OBVIOUS
  <2>2. 0 < HeadLen + PtrSize /\ 0 <= MaxMessages
    BY PtrSizeAssumption, RecvBoundsAssumption DEF HeadLen
  <2>3. Len(m_recvQueue) \in 0 .. Len(m_recvQueue)
    BY LenProperties DEF TypeOK
  <2>4. connects' \in 0 .. MaxConnects /\ link' \in {"up", "none"}
    BY <1>3, RecvBoundsAssumption DEF Reconnect, TypeOK
  <2>5. /\ rpc' = "head" /\ head' = <<>> /\ body' = <<>> /\ stream' = <<>>
        /\ sent' = <<>> /\ mark' = Len(m_recvQueue) /\ torn' = FALSE
        /\ m_isRuning' = m_isRuning /\ m_recvQueue' = m_recvQueue
    BY <1>3 DEF Reconnect
  <2>6. TypeOK'
    BY <2>1, <2>2, <2>3, <2>4, <2>5 DEF TypeOK
  <2>7. ReaderInv'
    BY <2>5 DEF ReaderInv
  <2>8. QED  BY <2>6, <2>7
<1>4. CASE HeadNone
  BY <1>4 DEF HeadNone, TypeOK, ReaderInv, BodyLen
<1>5. CASE HeadFirst
  <2>1. PICK c \in Chunks(HeadLen) :
           /\ At("head", IF Len(c) = HeadLen THEN "decode" ELSE "more")
           /\ head' = c
           /\ Read(c)
           /\ UNCHANGED <<body, m_recvQueue, torn>>
    BY <1>5 DEF HeadFirst
  <2>2. /\ c \in Seq(Byte) /\ Len(c) \in Nat /\ Len(c) <= HeadLen
        /\ stream' \in Seq(Byte)
    BY <2>1, ChunkTaken DEF HeadLen, TypeOK, Read
  <2>3. Len(c) < HeadLen + PtrSize
    BY <2>2, PtrSizeAssumption DEF HeadLen
  <2>4. TypeOK'
    BY <2>1, <2>2, <2>3 DEF TypeOK, Read
  <2>5. ReaderInv'
    <3> DEFINE l == Len(c)
    <3>1. /\ rpc' = IF l = HeadLen THEN "decode" ELSE "more"
          /\ Len(head') = l /\ body' = <<>> /\ l \in Nat /\ l <= HeadLen
      BY <2>1, <2>2 DEF ReaderInv
    <3> HIDE DEF l
    <3>2. (l = HeadLen => l >= HeadLen) /\ (l # HeadLen => l < HeadLen)
      BY <3>1 DEF HeadLen
    <3>3. QED  BY <3>1, <3>2 DEF ReaderInv
  <2>6. QED  BY <2>4, <2>5
<1>6. CASE HeadMore
  <2>1. PICK c \in Chunks(PtrSize) :
           /\ At("more", IF Len(head \o c) >= HeadLen THEN "decode" ELSE "more")
           /\ head' = head \o c
           /\ torn' = (torn \/ Len(head \o c) > HeadLen)
           /\ Read(c)
           /\ UNCHANGED <<body, m_recvQueue>>
    BY <1>6 DEF HeadMore
  <2>2. PtrSize \in Nat /\ PtrSize # 0
    BY PtrSizeAssumption
  <2>3. /\ c \in Seq(Byte) /\ Len(c) \in Nat /\ Len(c) <= PtrSize
        /\ stream' \in Seq(Byte)
    BY <2>1, <2>2, ChunkTaken DEF TypeOK, Read
  <2>4. /\ head \o c \in Seq(Byte) /\ Len(head \o c) = Len(head) + Len(c)
        /\ Len(head) \in Nat
    BY <2>3, ConcatProperties, LenProperties DEF TypeOK
  <2>5. Len(head) < HeadLen /\ HeadLen \in Nat
    BY <2>1 DEF ReaderInv, HeadLen
  <2> DEFINE l == Len(head \o c)
  <2>6. l \in Nat /\ l < HeadLen + PtrSize
    BY <2>2, <2>3, <2>4, <2>5
  <2>7. TypeOK'
    BY <2>1, <2>3, <2>4, <2>6 DEF TypeOK, Read
  <2>8. ReaderInv'
    <3>1. /\ rpc' = IF l >= HeadLen THEN "decode" ELSE "more"
          /\ Len(head') = l /\ body' = <<>> /\ torn' = (torn \/ l > HeadLen)
      BY <2>1 DEF ReaderInv
    <3> HIDE DEF l
    <3>2. /\ ~(l >= HeadLen) => l < HeadLen
          /\ l >= HeadLen /\ ~(l > HeadLen) => l = HeadLen
      BY <2>5, <2>6
    <3>3. rpc' = "decode" /\ ~torn' => ~(l > HeadLen)
      BY <3>1
    <3>4. QED  BY <3>1, <3>2, <3>3 DEF ReaderInv
  <2>9. QED  BY <2>7, <2>8
<1>7. CASE Decode
  <2>1. /\ rpc = "decode" /\ rpc' \in {"body", "loop", "aborted"}
        /\ rpc' = "body" => BodyLen > 0
        /\ UNCHANGED <<m_isRuning, connVars, head, body, m_recvQueue, torn>>
    BY <1>7 DEF Decode
  <2>2. TypeOK'
    BY <2>1 DEF TypeOK
  <2>3. ReaderInv'
    <3>1. Len(<<>>) = 0 /\ body = <<>> /\ body' = <<>> /\ BodyLen' = BodyLen
      BY <2>1 DEF ReaderInv, BodyLen
    <3>2. QED  BY <2>1, <3>1 DEF ReaderInv
  <2>4. QED  BY <2>2, <2>3
<1>8. CASE BodyMore
  <2>1. PICK c \in Chunks(BodyLen - Len(body)) :
           /\ rpc = "body"
           /\ rpc' = IF Len(body \o c) = BodyLen THEN "loop" ELSE "body"
           /\ body' = body \o c
           /\ m_recvQueue' = IF Len(body \o c) = BodyLen
                               THEN Append(m_recvQueue,
                                           MakePocket(body \o c, ReadId(head)))
                               ELSE m_recvQueue
           /\ Read(c)
           /\ UNCHANGED <<head, torn>>
    BY <1>8 DEF BodyMore
  <2>2. /\ ReadId(head) \in Word /\ BodyLen \in Int
        /\ Len(body) \in Nat /\ Len(body) < BodyLen
    BY <2>1, HeadTyped, LenProperties DEF TypeOK, ReaderInv, BodyLen
  <2>3. BodyLen - Len(body) \in Nat
    BY <2>2
  <2>4. /\ c \in Seq(Byte) /\ Len(c) \in Nat /\ Len(c) <= BodyLen - Len(body)
        /\ stream' \in Seq(Byte)
    BY <2>1, <2>3, ChunkTaken DEF TypeOK, Read
  <2> DEFINE got == body \o c
  <2>5. got \in Seq(Byte) /\ Len(got) = Len(body) + Len(c)
    BY <2>4, ConcatProperties DEF TypeOK
  <2> HIDE DEF got
  <2>6. Len(got) \in Nat /\ Len(got) <= BodyLen
    BY <2>2, <2>4, <2>5
  <2>7. MakePocket(got, ReadId(head)) \in Pocket
    BY <2>2, <2>5, PocketMade
  <2>8. /\ m_recvQueue' \in Seq(Pocket) /\ Len(m_recvQueue) \in Nat
        /\ Len(m_recvQueue') \in {Len(m_recvQueue), Len(m_recvQueue) + 1}
    <3> DEFINE p == MakePocket(got, ReadId(head))
    <3>1. m_recvQueue \in Seq(Pocket) /\ p \in Pocket
      BY <2>7 DEF TypeOK, Pocket
    <3>2. m_recvQueue' = m_recvQueue \/ m_recvQueue' = Append(m_recvQueue, p)
      BY <2>1 DEF got
    <3> HIDE DEF p
    <3>3. /\ Append(m_recvQueue, p) \in Seq(Pocket)
          /\ Len(Append(m_recvQueue, p)) = Len(m_recvQueue) + 1
      BY <3>1, AppendProperties
    <3>4. QED  BY <3>1, <3>2, <3>3, LenProperties
  <2>9. TypeOK'
    <3>1. mark' \in 0 .. Len(m_recvQueue')
      BY <2>1, <2>8 DEF TypeOK, Read
    <3>2. rpc' \in {"loop", "body"} /\ body' \in Seq(Byte)
      BY <2>1, <2>5 DEF got
    <3>3. QED  BY <2>1, <2>4, <2>8, <3>1, <3>2 DEF TypeOK, Read, Pocket
  <2>10. ReaderInv'
    <3>1. /\ rpc' = IF Len(got) = BodyLen THEN "loop" ELSE "body"
          /\ body' = got /\ BodyLen' = BodyLen /\ head' = head /\ torn' = torn
      BY <2>1 DEF got, BodyLen
    <3>2. rpc' = "body" => Len(got) < BodyLen
      BY <2>2, <2>6, <3>1
    <3>3. QED  BY <2>1, <3>1, <3>2 DEF ReaderInv
  <2>11. QED  BY <2>9, <2>10
<1>9. CASE Stop
  <2>1. TypeOK'
    BY <1>9 DEF Stop, TypeOK
  <2>2. ReaderInv'
    BY <1>9 DEF Stop, ReaderInv, BodyLen
  <2>3. QED  BY <2>1, <2>2
<1>10. CASE ServerSends
  <2>1. PICK m \in Messages : /\ sent' = Append(sent, m)
                              /\ stream' = stream \o Framed(m)
    BY <1>10 DEF ServerSends
  <2>2. sent' \in Seq(Messages) /\ Len(sent') = Len(sent) + 1 /\ Len(sent) \in Nat
    BY <2>1, AppendProperties, LenProperties DEF TypeOK
  <2>3. stream' \in Seq(Byte)
    BY <2>1, FrameBytes, ConcatProperties DEF TypeOK
  <2>4. Len(sent') <= MaxMessages
    BY <1>10, <2>2, RecvBoundsAssumption DEF ServerSends
  <2>5. QED  BY <1>10, <2>2, <2>3, <2>4 DEF ServerSends, TypeOK, ReaderInv,
     BodyLen
<1>11. CASE ServerCloses
  <2>1. stream' \in Seq(Byte)
    BY <1>11, CutSeq DEF ServerCloses, TypeOK
  <2>2. QED  BY <1>11, <2>1 DEF ServerCloses, TypeOK, ReaderInv, BodyLen
<1>12. CASE LinkBreaks
  <2>1. <<>> \in Seq(Byte)
    OBVIOUS
  <2>2. QED  BY <1>12, <2>1 DEF LinkBreaks, TypeOK, ReaderInv, BodyLen
<1>13. CASE UNCHANGED vars
  BY <1>13 DEF vars, TypeOK, ReaderInv, BodyLen
<1>14. QED
  BY <1>1, <1>2, <1>3, <1>4, <1>5, <1>6, <1>7, <1>8, <1>9, <1>10, <1>11, <1>12,
     <1>13
  DEF Next, Receiver

(* Whatever is read, th_recv only has heads and bodies of the lengths it   *)
(* made room for, and a head read past its end by less than a pointer.     *)
THEOREM TypeCorrect == Spec => []TypeOK
<1>1. Init => TypeOK /\ ReaderInv
  BY InitTyped
<1>2. TypeOK /\ ReaderInv /\ [Next]_vars => (TypeOK /\ ReaderInv)'
  BY NextTyped
<1>3. QED  BY <1>1, <1>2, PTL DEF Spec

-----------------------------------------------------------------------------
(* The steps that take nothing of the stream, or move it to what is taken. *)
LEMMA FrontSame ==
    ASSUME FrontInv, ~torn' => ~torn, rpc' # "aborted",
           Taken' \o stream' = Taken \o stream,
           sent' = sent, link' = link, mark' = mark, m_recvQueue' = m_recvQueue
    PROVE  FrontInv'
<1>1. Got' = Got /\ Lost' = Lost
  BY DEF Got, Lost
<1> DEFINE r == Taken \o stream
           s == Taken' \o stream'
<1>2. s = r /\ FrontInv' = (~torn' => rpc' # "aborted" /\ AtFront(sent', s, Got', Lost'))
  BY DEF FrontInv
<1>3. ~torn => AtFront(sent, r, Got, Lost)
  BY DEF FrontInv
<1> HIDE DEF r, s
<1>4. ~torn' => AtFront(sent', s, Got', Lost')
  BY <1>1, <1>2, <1>3
<1>5. QED  BY <1>2, <1>4

\* The pockets of the connection, when one more is pushed.
LEMMA OneGot ==
    ASSUME NEW S, NEW q \in Seq(S), NEW k \in 0 .. Len(q), NEW p \in S
    PROVE  /\ SubSeq(q, k + 1, Len(q)) \in Seq(S)
           /\ SubSeq(Append(q, p), k + 1, Len(Append(q, p)))
                 = Append(SubSeq(q, k + 1, Len(q)), p)
<1> DEFINE t == Append(q, p)
           a == SubSeq(q, 1, k)
           b == SubSeq(q, k + 1, Len(q))
           c == SubSeq(t, 1, k)
           d == SubSeq(t, k + 1, Len(t))
           e == <<p>>
<1>1. /\ Len(q) \in Nat /\ t \in Seq(S) /\ Len(t) = Len(q) + 1
      /\ t = q \o e /\ e \in Seq(S)
  BY LenProperties, AppendProperties, AppendIsConcat
<1>2. k \in 0 .. Len(t)
  BY <1>1
<1>3. a \in Seq(S) /\ Len(a) = k /\ b \in Seq(S) /\ q = a \o b
  BY CutSeq
<1> HIDE DEF t
<1>4. c \in Seq(S) /\ Len(c) = k /\ d \in Seq(S) /\ t = c \o d
  BY <1>1, <1>2, CutSeq
<1>5. Append(b, p) = b \o e
  BY <1>3, AppendIsConcat
<1> HIDE DEF a, b, c, d, e
<1>6. b \o e \in Seq(S) /\ (a \o b) \o e = a \o (b \o e)
  <2>1. Grouped(S, a, b, e)
    BY <1>1, <1>3, Associates
  <2>2. QED  BY <2>1 DEF Grouped
<1>7. d = b \o e
  <2> DEFINE f == b \o e
  <2>1. c \o d = a \o f /\ f \in Seq(S) /\ Len(c) = Len(a)
    BY <1>1, <1>3, <1>4, <1>6
  <2> HIDE DEF f
  <2>2. d = f
    BY <1>3, <1>4, <2>1, SameCut
  <2>3. QED  BY <2>2 DEF f
<1>8. QED  BY <1>3, <1>5, <1>7 DEF b, d, t

\* The steps that lose an end t of the stream.
LEMMA FrontLost ==
    ASSUME FrontInv, sent \in Seq(Messages), Lost \in SUBSET Seq(Byte),
           Taken \in Seq(Byte), stream' \in Seq(Byte),
           NEW t \in Seq(Byte), stream = stream' \o t,
           Taken' = Taken, Got' = Got, Lost' = Seq(Byte),
           torn' = torn, rpc' = rpc, sent' = sent
    PROVE  FrontInv'
<1> DEFINE r == Taken
           s == stream'
<1>1. Grouped(Byte, r, s, t)
  BY Associates
<1>2. Taken \o stream = (r \o s) \o t /\ r \o s \in Seq(Byte)
  BY <1>1 DEF Grouped
<1> DEFINE w == r \o s
<1>3. ~torn => AtFront(sent, w \o t, Got, Lost)
  BY <1>2 DEF FrontInv
<1>4. w \in Seq(Byte)
  BY <1>2
<1> HIDE DEF w
<1>5. ~torn => AtFront(sent, w, Got, Seq(Byte))
  BY <1>3, <1>4, FrontCut
<1>6. Taken' \o stream' = w
  BY DEF w
<1>7. QED  BY <1>5, <1>6 DEF FrontInv

\* Every step keeps where the connection stands.
LEMMA NextFront ==
    ASSUME TypeOK, ReaderInv, FrontInv, [Next]_vars
    PROVE  FrontInv'
<1> USE DEF At, connVars, recvVars
<1>1. /\ stream \in Seq(Byte) /\ head \in Seq(Byte) /\ body \in Seq(Byte)
      /\ sent \in Seq(Messages) /\ m_recvQueue \in Seq(Pocket)
      /\ Lost \in SUBSET Seq(Byte)
  <2>1. <<>> \in Seq(Byte)
    OBVIOUS
  <2>2. QED  BY <2>1 DEF TypeOK, Pocket, Lost
<1>2. Taken \in Seq(Byte)
  <2>1. <<>> \in Seq(Byte) /\ head \o body \in Seq(Byte)
    BY <1>1, ConcatProperties
  <2>2. QED  BY <1>1, <2>1 DEF Taken
<1>3. CASE RecvLoop
  <2>1. Taken' = Taken /\ rpc' # "aborted"
    BY <1>3 DEF RecvLoop, Taken
  <2>2. QED  BY <1>3, <2>1, FrontSame DEF RecvLoop
<1>4. CASE CheckHolds
  <2>1. Taken' = Taken /\ rpc' # "aborted"
    BY <1>4 DEF CheckHolds, Taken
  <2>2. QED  BY <1>4, <2>1, FrontSame DEF CheckHolds
<1>5. CASE Reconnect
  <2>1. /\ sent' = <<>> /\ stream' = <<>> /\ rpc' = "head" /\ Taken' = <<>>
        /\ mark' = Len(m_recvQueue) /\ m_recvQueue' = m_recvQueue
    BY <1>5 DEF Reconnect, Taken
  <2>2. Got' = <<>>
    <3>1. Len(m_recvQueue) \in Nat
      BY <1>1, LenProperties
    <3>2. SubSeq(m_recvQueue, Len(m_recvQueue) + 1, Len(m_recvQueue)) = <<>>
      BY <3>1, SubSeqEmpty
    <3>3. QED  BY <2>1, <3>2 DEF Got
  <2>3. <<>> \in Lost' /\ <<>> \o <<>> = <<>>
    BY DEF Lost
  <2>4. AtFront(<<>>, <<>>, <<>>, Lost')
    BY <2>3, FrontStart
  <2>5. QED  BY <2>1, <2>2, <2>3, <2>4 DEF FrontInv
<1>6. CASE HeadNone
  <2>1. Taken' = Taken /\ rpc' # "aborted"
    BY <1>6 DEF HeadNone, Taken
  <2>2. QED  BY <1>6, <2>1, FrontSame DEF HeadNone
<1>7. CASE HeadFirst
  <2>1. PICK c \in Chunks(HeadLen) :
           /\ At("head", IF Len(c) = HeadLen THEN "decode" ELSE "more")
           /\ head' = c
           /\ Read(c)
           /\ UNCHANGED <<body, m_recvQueue, torn>>
    BY <1>7 DEF HeadFirst
  <2>2. c \o stream' = stream
    BY <1>1, <2>1, ChunkTaken DEF HeadLen, Read
  <2>3. Taken' = c /\ Taken = <<>> /\ rpc' # "aborted"
    BY <2>1 DEF Taken
  <2>4. Taken' \o stream' = Taken \o stream
    BY <1>1, <2>2, <2>3, ConcatEmptySeq
  <2>5. QED  BY <2>1, <2>3, <2>4, FrontSame DEF Read
<1>8. CASE HeadMore
  <2>1. PICK c \in Chunks(PtrSize) :
           /\ At("more", IF Len(head \o c) >= HeadLen THEN "decode" ELSE "more")
           /\ head' = head \o c
           /\ torn' = (torn \/ Len(head \o c) > HeadLen)
           /\ Read(c)
           /\ UNCHANGED <<body, m_recvQueue>>
    BY <1>8 DEF HeadMore
  <2>2. PtrSize \in Nat
    BY PtrSizeAssumption
  <2>3. c \in Seq(Byte) /\ c \o stream' = stream /\ stream' \in Seq(Byte)
    BY <1>1, <2>1, <2>2, ChunkTaken DEF Read
  <2>4. Taken' = head \o c /\ Taken = head /\ rpc' # "aborted"
    BY <2>1 DEF Taken
  <2>5. Grouped(Byte, head, c, stream')
    BY <1>1, <2>3, Associates
  <2>6. Taken' \o stream' = Taken \o stream
    BY <2>3, <2>4, <2>5 DEF Grouped
  <2>7. ~torn' => ~torn
    BY <2>1
  <2>8. QED  BY <2>1, <2>4, <2>6, <2>7, FrontSame DEF Read
<1>9. CASE Decode
  <2>1. /\ rpc = "decode" /\ Taken = head /\ body = <<>>
        /\ UNCHANGED <<m_isRuning, connVars, head, body, m_recvQueue, torn>>
    BY <1>9 DEF Decode, Taken, ReaderInv
  <2>2. SUFFICES ASSUME ~torn PROVE rpc' # "aborted" /\ AtFront(sent, Taken' \o stream, Got, Lost)
    <3>1. Got' = Got /\ Lost' = Lost /\ sent' = sent /\ stream' = stream /\ torn' = torn
      BY <2>1 DEF Got, Lost
    <3>2. QED  BY <2>1, <3>1 DEF FrontInv
  <2>3. Len(head) = HeadLen /\ AtFront(sent, head \o stream, Got, Lost)
    BY <2>1, <2>2 DEF ReaderInv, FrontInv
  <2>4. /\ HasBody(head) /\ BodyLen \in Nat /\ BodyLen < 32760
        /\ BodyLen = 0 => AtFront(sent, stream, Got, Lost)
    BY <1>1, <2>3, FrontDecode DEF BodyLen
  <2>5. ~(BodyLen < -1) /\ ~(BodyLen >= AllocMayFail) /\ (~(BodyLen > 0) => BodyLen = 0)
    BY <2>4 DEF AllocMayFail
  <2>6. ~(Len(head) > HeadLen)
    BY <2>3 DEF HeadLen
  <2>7. rpc' = IF BodyLen > 0 THEN "body" ELSE "loop"
    BY <1>9, <2>4, <2>5, <2>6 DEF Decode
  <2>8. CASE BodyLen > 0
    <3>1. rpc' = "body" /\ head \o <<>> = head
      BY <1>1, <2>7, <2>8, ConcatEmptySeq
    <3>2. Taken' = head
      BY <2>1, <3>1 DEF Taken
    <3>3. QED  BY <2>3, <3>1, <3>2
  <2>9. CASE ~(BodyLen > 0)
    <3>1. rpc' = "loop" /\ Taken' = <<>>
      BY <2>7, <2>9 DEF Taken
    <3>2. <<>> \o stream = stream
      BY <1>1, ConcatEmptySeq
    <3>3. QED  BY <2>4, <2>5, <2>9, <3>1, <3>2
  <2>10. QED  BY <2>8, <2>9
<1>10. CASE BodyMore
  <2>1. PICK c \in Chunks(BodyLen - Len(body)) :
           /\ rpc = "body"
           /\ rpc' = IF Len(body \o c) = BodyLen THEN "loop" ELSE "body"
           /\ body' = body \o c
           /\ m_recvQueue' = IF Len(body \o c) = BodyLen
                               THEN Append(m_recvQueue,
                                           MakePocket(body \o c, ReadId(head)))
                               ELSE m_recvQueue
           /\ Read(c)
           /\ UNCHANGED <<head, torn>>
    BY <1>10 DEF BodyMore
  <2>2. /\ ReadId(head) \in Word /\ BodyLen \in Int
        /\ Len(body) \in Nat /\ Len(body) < BodyLen
    BY <1>1, <2>1, HeadTyped, LenProperties DEF ReaderInv, BodyLen
  <2>3. BodyLen - Len(body) \in Nat
    BY <2>2
  <2>4. c \in Seq(Byte) /\ stream' \in Seq(Byte) /\ c \o stream' = stream
    BY <1>1, <2>1, <2>3, ChunkTaken DEF Read
  <2> DEFINE got == body \o c
  <2>5. Regrouped(head, body, c, stream') /\ Grouped(Byte, body, c, stream') /\ Grouped(Byte, head, body, stream)
    BY <1>1, <2>4, Associates, Regroup4
  <2>6. /\ got \in Seq(Byte) /\ got \o stream' = body \o stream
        /\ (head \o got) \o stream' = head \o (body \o stream)
        /\ (head \o body) \o stream = head \o (body \o stream)
    BY <2>4, <2>5 DEF Regrouped, Grouped
  <2>7. Taken = head \o body /\ torn' = torn /\ sent' = sent /\ link' = link /\ mark' = mark
    BY <2>1 DEF Taken, Read
  <2> HIDE DEF got
  <2>8. CASE Len(got) = BodyLen
    <3>1. SUFFICES ASSUME ~torn PROVE rpc' # "aborted" /\ AtFront(sent, Taken' \o stream', Got', Lost)
      <4>1. Lost' = Lost
        BY <2>7 DEF Lost
      <4>2. QED  BY <2>7, <4>1, <3>1 DEF FrontInv
    <3> DEFINE p == MakePocket(got, ReadId(head))
    <3>2. /\ rpc' = "loop" /\ Taken' = <<>> /\ m_recvQueue' = Append(m_recvQueue, p)
      BY <2>1, <2>8 DEF Taken, got
    <3>3. p \in Pocket
      BY <2>2, <2>6, PocketMade
    <3> HIDE DEF p
    <3>4. Got \in Seq(Pocket) /\ Got' = Append(Got, p)
      <4>1. mark \in 0 .. Len(m_recvQueue)
        BY DEF TypeOK
      <4>2. QED  BY <1>1, <2>7, <3>2, <3>3, <4>1, OneGot DEF Got
    <3>5. Len(head) = HeadLen /\ AtFront(sent, (head \o body) \o stream, Got, Lost)
      BY <2>1, <2>7, <3>1 DEF ReaderInv, FrontInv
    <3>6. AtFront(sent, head \o (got \o stream'), Got, Lost)
      BY <2>6, <3>5
    <3>7. IsBody(got, head)
      <4>1. Len(got) # 0
        BY <2>2, <2>8
      <4>2. got # <<>>
        BY <4>1
      <4>3. QED  BY <2>8, <4>2 DEF IsBody, BodyLen
    <3>8. AtFront(sent, stream', Append(Got, p), Lost)
      BY <1>1, <2>4, <2>6, <3>4, <3>5, <3>6, <3>7, FrontBody DEF p
    <3>9. <<>> \o stream' = stream'
      BY <2>4, ConcatEmptySeq
    <3>10. QED  BY <3>2, <3>4, <3>8, <3>9
  <2>9. CASE Len(got) # BodyLen
    <3>1. rpc' = "body" /\ body' = got /\ head' = head /\ m_recvQueue' = m_recvQueue
      BY <2>1, <2>9 DEF got
    <3>2. Taken' = head \o got
      BY <3>1 DEF Taken
    <3>3. Taken' \o stream' = Taken \o stream
      BY <2>6, <2>7, <3>2
    <3>4. QED  BY <2>7, <3>1, <3>3, FrontSame
  <2>10. QED  BY <2>8, <2>9
<1>11. CASE Stop
  <2>1. Taken' = Taken
    BY <1>11 DEF Stop, Taken
  <2>2. QED  BY <1>11, <2>1 DEF Stop, FrontInv, Got, Lost
<1>12. CASE ServerSends
  <2>1. PICK m \in Messages : sent' = Append(sent, m) /\ stream' = stream \o Framed(m)
    BY <1>12 DEF ServerSends
  <2>2. /\ Taken' = Taken /\ Got' = Got /\ Lost = {<<>>} /\ Lost' = {<<>>}
        /\ torn' = torn /\ rpc' = rpc
    BY <1>12 DEF ServerSends, Taken, Got, Lost
  <2>3. Framed(m) \in Seq(Byte)
    BY FrameBytes
  <2>4. Grouped(Byte, Taken, stream, Framed(m))
    BY <1>1, <1>2, <2>3, Associates
  <2>5. Taken \o stream' = (Taken \o stream) \o Framed(m) /\ Taken \o stream \in Seq(Byte)
    BY <2>1, <2>4 DEF Grouped
  <2>6. ~torn => AtFront(sent', Taken \o stream', Got, {<<>>})
    BY <1>1, <2>1, <2>2, <2>5, FrontSends DEF FrontInv
  <2>7. QED  BY <2>2, <2>6 DEF FrontInv
<1>13. CASE ServerCloses
  <2>1. PICK k \in 0 .. Len(stream) : stream' = SubSeq(stream, 1, k)
    BY <1>13 DEF ServerCloses
  <2>2. PICK t \in Seq(Byte) : stream' \in Seq(Byte) /\ stream = stream' \o t
    <3>1. /\ SubSeq(stream, 1, k) \in Seq(Byte)
          /\ SubSeq(stream, k + 1, Len(stream)) \in Seq(Byte)
          /\ stream = SubSeq(stream, 1, k) \o SubSeq(stream, k + 1, Len(stream))
      BY <1>1, CutSeq
    <3>2. QED  BY <2>1, <3>1
  <2>3. /\ Taken' = Taken /\ Got' = Got /\ Lost' = Seq(Byte)
        /\ torn' = torn /\ rpc' = rpc /\ sent' = sent
    BY <1>13 DEF ServerCloses, Taken, Got, Lost
  <2>4. QED  BY <1>1, <1>2, <2>2, <2>3, FrontLost
<1>14. CASE LinkBreaks
  <2>1. stream' = <<>> /\ stream' \in Seq(Byte) /\ stream = stream' \o stream
    BY <1>14, <1>1, ConcatEmptySeq DEF LinkBreaks
  <2>2. /\ Taken' = Taken /\ Got' = Got /\ Lost' = Seq(Byte)
        /\ torn' = torn /\ rpc' = rpc /\ sent' = sent
    BY <1>14 DEF LinkBreaks, Taken, Got, Lost
  <2>3. QED  BY <1>1, <1>2, <2>1, <2>2, FrontLost
<1>15. CASE UNCHANGED vars
  BY <1>15 DEF vars, FrontInv, Got, Lost, Taken
<1>16. QED
  BY <1>3, <1>4, <1>5, <1>6, <1>7, <1>8, <1>9, <1>10, <1>11, <1>12, <1>13,
     <1>14, <1>15
  DEF Next, Receiver

LEMMA InitFront == Init => FrontInv
<1> SUFFICES ASSUME Init PROVE AtFront(sent, Taken \o stream, Got, Lost) /\ rpc # "aborted"
  BY DEF FrontInv
<1>1. <<>> \in Seq(Byte) /\ <<>> \o <<>> = <<>> /\ Len(<<>>) = 0
  OBVIOUS
<1>2. Taken = <<>> /\ stream = <<>> /\ sent = <<>> /\ rpc # "aborted"
  BY DEF Init, Taken
<1>3. Got = <<>>
  <2>1. SubSeq(<<>>, 1, 0) = <<>>
    BY SubSeqEmpty
  <2>2. QED  BY <1>1, <2>1 DEF Init, Got
<1>4. AtFront(<<>>, <<>>, <<>>, Lost)
  BY <1>1, FrontStart DEF Lost
<1>5. QED  BY <1>1, <1>2, <1>3, <1>4

\* What the invariant says at the positions that the properties are about.
LEMMA FrontSays ==
    ASSUME TypeOK, FrontInv
    PROVE  DeliveredInOrder /\ InSync /\ AbortsOnlyTorn
<1>1. sent \in Seq(Messages) /\ stream \in Seq(Byte)
  BY DEF TypeOK
<1>2. DeliveredInOrder
  <2>1. ~torn => AtFront(sent, Taken \o stream, Got, Lost)
    BY DEF FrontInv
  <2>2. QED  BY <1>1, <2>1, FrontInOrder DEF DeliveredInOrder
<1>3. InSync
  <2>1. SUFFICES ASSUME ~torn, rpc = "loop", link = "up"
                 PROVE  \E n \in 0 .. Len(sent) :
                           /\ stream = Frames(SubSeq(sent, n + 1, Len(sent)))
                           /\ Got = Pockets(SubSeq(sent, 1, n))
    BY DEF InSync
  <2>2. Taken = <<>> /\ Lost = {<<>>} /\ AtFront(sent, Taken \o stream, Got, Lost)
    BY <2>1 DEF Taken, Lost, FrontInv
  <2>3. PICK n \in 0 .. Len(sent) :
           RestOf(sent, n) = (Taken \o stream) \o <<>> /\ Got = DoneOf(sent, n)
    BY <2>2 DEF AtFront
  <2>4. (<<>> \o stream) \o <<>> = stream
    BY <1>1, ConcatEmptySeq
  <2>5. QED  BY <2>2, <2>3, <2>4 DEF RestOf, DoneOf
<1>4. AbortsOnlyTorn
  BY DEF FrontInv, AbortsOnlyTorn
<1>5. QED  BY <1>2, <1>3, <1>4

LEMMA ReadInvariant == Spec => []ReadInv
<1>1. Init => ReadInv
  BY InitTyped, InitFront DEF ReadInv
<1>2. ReadInv /\ [Next]_vars => ReadInv'
  BY NextTyped, NextFront DEF ReadInv
<1>3. QED  BY <1>1, <1>2, PTL DEF Spec

(* recvFunc() pushes what the server sent, in order and once, however the  *)
(* bytes are cut into reads and wherever the connection ends; as long as   *)
(* no head is read past its end.                                           *)
THEOREM PocketsInOrder == Spec => []DeliveredInOrder
<1>1. ReadInv => DeliveredInOrder
  BY FrontSays DEF ReadInv
<1>2. QED  BY <1>1, ReadInvariant, PTL

(* Between two rounds of th_recv the stream starts with a whole frame, and *)
(* the messages before it are pushed.                                      *)
THEOREM ReaderInSync == Spec => []InSync
<1>1. ReadInv => InSync
  BY FrontSays DEF ReadInv
<1>2. QED  BY <1>1, ReadInvariant, PTL

(* Neither the allocation of the body nor the heap can end the process on  *)
(* a message of the server, as long as no head is read past its end.       *)
THEOREM AbortsAfterTornHead == Spec => []AbortsOnlyTorn
<1>1. ReadInv => AbortsOnlyTorn
  BY FrontSays DEF ReadInv
<1>2. QED  BY <1>1, ReadInvariant, PTL
=============================================================================



