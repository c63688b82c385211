---------------------------- MODULE PocketFrame ----------------------------
(***************************************************************************)
(* The bytes of a message on the connection: the head that sendFunc()      *)
(* builds and recvFunc() takes apart (Classes/NetWork/TcpClient.cpp), and  *)
(* what MakePocket() keeps of a message.                                   *)
(*                                                                         *)
(* An unsigned int is a Word, its four bytes with the lowest first, so     *)
(* that nothing here exceeds the integers of TLC.  recvFunc() combines     *)
(* elements of a char array with | and <<: where char is signed, a byte    *)
(* from 128 up extends with ones into every byte above it unless the code  *)
(* masks it, and it masks only some.                                       *)
(***************************************************************************)
EXTENDS Platform, Integers, Sequences

Byte == 0 .. 255
Word == [1 .. 4 -> Byte]

HeadLen == 10            \* headLen

\* A number as a Word; the code only has numbers below 2^31 to convert.
WordOf(n) == [k \in 1 .. 4 |-> CASE k = 1 -> n % 256
                                 [] k = 2 -> (n \div 256) % 256
                                 [] k = 3 -> (n \div 65536) % 256
                                 [] k = 4 -> n \div 16777216]

\* A Word assigned to an int.
IntOf(w) == w[1] + 256 * w[2] + 65536 * w[3]
            + 16777216 * (IF w[4] >= 128 THEN w[4] - 256 ELSE w[4])

-----------------------------------------------------------------------------
\* Mutants: the length without the 8; the id and the length exchanged.
ShortLenBare(len) == len[1] + 256 * len[2]

EncodeHeadSwapped(id, len) ==
    << (len[1] + 8) % 256, len[2],
       len[1], len[2], len[3], len[4], id[1], id[2], id[3], id[4] >>

(* sendFunc(): two bytes of length + 8, four of the id, four of the length.*)
ShortLen(len) == (len[1] + 256 * len[2] + 8) % 65536

EncodeHead(id, len) ==
    << ShortLen(len) % 256, ShortLen(len) \div 256,
       id[1], id[2], id[3], id[4],
       len[1], len[2], len[3], len[4] >>

-----------------------------------------------------------------------------
(* recvFunc(): what it makes of a head h.                                  *)
Extends(b) == CharSigned /\ b >= 128

\* protobufLength, an unsigned short; neither byte is masked.
ReadShort(h) == IF Extends(h[1]) THEN 65280 + h[1] ELSE h[1] + 256 * h[2]

\* msgId and protocol, unsigned ints that start at byte k: only the first
\* byte is masked.
ReadWord(h, k) ==
    << h[k],
       h[k + 1],
       IF Extends(h[k + 1]) THEN 255 ELSE h[k + 2],
       IF Extends(h[k + 1]) \/ Extends(h[k + 2]) THEN 255 ELSE h[k + 3] >>

ReadId(h)  == ReadWord(h, 3)
ReadLen(h) == ReadWord(h, 7)
\* Mutant of HasBody: compared with the length of the head.
HasBodyBeyondHead(h) == ReadShort(h) > HeadLen
HasBody(h) == ReadShort(h) > 6

-----------------------------------------------------------------------------
(* MakePocket() measures its argument with strlen(): a message ends before *)
(* its first zero byte.                                                    *)
CString(s) ==
    LET zeros == {i \in DOMAIN s : s[i] = 0}
    IN  IF zeros = {} THEN s
        ELSE SubSeq(s, 1, (CHOOSE i \in zeros : \A j \in zeros : i <= j) - 1)

MakePocket(msg, id) == [id |-> id, msg |-> CString(msg)]

\* What sendFunc() writes for a pocket: id 0 is sent without a head.
Framed(pk) == IF pk.id = WordOf(0)
                THEN pk.msg
                ELSE EncodeHead(pk.id, WordOf(Len(pk.msg))) \o pk.msg

-----------------------------------------------------------------------------
(* The words that survive recvFunc(): the bytes above an extended one are  *)
(* all ones already.                                                       *)
SignStable(w) ==
    /\ Extends(w[2]) => w[3] = 255 /\ w[4] = 255
    /\ Extends(w[3]) => w[4] = 255

(* A head comes out of recvFunc() as it went into sendFunc() exactly when  *)
(* both its words are SignStable: ids below 32768 and from 0xFFFF8000 up,  *)
(* lengths below 32768.                                                    *)
HeadRoundTrip(id, len) ==
    LET h == EncodeHead(id, len)
    IN  ReadId(h) = id /\ ReadLen(h) = len <=> SignStable(id) /\ SignStable(len)

(* The two bytes at the front hide the body of a message, which recvFunc() *)
(* then takes for the next head, exactly when length + 8 wraps to 0 .. 6.  *)
BodySeen(id, len) ==
    ~HasBody(EncodeHead(id, len))
       <=> len[2] = 255 /\ len[1] \in 248 .. 254
=============================================================================
