----------------------------- MODULE WireFormat -----------------------------
(***************************************************************************)
(* The encoding of one field of a protocol message, as the generated code  *)
(* uses it (google/protobuf/io/coded_stream, wire_format_lite).            *)
(*                                                                         *)
(* A number of 64 bits is the sequence of its groups of seven bits, the    *)
(* lowest first and without leading zeros: nothing here exceeds the        *)
(* integers of TLC, and a negative number is the number of ten groups that *)
(* it is sent as.  A text is the sequence of its bytes.                    *)
(***************************************************************************)
EXTENDS Integers, Sequences

Zero == <<0>>
One  == <<1>>

MaxVarintBytes == 10     \* kMaxVarintBytes

Group == 0 .. 127
Num == { v \in Seq(Group) : /\ Len(v) \in 1 .. MaxVarintBytes
                            /\ Len(v) > 1 => v[Len(v)] # 0
                            /\ Len(v) = MaxVarintBytes => v[Len(v)] = 1 }

\* The number of the groups v, which may begin with zeros.
Trimmed(v) ==
    LET used == {i \in DOMAIN v : v[i] # 0}
    IN  IF used = {} THEN Zero
        ELSE SubSeq(v, 1, CHOOSE i \in used : \A j \in used : j <= i)

\* A number below 2^31.
Weights == <<1, 128, 16384, 2097152, 268435456>>
NumOf(n) == Trimmed([i \in 1 .. 5 |-> (n \div Weights[i]) % 128])

\* A cast to uint64 of what up to ten bytes hold, and casts of that to
\* uint32 and to int (sent as int64, sign and all).
As64(v) == Trimmed([i \in DOMAIN v |-> IF i = MaxVarintBytes THEN v[i] % 2
                                                             ELSE v[i]])
Low32(v) == [i \in 1 .. 5 |-> IF i > Len(v) THEN 0
                              ELSE IF i = 5 THEN v[i] % 16 ELSE v[i]]
As32(v) == Trimmed(Low32(v))
AsInt(v) == IF Low32(v)[5] < 8 THEN As32(v)
            ELSE [i \in 1 .. 10 |-> IF i < 5 THEN Low32(v)[i]
                                    ELSE IF i = 5 THEN Low32(v)[i] + 112
                                    ELSE IF i < 10 THEN 127 ELSE 1]

-----------------------------------------------------------------------------
(* Writing.                                                                *)
VARINT == 0              \* the wire types
FIXED64 == 1
LENGTH_DELIMITED == 2
START_GROUP == 3
END_GROUP == 4
FIXED32 == 5

IsText(type) == type \in {"string", "bytes"}
WireType(type) == IF IsText(type) THEN LENGTH_DELIMITED ELSE VARINT

\* Mutant of WriteVarint: the last byte is marked like the others.
WriteVarintUnended(v) == [i \in DOMAIN v |-> v[i] + 128]

WriteVarint(v) == [i \in DOMAIN v |-> IF i < Len(v) THEN v[i] + 128 ELSE v[i]]

WriteText(s) == WriteVarint(NumOf(Len(s))) \o s

\* The tags of the fields of this protocol fit one byte.
Tag(number, wire) == 8 * number + wire

FieldBytes(number, type, v) ==
    <<Tag(number, WireType(type))>> \o IF IsText(type) THEN WriteText(v)
                                                       ELSE WriteVarint(v)

\* Log2FloorNonZero of a number, the bit of a zero set.
Log2(v) == LET top == v[Len(v)]
           IN  7 * (Len(v) - 1) + IF top < 2 THEN 0 ELSE IF top < 4 THEN 1
                                  ELSE IF top < 8 THEN 2 ELSE IF top < 16 THEN 3
                                  ELSE IF top < 32 THEN 4 ELSE IF top < 64 THEN 5
                                  ELSE 6

\* Mutant of VarintSize: it rounds down to the byte.
VarintSizeFloor(v) == (Log2(v) * 9 + 64) \div 64

\* The size without a division by seven.
VarintSize(v) == (Log2(v) * 9 + 73) \div 64

FieldSize(type, v) ==
    1 + IF IsText(type) THEN VarintSize(NumOf(Len(v))) + Len(v)
                        ELSE VarintSize(v)

-----------------------------------------------------------------------------
(* Reading from byte p of s on.  Each result says whether the read         *)
(* succeeds, what it reads, and where the next one starts.                 *)
Failed == [ok |-> FALSE, val |-> <<>>, next |-> 0]

VarintEnds(s, p) == { q \in p .. p + MaxVarintBytes - 1 :
                        /\ q <= Len(s) /\ s[q] < 128
                        /\ \A i \in p .. q - 1 : s[i] >= 128 }

ReadVarint(s, p) ==
    IF VarintEnds(s, p) = {} THEN Failed
    ELSE LET q == CHOOSE q \in VarintEnds(s, p) : TRUE
         IN  [ok |-> TRUE, next |-> q + 1,
              val |-> [i \in 1 .. q - p + 1 |-> s[p + i - 1] % 128]]

\* Some bytes.
ReadRaw(s, p, n) ==
    IF p + n - 1 > Len(s) THEN Failed
    ELSE [ok |-> TRUE, val |-> SubSeq(s, p, p + n - 1), next |-> p + n]

\* Mutant of ReadText: of a text that is longer than the rest, the rest.
ReadTextLeft(s, p) ==
    LET n == ReadVarint(s, p)
        q == n.next + Low32(n.val)[1]
    IN  IF ~n.ok THEN Failed
        ELSE IF q <= Len(s) + 1 THEN ReadRaw(s, n.next, Low32(n.val)[1])
        ELSE [ok |-> TRUE, val |-> SubSeq(s, n.next, Len(s)), next |-> Len(s) + 1]

TextSize(l) == l[1] + 128 * l[2] + 16384 * l[3] + 2097152 * l[4]

\* A text: lengths of 2^28 and more are longer than any body.
ReadText(s, p) ==
    LET n == ReadVarint(s, p)
        l == Low32(n.val)
    IN  IF n.ok /\ l[5] = 0 THEN ReadRaw(s, n.next, TextSize(l)) ELSE Failed

\* Mutant of ReadPrimitive: numbers of 64 bits are read into an int.
ReadPrimitiveInt(s, p, type) ==
    IF IsText(type) THEN ReadText(s, p)
    ELSE LET n == ReadVarint(s, p)
         IN  IF n.ok THEN [n EXCEPT !.val = AsInt(@)] ELSE Failed

\* A number as a field of the type holds it; every enumeration is an int.
CastTo(type, v) == IF type = "int64" THEN As64(v)
                   ELSE IF type = "bool" THEN IF As64(v) = Zero THEN Zero ELSE One
                   ELSE AsInt(v)

\* ReadPrimitive, ReadString and ReadBytes.
ReadPrimitive(s, p, type) ==
    IF IsText(type) THEN ReadText(s, p)
    ELSE LET n == ReadVarint(s, p)
         IN  IF n.ok THEN [n EXCEPT !.val = CastTo(type, @)] ELSE Failed
=============================================================================
