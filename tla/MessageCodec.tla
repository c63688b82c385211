---------------------------- MODULE MessageCodec ----------------------------
(***************************************************************************)
(* A protocol message on its way: the sender writes it field by field, the *)
(* bytes go through a pocket, and the reader takes them apart.  Sender and *)
(* reader may be of either generation of the generated code, "Data" or     *)
(* "Plat".  A reader sends on what it has read, its unknown fields too.    *)
(*                                                                         *)
(* Messages that another version of the schema wrote are given as bytes.   *)
(***************************************************************************)
EXTENDS WireFormat, PocketFrame, SequencesExt

CONSTANTS Values(_, _),  \* the values a generation sets in a field of each type
          NotUtf8,       \* the texts that are not UTF-8
          Foreign,       \* the bytes that another version may send
          Depth          \* the recursion limit of a reader

FieldTypes == {"int32", "int64", "bool", "MID", "LoginType", "SystemErrorCode",
               "string", "bytes"}

\* A value that a field of this type can hold; the texts are below 2^28 bytes.
TextLimit == 268435456

Fitting(type, v) == IF IsText(type) THEN v \in Seq(Byte) /\ Len(v) < TextLimit
                                    ELSE v \in Num /\ v = CastTo(type, v)

ASSUME DepthAssumption == Depth \in Nat
ASSUME ForeignAssumption == Foreign \subseteq Seq(Byte)
Data == INSTANCE DataMessages
Plat == INSTANCE PlatMessages

\* The setters of proto2 assert that an enumeration knows the number.
ASSUME ValuesAssumption ==
    \A gen \in {"Data", "Plat"}, type \in FieldTypes :
       \A v \in Values(gen, type) :
          Fitting(type, v) /\ (gen = "Plat" => Plat!IsValid(type, v))

Generations == {"Data", "Plat"}
Names == DOMAIN Data!Fields

Types(gen, name) == IF gen = "Data" THEN Data!Fields[name] ELSE Plat!Fields[name]
Unset(gen, type) == IF gen = "Data" THEN Data!Unset(type) ELSE Plat!Absent
New(gen, name) == [k \in DOMAIN Types(gen, name) |->
                      Unset(gen, Types(gen, name)[k])]

VARIABLES name,          \* the message
          from, sent,    \* generation and fields of the sender
          kept,          \* the unknown fields it sends along
          next,          \* the field that is written next
          out, size,     \* the bytes written; what ByteSize() has added up
          to,            \* the generation of the reader
          body, pos,     \* the body of the pocket and the next byte of it
          got,           \* the fields of the reader
          unknown,       \* its unknown fields
          open,          \* the tags of the groups it is in
          at             \* "sender", "reader", "ok", "fail"; "sent on", "done"
                         \* for the second way

sender == <<name, from, sent, kept, to>>
writing == <<next, out, size>>
reading == <<body, pos, got, unknown, open>>
vars == <<sender, writing, reading, at>>

Foreigner == from = "other"
N == Len(sent)
All == N + Len(kept)

-----------------------------------------------------------------------------
(* The sender: SerializeWithCachedSizes() and ByteSizeLong().              *)
\* An unknown field is [tag, val]; the ends of a group are fields of their own.
Wire(tag) == tag[1] % 8

UnknownBytes(u) ==
    WriteVarint(u.tag) \o
    IF Wire(u.tag) = VARINT THEN WriteVarint(u.val)
    ELSE IF Wire(u.tag) = LENGTH_DELIMITED THEN WriteText(u.val)
    ELSE u.val

UnknownSize(u) ==
    VarintSize(u.tag) +
    IF Wire(u.tag) = VARINT THEN VarintSize(u.val)
    ELSE IF Wire(u.tag) = LENGTH_DELIMITED
      THEN VarintSize(NumOf(Len(u.val))) + Len(u.val)
    ELSE Len(u.val)

TypeOf(k) == Types(from, name)[k]

Written(k) == sent[k] # Unset(from, TypeOf(k))

ItemBytes(i) == IF i > N THEN UnknownBytes(kept[i - N])
                ELSE IF Written(i) THEN FieldBytes(i, TypeOf(i), sent[i])
                ELSE <<>>

ItemSize(i) == IF i > N THEN UnknownSize(kept[i - N])
               ELSE IF Written(i) THEN FieldSize(TypeOf(i), sent[i])
               ELSE 0

Write == /\ at \in {"sender", "sent on"} /\ ~Foreigner /\ next <= All
         /\ out' = out \o ItemBytes(next)
         /\ size' = size + ItemSize(next)
         /\ next' = next + 1
         /\ UNCHANGED <<sender, reading, at>>

(* MakePocket() makes the body of the message, and the head is written and *)
(* read (PocketFrame); then ParseFromArray() begins.                       *)
Deliver == /\ at \in {"sender", "sent on"} /\ (Foreigner \/ next > All)
           /\ body' = MakePocket(out, WordOf(Plat!MidOf[name])).msg
           /\ pos' = 1 /\ got' = New(to, name) /\ unknown' = <<>> /\ open' = <<>>
           /\ at' = IF at = "sender" THEN "reader" ELSE "again"
           /\ UNCHANGED <<sender, writing>>

-----------------------------------------------------------------------------
(* The reader: MergePartialFromCodedStream() and SkipField().              *)
Reading == at \in {"reader", "again"}
Fail == at' = "fail" /\ UNCHANGED <<sender, writing, reading>>

TagRead == LET t == ReadVarint(body, pos) IN [t EXCEPT !.val = As32(@)]

\* The known field that a tag belongs to.
IsField(tag, k) == /\ open = <<>> /\ k \in DOMAIN got
                   /\ tag = NumOf(Tag(k, WireType(Types(to, name)[k])))

ReadBadTag == /\ Reading /\ pos <= Len(body)
              /\ LET t == TagRead
                 IN  ~t.ok \/ (Len(t.val) = 1 /\ t.val[1] < 8)
              /\ Fail

\* VerifyUtf8String() of proto3; that of proto2 only warns.
Refused(type, v) == to = "Data" /\ type = "string" /\ v \in NotUtf8

Stored(type, v) == to = "Plat" => Plat!IsValid(type, v)

ReadField ==
    /\ Reading /\ pos <= Len(body) /\ TagRead.ok
    /\ \E k \in DOMAIN got :
         LET type == Types(to, name)[k]
             r == ReadPrimitive(body, TagRead.next, type)
         IN  /\ IsField(TagRead.val, k)
             /\ IF ~r.ok \/ Refused(type, r.val) THEN Fail
                ELSE /\ pos' = r.next
                     /\ IF Stored(type, r.val)
                          THEN /\ got' = [got EXCEPT ![k] = r.val]
                               /\ UNCHANGED unknown
                          ELSE /\ unknown' = Append(unknown,
                                     [tag |-> TagRead.val, val |-> r.val])
                               /\ UNCHANGED got
                     /\ UNCHANGED <<sender, writing, body, open, at>>

\* What SkipField() reads after a tag.
SkipValue(tag, p) ==
    IF Wire(tag) = VARINT THEN ReadPrimitive(body, p, "int64")
    ELSE IF Wire(tag) = FIXED64 THEN ReadRaw(body, p, 8)
    ELSE IF Wire(tag) = LENGTH_DELIMITED THEN ReadText(body, p)
    ELSE IF Wire(tag) = FIXED32 THEN ReadRaw(body, p, 4)
    ELSE [ok |-> Wire(tag) \in {START_GROUP, END_GROUP}, val |-> <<>>, next |-> p]

\* Whether a tag may stand here, and the groups that are open after it.
GroupsAfter(tag) ==
    IF Wire(tag) = START_GROUP
      THEN IF Len(open) < Depth THEN <<TRUE, Append(open, tag)>> ELSE <<FALSE, open>>
    ELSE IF Wire(tag) = END_GROUP
      THEN IF open # <<>> /\ tag = [open[Len(open)] EXCEPT ![1] = @ + 1]
             THEN <<TRUE, SubSeq(open, 1, Len(open) - 1)>>
             ELSE <<FALSE, open>>
    ELSE <<TRUE, open>>

ReadUnknown ==
    /\ Reading /\ pos <= Len(body) /\ TagRead.ok
    /\ LET tag == TagRead.val
           r == SkipValue(tag, TagRead.next)
           g == GroupsAfter(tag)
       IN  /\ Len(tag) > 1 \/ tag[1] >= 8
           /\ \A k \in DOMAIN got : ~IsField(tag, k)
           /\ IF r.ok /\ g[1]
                THEN /\ pos' = r.next
                     /\ open' = g[2]
                     /\ unknown' = Append(unknown, [tag |-> tag, val |-> r.val])
                     /\ UNCHANGED <<sender, writing, body, got, at>>
                ELSE Fail

Initialized == to = "Plat" => Plat!IsInitialized(name, got)

EndOfBody == /\ Reading /\ pos > Len(body)
             /\ at' = IF open = <<>> /\ Initialized
                        THEN IF at = "reader" THEN "ok" ELSE "done"
                        ELSE "fail"
             /\ UNCHANGED <<sender, writing, reading>>

\* The reader sends on what it has read.
SendOn == /\ at = "ok"
          /\ from' = to /\ sent' = got /\ kept' = unknown
          /\ next' = 1 /\ out' = <<>> /\ size' = 0 /\ at' = "sent on"
          /\ UNCHANGED <<name, to, reading>>

-----------------------------------------------------------------------------
Next == Write \/ Deliver \/ ReadBadTag \/ ReadField \/ ReadUnknown \/ EndOfBody
        \/ SendOn

\* Messages with at most two fields that differ from those of a new one.
Settings(gen, m) ==
    LET n == Len(Types(gen, m))
    IN  UNION { { [New(gen, m) EXCEPT ![k] = v, ![l] = w] :
                     v \in Values(gen, Types(gen, m)[k]),
                     w \in Values(gen, Types(gen, m)[l]) } :
                k \in 1 .. n, l \in 1 .. n }

Init == /\ name \in Names /\ to \in Generations
        /\ \/ /\ from \in Generations
              /\ sent \in Settings(from, name)
              /\ out = <<>>
           \/ /\ from = "other" /\ sent = <<>>
              /\ out \in Foreign
        /\ kept = <<>> /\ next = 1 /\ size = 0
        /\ body = <<>> /\ pos = 1 /\ got = <<>> /\ unknown = <<>> /\ open = <<>>
        /\ at = "sender"

Spec == Init /\ [][Next]_vars

-----------------------------------------------------------------------------
Sent == at \notin {"sender", "sent on"} /\ ~Foreigner
Read == at \in {"ok", "done"}

(* ByteSize() adds up exactly the bytes that are written: the caller has   *)
(* made room for that many.                                                *)
SizeExact == size = Len(out) \/ Foreigner

HasZero(s) == \E i \in DOMAIN s : s[i] = 0

ZeroText(s) == s = <<>> \/ HasZero(s)

\* An item that puts a zero byte on the wire.
ZeroItem(i) ==
    IF i > N
      THEN LET u == kept[i - N]
           IN  IF Wire(u.tag) = VARINT THEN u.val = Zero
               ELSE IF Wire(u.tag) = LENGTH_DELIMITED THEN ZeroText(u.val)
               ELSE HasZero(u.val)
      ELSE Written(i) /\ IF IsText(TypeOf(i)) THEN ZeroText(sent[i])
                                             ELSE sent[i] = Zero

(* A body goes through a pocket whole exactly when no number that is       *)
(* written is zero, and no text empty or with a zero in it: of proto3,     *)
(* every message whose texts have no zero in them.                         *)
ArrivesWhole == Sent => (body = out <=> \A i \in 1 .. All : ~ZeroItem(i))

(* A body that the pocket cut off is never read as another message: it is  *)
(* refused, since it ends in the middle of a field.                        *)
CutIsRefused == Sent /\ Read => body = out

\* What the reader must find in its field k, and among the unknown fields.
Arrives(k) == Written(k) /\ Stored(Types(to, name)[k], sent[k])
StrayOf(k) ==
    IF Written(k) /\ ~Arrives(k)
      THEN << [tag |-> NumOf(Tag(k, WireType(TypeOf(k)))), val |-> sent[k]] >>
      ELSE <<>>
Strays == FlattenSeq([k \in 1 .. N |-> StrayOf(k)])

(* A message that arrives whole is read, whichever generations sent and    *)
(* read it, unless a text is refused or the rid of a LoginSubGameRequest   *)
(* is missing (which a sender of proto3 leaves out when it is zero).  Then *)
(* each field holds what was written for it, or the number of an unknown   *)
(* enumerator is among the unknown fields, before those that were sent     *)
(* along; nothing else is there.                                           *)
Understood ==
    Sent /\ body = out /\ (Read \/ at = "fail") =>
       /\ Read <=> /\ \A k \in 1 .. N : Written(k) =>
                         ~Refused(Types(to, name)[k], sent[k])
                   /\ to = "Plat" /\ name = "LoginSubGameRequest" => Written(2)
       /\ Read => /\ got = [k \in 1 .. N |->
                               IF Arrives(k) THEN sent[k]
                               ELSE Unset(to, Types(to, name)[k])]
                  /\ unknown = Strays \o kept

\* The value that the accessor of a field with the value v returns.
Seen(gen, k, v) == IF v = Plat!Absent
                     THEN Plat!Default(name, Plat!Fields[name][k]) ELSE v

\* The name of the number v in the SystemErrorCode of a generation.
CodeName(gen, v) ==
    LET codes == IF gen = "Data" THEN <<Zero, One, NumOf(2)>>
                                 ELSE <<One, NumOf(2), NumOf(3)>>
        names == <<"HallNotFind", "GameNotFind", "ConectReset">>
    IN  IF \E i \in 1 .. 3 : codes[i] = v
          THEN names[CHOOSE i \in 1 .. 3 : codes[i] = v] ELSE "none"

(* Between the generations an error code keeps its name exactly when it is *)
(* not sent at all; every other one becomes its predecessor's or its       *)
(* successor's, or none.                                                   *)
CodesShift ==
    Sent /\ Read /\ name = "SystemErrorResponse" =>
       (   CodeName(from, Seen(from, 2, sent[2])) = CodeName(to, Seen(to, 2, got[2]))
       <=> from = to \/ ~Written(2) )
=============================================================================
