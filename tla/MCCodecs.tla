------------------------------- MODULE MCCodecs -------------------------------
(* The conversions for TLC: every head made of boundary bytes, sent and    *)
(* read back; texts of up to three characters, at and around the borders   *)
(* of UTF-8, counted, taken apart and encoded; and the protocol messages.  *)
(* A behaviour is about one of the three.                                  *)
EXTENDS MessageCodec, MyCharSet, SequencesExt

VARIABLES id, len,  \* what is sent in a head
          head,     \* the head that sendFunc() makes of them
          text,     \* the characters of a text
          cou,      \* what utf8_to_unicode() returns for them
          pieces    \* what split_text() makes of them

frameVars == <<id, len, head>>
textVars == <<text, cou, pieces>>
allVars == <<frameVars, textVars, vars>>

Edges == {0, 1, 127, 128, 255}
EdgeWords == [1 .. 4 -> Edges]
LowEdges == [1 .. 2 -> Edges \cup {247, 248, 254}]
EdgeLens == {<<w[1], w[2], x[1], x[2]>> :
                w \in LowEdges, x \in [1 .. 2 -> {0, 127, 255}]}

Borders == {1, 65, 127, 128, 233, 2047, 2048, 4095, 4096, 8191, 8192, 19968,
            20013, 65535, 65536, 128512}

Zeros == <<0, 0, 0, 0>>
Signs == <<65, 128, 255, 255>>

-----------------------------------------------------------------------------
Minus1 == [i \in 1 .. 10 |-> IF i < 10 THEN 127 ELSE 1]

\* Zero, one, and the ends of each type; texts that are not UTF-8, that have a
\* zero byte, and that need a length of two bytes.
MCValues(gen, type) ==
    IF type = "int32" THEN {Zero, One, NumOf(10001), Minus1}
    ELSE IF type = "int64" THEN {Zero, NumOf(2147483647), <<0,0,0,0,0,0,0,0,0,1>>}
    ELSE IF type = "bool" THEN {Zero, One}
    ELSE IF type = "MID" THEN {NumOf(1001), NumOf(20020)}
    ELSE IF type = "LoginType" THEN {IF gen = "Data" THEN Zero ELSE One}
    ELSE IF type = "SystemErrorCode"
      THEN {One, NumOf(2), IF gen = "Data" THEN Zero ELSE NumOf(3)}
    ELSE {<<>>, <<65>>, <<65, 0>>, <<176>>, [i \in 1 .. 130 |-> 65]}

MCNotUtf8 == {<<176>>}

\* Fields of another version, of every wire type, in known and unknown numbers.
Chunks == {<<72, 5>>, <<77, 1, 2, 3, 4>>, <<75>>, <<76>>, <<84>>, <<74, 1, 65>>,
           <<136, 1, 7>>, <<16, 1>>, <<18, 1, 66>>}
MCForeign == {a \o b \o c : a \in Chunks, b \in Chunks, c \in Chunks}

-----------------------------------------------------------------------------
NoFrame == id = Zeros /\ len = Zeros
NoText == text = <<>>
NoMessage == /\ name = "HeartRequest" /\ from = "other" /\ to = "Data"
             /\ sent = <<>> /\ kept = <<>> /\ next = 1 /\ out = <<>> /\ size = 0
             /\ body = <<>> /\ pos = 1 /\ got = <<>> /\ unknown = <<>>
             /\ open = <<>> /\ at = "done"

CodecsInit ==
    /\ head = <<>> /\ cou = -1 /\ pieces = <<>>
    /\ \/ /\ \/ id \in EdgeWords /\ len \in {Zeros, Signs}
             \/ id \in {Zeros, Signs} /\ len \in EdgeLens
          /\ NoText /\ NoMessage
       \/ NoFrame /\ text \in SeqOf(Borders, 3) /\ NoMessage
       \/ NoFrame /\ NoText /\ Init

Encode == /\ head = <<>> /\ NoMessage
          /\ head' = EncodeHead(id, len)
          /\ UNCHANGED <<id, len, textVars, vars>>

In == FlattenSeq([k \in DOMAIN text |-> Utf8(text[k])])

Convert == /\ text # <<>> /\ cou = -1
           /\ cou' = utf8_to_unicode(In)
           /\ pieces' = Pieces(In)
           /\ UNCHANGED <<text, frameVars, vars>>

Message == Next /\ UNCHANGED <<frameVars, textVars>>

CodecsSpec == CodecsInit /\ [][Encode \/ Convert \/ Message]_allVars

-----------------------------------------------------------------------------
(* HeadRoundTrip of the head that was sent.                                *)
RoundTrip == head # <<>> => HeadRoundTrip(id, len)

(* BodySeen of the head that was sent.                                     *)
BodyIsSeen == head # <<>> => BodySeen(id, len)

(* The number that CursorTextField compares with its maximum is that of    *)
(* the characters of up to three bytes; the others are not counted.        *)
Counted == cou # -1 => cou = Cardinality({k \in DOMAIN text : text[k] < 65536})

(* The pieces that are inserted are the characters exactly when each is of *)
(* one byte or of three, or of two bytes at the very end; and on a machine *)
(* with an unsigned char, when each is of one byte.                        *)
SplitRight ==
    cou # -1 =>
       (   pieces = [k \in DOMAIN text |-> Utf8(text[k])]
       <=> \A k \in DOMAIN text :
              \/ text[k] < 128
              \/ CharSigned /\ ~(text[k] < 2048) /\ text[k] < 65536
              \/ CharSigned /\ text[k] < 2048 /\ k = Len(text) )

(* EncodedRight of the characters of 16 bits.                              *)
Encoded == \A k \in DOMAIN text : text[k] < 65536 => EncodedRight(text[k])
=============================================================================
