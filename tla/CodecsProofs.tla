---------------------------- MODULE CodecsProofs ----------------------------
(***************************************************************************)
(* Proofs about the conversions: about PocketFrame for every head, about   *)
(* MyCharSet for every text, about MessageCodec for every value that a     *)
(* field can hold, of any length, and every bytes that another version of  *)
(* the schema sends; and that what is proved of heads and texts holds of   *)
(* those that occur in the behaviours of MCCodecs.                         *)
(***************************************************************************)
EXTENDS MCCodecs, SequenceLemmas, FiniteSetTheorems

(* What recvFunc() makes of the four bytes of a word w.                    *)
Decoded(w) == << w[1], w[2],
                 IF Extends(w[2]) THEN 255 ELSE w[3],
                 IF Extends(w[2]) \/ Extends(w[3]) THEN 255 ELSE w[4] >>

(* The id and the length come out of the places of the head they went to.  *)
LEMMA DecodeEncoded ==
    ASSUME NEW v \in Word, NEW w \in Word
    PROVE  /\ ReadId(EncodeHead(v, w)) = Decoded(v)
           /\ ReadLen(EncodeHead(v, w)) = Decoded(w)
BY DEF ReadId, ReadLen, ReadWord, EncodeHead, Decoded

(* A word survives the decoder if and only if it is SignStable.            *)
LEMMA DecodedSame ==
    ASSUME NEW w \in Word
    PROVE  Decoded(w) = w <=> SignStable(w)
<1>1. Decoded(w) = w <=> /\ Decoded(w)[3] = w[3]
                         /\ Decoded(w)[4] = w[4]
  <2>1. w = << w[1], w[2], w[3], w[4] >>
    BY DEF Word
  <2>2. QED  BY <2>1 DEF Decoded
<1>2. /\ w[1] \in Byte /\ w[2] \in Byte /\ w[3] \in Byte /\ w[4] \in Byte
  BY DEF Word
<1>3. QED
  BY <1>1, <1>2, CharSignedAssumption DEF Decoded, SignStable, Extends, Byte

(* A head comes out of recvFunc() as it went into sendFunc() exactly for   *)
(* the ids and lengths that sign extension does not change, for every head *)
(* and both kinds of char: where char is unsigned, always.                 *)
THEOREM HeadsRoundTrip == \A v, w \in Word : HeadRoundTrip(v, w)
BY DecodeEncoded, DecodedSame DEF HeadRoundTrip

(* recvFunc() overlooks the body of a message, and takes it for the next   *)
(* head, exactly when the length and 8 wrap to at most 6 in 16 bits; the   *)
(* missing masks of the two bytes change nothing about that.               *)
THEOREM BodiesSeen == \A v, w \in Word : BodySeen(v, w)
<1> SUFFICES ASSUME NEW v \in Word, NEW w \in Word PROVE BodySeen(v, w)
  BY SMT
<1> DEFINE a == w[1]
           b == w[2]
           x == a + 256 * b + 8      \* the short length, before it wraps
           s == x % 65536
           lo == s % 256             \* its two bytes
           hi == s \div 256
           h == EncodeHead(v, w)
<1>1. a \in 0 .. 255 /\ b \in 0 .. 255
  BY SMT DEF Word, Byte
<1>2. h[1] = lo /\ h[2] = hi
  BY SMT DEF EncodeHead, ShortLen
<1>3. HasBody(h) <=> (IF CharSigned /\ h[1] >= 128 THEN 65280 + h[1]
                      ELSE h[1] + 256 * h[2]) > 6
  BY SMT DEF HasBody, ReadShort, Extends
<1>4. BodySeen(v, w) <=> (~HasBody(h) <=> b = 255 /\ a \in 248 .. 254)
  BY SMT DEF BodySeen
<1> HIDE DEF a, b, h
<1>5. x \in Nat /\ x >= 8 /\ x < 131072
  BY <1>1, SMT
<1>6. x >= 65536 /\ x <= 65542 <=> b = 255 /\ a \in 248 .. 254
  BY <1>1, SMT
<1> HIDE DEF x
<1>7. s = IF x < 65536 THEN x ELSE x - 65536
  BY <1>5, SMT
<1> HIDE DEF s
<1>8. s \in Nat /\ s <= 65535 /\ (s <= 6 <=> x >= 65536 /\ x <= 65542)
  <2>1. CASE x < 65536
    <3>1. s = x
      BY <1>7, <2>1, SMT
    <3>2. QED  BY <1>5, <2>1, <3>1, SMT
  <2>2. CASE ~(x < 65536)
    <3>1. s = x - 65536
      BY <1>7, <2>2, SMT
    <3>2. QED  BY <1>5, <2>2, <3>1, SMT
  <2>3. QED  BY <2>1, <2>2, SMT
<1>9. lo \in 0 .. 255 /\ hi \in 0 .. 255 /\ s = lo + 256 * hi
  <2>1. /\ lo \in Nat /\ lo <= 255 /\ hi \in Nat /\ hi <= 255
        /\ s = lo + 256 * hi
    BY <1>8, SMT
  <2> HIDE DEF lo, hi
  <2>2. QED  BY <2>1, SMT
<1> HIDE DEF lo, hi
<1>10. HasBody(h) <=> s > 6
  BY <1>2, <1>3, <1>9, SMT
<1>11. QED  BY <1>4, <1>6, <1>8, <1>10, SMT

-----------------------------------------------------------------------------
(* The seven bits that the wrong mask keeps are the right six exactly when *)
(* the seventh, bit 12 of the character, is clear.                         *)
LEMMA SevenBits ==
    ASSUME NEW x \in Nat
    PROVE  x % 128 = x % 64 <=> (x \div 64) % 2 = 0
<1> DEFINE q == x \div 64
           r == x % 64
           h == q \div 2
           b == q % 2
<1>1. x = 64 * q + r /\ q \in Nat /\ r \in Nat /\ r < 64
  BY SMT
<1>2. q = 2 * h + b /\ h \in Nat /\ b \in {0, 1}
  BY <1>1, SMT
<1> HIDE DEF q, r, h, b
<1>3. x = 128 * h + (64 * b + r) /\ 64 * b + r \in Nat /\ 64 * b + r < 128
  BY <1>1, <1>2, SMT
<1>4. x % 128 = 64 * b + r
  BY <1>2, <1>3, SMT
<1>5. r = x % 64 /\ b = (x \div 64) % 2
  BY DEF q, r, b
<1>6. QED  BY <1>1, <1>2, <1>4, <1>5, SMT

LEMMA BitTwelve ==
    ASSUME NEW u \in Nat
    PROVE  u \div 64 \in Nat /\ (u \div 64) \div 64 = u \div 4096
BY SMT

(* unicode_to_utf8() encodes a character of 16 bits correctly exactly when *)
(* it has fewer than three bytes or its bit 12 is clear: of the characters *)
(* from U+5000 to U+5FFF, say, it encodes none.                            *)
THEOREM EncodedExactly ==
    ASSUME NEW u \in Nat, u < 65536
    PROVE  EncodedRight(u)
<1> DEFINE a == 224 + u \div 4096
           x == u \div 64
           m == x % 128
           n == x % 64
           z == Trail(u)
           two == << 192 + x, z >>
           bit == (u \div 4096) % 2 = 0
<1>1. x \in Nat /\ x \div 64 = u \div 4096
  BY BitTwelve, SMT
<1>2. m = n <=> (x \div 64) % 2 = 0
  BY <1>1, SevenBits, SMT
<1>3. bit <=> m = n
  BY <1>1, <1>2, SMT
<1>4. m \in Int /\ n \in Int
  BY <1>1, SMT
<1>5. Trail(x) = 128 + n
  BY SMT DEF Trail
<1>6. unicode_to_utf8(u) = IF u <= 127 THEN << u >> ELSE
                           IF u <= 2047 THEN two ELSE << a, 128 + m, z >>
  BY SMT DEF unicode_to_utf8
<1>7. u < 128 => Utf8(u) = << u >>
  BY SMT DEF Utf8
<1>8. ~(u < 128) /\ u < 2048 => Utf8(u) = two
  BY SMT DEF Utf8
<1>9. ~(u < 2048) => Utf8(u) = << a, Trail(x), z >>
  BY SMT DEF Utf8
<1>10. EncodedRight(u) <=> (unicode_to_utf8(u) = Utf8(u) <=> u < 2048 \/ bit)
  BY SMT DEF EncodedRight
<1> HIDE DEF a, z, x, two, bit, m, n
<1>11. CASE u < 128
  BY <1>6, <1>7, <1>10, <1>11, SMT
<1>12. CASE ~(u < 128) /\ u < 2048
  BY <1>6, <1>8, <1>10, <1>12, SMT
<1>13. CASE ~(u < 2048)
  <2>1. unicode_to_utf8(u) = << a, 128 + m, z >>
    BY <1>6, <1>13, SMT
  <2>2. Utf8(u) = << a, 128 + n, z >>
    BY <1>5, <1>9, <1>13, SMT
  <2>3. unicode_to_utf8(u) = Utf8(u) <=> m = n
    BY <1>4, <2>1, <2>2, SMT
  <2>4. QED  BY <1>3, <1>10, <1>13, <2>3, SMT
<1>14. QED  BY <1>11, <1>12, <1>13, SMT

-----------------------------------------------------------------------------
\* The characters, and what UTF-8 makes of them: the length, and the ranges of
\* the first byte and of the others.
Point == {u \in Nat : u \div 65536 <= 16}

Width(u) == IF u < 128 THEN 1 ELSE IF u < 2048 THEN 2 ELSE IF u < 65536 THEN 3 ELSE 4
Heads(u) == IF u < 128 THEN 0 .. 127 ELSE IF u < 2048 THEN 192 .. 223
            ELSE IF u < 65536 THEN 224 .. 239 ELSE 240 .. 247

Shaped(t, u) ==
    /\ t \in Seq(Byte) /\ Len(t) = Width(u)
    /\ t[1] \in Heads(u)
    /\ \A j \in 2 .. Width(u) : t[j] \in 128 .. 191

LEMMA Trails == ASSUME NEW x \in Nat PROVE Trail(x) \in 128 .. 191
BY DEF Trail

LEMMA Utf8Shape ==
    ASSUME NEW u \in Point
    PROVE  Shaped(Utf8(u), u)
<1>1. u \in Nat /\ u \div 65536 <= 16
  BY SMT DEF Point
<1>2. u \div 64 \in Nat /\ u \div 4096 \in Nat /\ u \div 262144 \in Nat
  BY <1>1, SMT
<1> DEFINE x == Trail(u)
           y == Trail(u \div 64)
           z == Trail(u \div 4096)
<1>3. x \in 128 .. 191 /\ y \in 128 .. 191 /\ z \in 128 .. 191
  BY <1>1, <1>2, Trails, SMT
<1> HIDE DEF x, y, z
<1>4. CASE u < 128
  <2>1. Utf8(u) = <<u>>
    BY <1>4, SMT DEF Utf8
  <2>2. u \in 0 .. 127 /\ \A j \in 2 .. 1 : FALSE
    BY <1>1, <1>4
  <2>3. <<u>> \in Seq(Byte) /\ Len(<<u>>) = 1 /\ <<u>>[1] = u
    BY <2>2 DEF Byte
  <2>4. Width(u) = 1 /\ Heads(u) = 0 .. 127
    BY <1>4 DEF Width, Heads
  <2>5. QED  BY <2>1, <2>2, <2>3, <2>4 DEF Shaped
<1>5. CASE ~(u < 128) /\ u < 2048
  <2> DEFINE a == 192 + u \div 64
             t == <<a, x>>
  <2>1. Utf8(u) = t
    BY <1>5, SMT DEF Utf8, x
  <2>2. a \in 192 .. 223
    BY <1>1, <1>5, SMT
  <2> HIDE DEF a
  <2>3. t \in Seq(Byte) /\ Len(t) = 2 /\ t[1] = a /\ t[2] = x
    BY <1>3, <2>2 DEF Byte
  <2>4. Width(u) = 2 /\ Heads(u) = 192 .. 223
    BY <1>5 DEF Width, Heads
  <2>5. \A j \in 2 .. 2 : j = 2
    OBVIOUS
  <2>6. QED  BY <1>3, <2>1, <2>2, <2>3, <2>4, <2>5 DEF Shaped
<1>6. CASE ~(u < 2048) /\ u < 65536
  <2> DEFINE a == 224 + u \div 4096
             t == <<a, y, x>>
  <2>1. ~(u < 128) /\ ~(u < 2048) /\ u < 65536
    BY <1>1, <1>6
  <2>2. Utf8(u) = t
    BY <2>1, SMT DEF Utf8, x, y
  <2>3. a \in 224 .. 239
    BY <1>1, <1>6, SMT
  <2> HIDE DEF a
  <2>4. t \in Seq(Byte) /\ Len(t) = 3 /\ t[1] = a /\ t[2] = y /\ t[3] = x
    BY <1>3, <2>3 DEF Byte
  <2>5. Width(u) = 3 /\ Heads(u) = 224 .. 239
    BY <2>1 DEF Width, Heads
  <2>6. \A j \in 2 .. 3 : j = 2 \/ j = 3
    OBVIOUS
  <2>7. QED  BY <1>3, <2>2, <2>3, <2>4, <2>5, <2>6 DEF Shaped
<1>7. CASE ~(u < 65536)
  <2> DEFINE a == 240 + u \div 262144
             t == <<a, z, y, x>>
  <2>1. ~(u < 128) /\ ~(u < 2048) /\ ~(u < 65536)
    BY <1>1, <1>7
  <2>2. Utf8(u) = t
    BY <2>1, SMT DEF Utf8, x, y, z
  <2>3. a \in 240 .. 247
    BY <1>1, <1>7, SMT
  <2> HIDE DEF a
  <2>4. /\ t \in Seq(Byte) /\ Len(t) = 4
        /\ t[1] = a /\ t[2] = z /\ t[3] = y /\ t[4] = x
    BY <1>3, <2>3 DEF Byte
  <2>5. Width(u) = 4 /\ Heads(u) = 240 .. 247
    BY <2>1 DEF Width, Heads
  <2>6. \A j \in 2 .. 4 : j = 2 \/ j = 3 \/ j = 4
    OBVIOUS
  <2>7. QED  BY <1>3, <2>2, <2>3, <2>4, <2>5, <2>6 DEF Shaped
<1>8. QED  BY <1>1, <1>4, <1>5, <1>6, <1>7

-----------------------------------------------------------------------------
(* The recursion that utf8_to_unicode() stands for, as a function over the *)
(* places of the text; b is the byte at the place p.                       *)
CountOf(b, h, p) ==
    CASE b \in 0 .. 127   -> 1 + h[p + 1]
      [] b \in 192 .. 223 -> 1 + h[p + 2]
      [] b \in 224 .. 239 -> 1 + h[p + 3]
      [] OTHER            -> h[p + 1]

Counts(h, s) ==
    h = [p \in 1 .. Len(s) + 3 |->
           IF p > Len(s) THEN 0
           ELSE CountOf(s[p], h, p)]

\* What one step of it adds, and how far it goes on.
Adds(b) == IF b \in 0 .. 127 \/ b \in 192 .. 223 \/ b \in 224 .. 239 THEN 1 ELSE 0
Goes(b) == IF b \in 192 .. 223 THEN 2 ELSE IF b \in 224 .. 239 THEN 3 ELSE 1

LEMMA CountStep ==
    ASSUME NEW b \in Byte, NEW h, NEW p
    PROVE  CountOf(b, h, p)
           = IF Adds(b) = 1 THEN 1 + h[p + Goes(b)] ELSE h[p + Goes(b)]
<1>1. CASE b \in 0 .. 127
  <2>1. b \notin 192 .. 223 /\ b \notin 224 .. 239
    BY <1>1
  <2>2. QED  BY <1>1, <2>1 DEF Adds, Goes, CountOf
<1>2. CASE b \in 192 .. 223
  <2>1. b \notin 0 .. 127 /\ b \notin 224 .. 239
    BY <1>2
  <2>2. QED  BY <1>2, <2>1 DEF Adds, Goes, CountOf
<1>3. CASE b \in 224 .. 239
  <2>1. b \notin 0 .. 127 /\ b \notin 192 .. 223
    BY <1>3
  <2>2. QED  BY <1>3, <2>1 DEF Adds, Goes, CountOf
<1>4. CASE b \notin 0 .. 127 /\ b \notin 192 .. 223 /\ b \notin 224 .. 239
  BY <1>4 DEF Adds, Goes, CountOf
<1>5. QED  BY <1>1, <1>2, <1>3, <1>4

\* g counts from each place of s.
CountFrom(g, s) ==
    \A p \in 1 .. Len(s) + 3 :
       g[p] = IF p > Len(s) THEN 0
              ELSE IF Adds(s[p]) = 1 THEN 1 + g[p + Goes(s[p])]
              ELSE g[p + Goes(s[p])]

LEMMA CountsAt ==
    ASSUME NEW s \in Seq(Byte), NEW h, Counts(h, s)
    PROVE  CountFrom(h, s)
<1> SUFFICES ASSUME NEW p \in 1 .. Len(s) + 3
             PROVE  h[p] = IF p > Len(s) THEN 0
                           ELSE IF Adds(s[p]) = 1 THEN 1 + h[p + Goes(s[p])]
                           ELSE h[p + Goes(s[p])]
  BY DEF CountFrom
<1> DEFINE Val(q) == CountOf(s[q], h, q)
           g == [q \in 1 .. Len(s) + 3 |-> IF q > Len(s) THEN 0 ELSE Val(q)]
<1>1. h = g
  BY DEF Counts
<1>2. g[p] = IF p > Len(s) THEN 0 ELSE Val(p)
  <2> HIDE DEF Val
  <2>1. QED  OBVIOUS
<1>3. ~(p > Len(s)) => s[p] \in Byte
  <2> SUFFICES ASSUME ~(p > Len(s)) PROVE s[p] \in Byte
    OBVIOUS
  <2>1. p \in 1 .. Len(s)
    BY LenProperties
  <2>2. QED  BY <2>1, ElementOfSeq
<1> DEFINE b == s[p]
<1>4. b \in Byte => CountOf(b, h, p) = IF Adds(b) = 1 THEN 1 + h[p + Goes(b)] ELSE h[p + Goes(b)]
  <2> HIDE DEF b
  <2>1. QED  BY CountStep
<1> HIDE DEF g
<1>5. h[p] = g[p]
  BY <1>1
<1>6. QED  BY <1>2, <1>3, <1>4, <1>5

LEMMA CountsExist ==
    ASSUME NEW s \in Seq(Byte)
    PROVE  \E h : Counts(h, s)
<1> DEFINE L == Len(s)
           M == L + 3
           nx == [p \in 1 .. L |-> p + Goes(s[p])]
           st == [p \in 1 .. L |-> [v \in Nat |-> IF Adds(s[p]) = 1 THEN 1 + v ELSE v]]
<1>1. L \in Nat /\ M \in Nat /\ L <= M /\ 0 \in Nat /\ 1 .. L \subseteq 1 .. M
  <2>1. L \in Nat
    BY LenProperties
  <2> HIDE DEF L
  <2>2. QED  BY <2>1
<1>2. \A p \in 1 .. L : s[p] \in Byte /\ Goes(s[p]) \in 1 .. 3
  <2>1. \A p \in 1 .. L : s[p] \in Byte
    BY ElementOfSeq
  <2>2. \A b : Goes(b) \in 1 .. 3
    BY DEF Goes
  <2>3. QED  BY <2>1, <2>2
<1> HIDE DEF L
<1>3. nx \in [1 .. L -> 1 .. M] /\ \A p \in 1 .. L : p < nx[p]
  <2>1. ASSUME NEW p \in 1 .. L
        PROVE  p + Goes(s[p]) \in 1 .. M /\ p < p + Goes(s[p])
    <3> DEFINE d == Goes(s[p])
    <3>1. d \in 1 .. 3
      BY <1>2
    <3> HIDE DEF d
    <3>2. p + d \in 1 .. M /\ p < p + d
      BY <1>1, <3>1
    <3>3. QED  BY <3>2 DEF d
  <2>2. QED  BY <2>1
<1>4. st \in [1 .. L -> [Nat -> Nat]]
  OBVIOUS
<1> HIDE DEF nx, st, M
<1>5. PICK h \in [1 .. M -> Nat] : \A p \in 1 .. M : h[p] = Jump(h, p, L, 0, st, nx)
  <2> DEFINE V == Nat
             z == 0
  <2>1. IsJump(V, L, M, z, st, nx)
    BY <1>1, <1>3, <1>4 DEF IsJump
  <2> HIDE DEF V, z
  <2>2. PICK h : Jumps(h, V, L, M, z, st, nx)
    BY <2>1, JumpsExist
  <2>3. QED  BY <2>2 DEF V, z, Jumps
<1> DEFINE Val(p) == CountOf(s[p], h, p)
<1>6. ASSUME NEW p \in 1 .. M PROVE h[p] = IF p > L THEN 0 ELSE Val(p)
  <2>1. CASE p > L
    BY <1>5, <2>1 DEF Jump
  <2>2. CASE ~(p > L)
    <3>1. p \in 1 .. L /\ s[p] \in Byte
      BY <1>1, <1>2, <2>2
    <3> DEFINE b == s[p]
               q == p + Goes(b)
    <3>2. CountOf(b, h, p) = IF Adds(b) = 1 THEN 1 + h[q] ELSE h[q]
      <4>1. b \in Byte
        BY <3>1
      <4> HIDE DEF b
      <4>2. QED  BY <4>1, CountStep
    <3>3. nx[p] = q /\ st[p] = [v \in Nat |-> IF Adds(b) = 1 THEN 1 + v ELSE v]
      BY <3>1 DEF nx, st
    <3>4. h[p] = st[p][h[nx[p]]]
      BY <1>5, <2>2 DEF Jump
    <3>5. nx[p] \in 1 .. M
      BY <1>3, <3>1
    <3>6. Val(p) = CountOf(b, h, p)
      OBVIOUS
    <3> HIDE DEF Val, b, q
    <3>7. h[q] \in Nat
      BY <1>5, <3>3, <3>5
    <3>8. QED  BY <2>2, <3>2, <3>3, <3>4, <3>7, <3>6
  <2>3. QED  BY <2>1, <2>2
<1>7. h = [p \in 1 .. M |-> IF p > L THEN 0 ELSE Val(p)]
  <2> HIDE DEF Val
  <2>1. QED  BY <1>5, <1>6
<1>8. Counts(h, s)
  BY <1>7 DEF Counts, L, M
<1>9. QED  BY <1>8

LEMMA CountIsFirst ==
    ASSUME NEW s \in Seq(Byte)
    PROVE  \E g : CountFrom(g, s) /\ utf8_to_unicode(s) = g[1]
<1> DEFINE F == CHOOSE h : Counts(h, s)
<1>1. Counts(F, s)
  BY CountsExist
<1>2. utf8_to_unicode(s) = F[1]
  BY DEF utf8_to_unicode, Counts, CountOf
<1> HIDE DEF F
<1>3. QED  BY <1>1, <1>2, CountsAt

-----------------------------------------------------------------------------
\* The characters of t, each in UTF-8.
InUtf8(t) == [k \in DOMAIN t |-> Utf8(t[k])]

LEMMA InUtf8Seq ==
    ASSUME NEW t \in Seq(Point)
    PROVE  /\ Len(t) \in Nat /\ DOMAIN t = 1 .. Len(t)
           /\ InUtf8(t) \in Seq(Seq(Byte)) /\ Len(InUtf8(t)) = Len(t)
           /\ \A k \in 1 .. Len(t) : /\ t[k] \in Point /\ InUtf8(t)[k] = Utf8(t[k])
                                     /\ Shaped(InUtf8(t)[k], t[k])
<1> DEFINE n == Len(t)
<1>1. n \in Nat /\ DOMAIN t = 1 .. n
  BY LenProperties
<1>2. \A k \in 1 .. n : t[k] \in Point
  BY ElementOfSeq
<1> HIDE DEF n
<1>3. \A k \in 1 .. n : InUtf8(t)[k] = Utf8(t[k]) /\ Shaped(InUtf8(t)[k], t[k])
  BY <1>1, <1>2, Utf8Shape DEF InUtf8
<1>4. \A k \in 1 .. n : InUtf8(t)[k] \in Seq(Byte)
  BY <1>3 DEF Shaped
<1> DEFINE f == InUtf8(t)
<1>5. f \in [1 .. n -> Seq(Byte)]
  <2>1. \A k \in 1 .. n : Utf8(t[k]) \in Seq(Byte)
    BY <1>3, <1>4
  <2>2. QED  BY <1>1, <2>1 DEF InUtf8
<1> HIDE DEF f
<1>6. f \in Seq(Seq(Byte)) /\ Len(f) = n
  BY <1>1, <1>5
<1>7. QED  BY <1>1, <1>2, <1>3, <1>6 DEF n, f

(* Over the bytes of one character the count grows by one, if they are not *)
(* four.                                                                   *)
Stands(b, s, c) ==
    /\ c \in Nat /\ c >= 1 /\ c + Len(b) <= Len(s) + 1
    /\ \A j \in 1 .. Len(b) : s[c + j - 1] = b[j]

OneStep(x) ==
    /\ x \in 0 .. 127   => Adds(x) = 1 /\ Goes(x) = 1
    /\ x \in 192 .. 223 => Adds(x) = 1 /\ Goes(x) = 2
    /\ x \in 224 .. 239 => Adds(x) = 1 /\ Goes(x) = 3
    /\ x \in 240 .. 247 \/ x \in 128 .. 191 => Adds(x) = 0 /\ Goes(x) = 1

CountsOver(g, c, q, u) == g[c] = IF u < 65536 THEN 1 + g[q] ELSE g[q]

LEMMA CountOver ==
    ASSUME NEW g, NEW s \in Seq(Byte), CountFrom(g, s), NEW u \in Point, NEW b,
           Shaped(b, u), NEW c, Stands(b, s, c), NEW q, q = c + Len(b), g[q] \in Nat
    PROVE  CountsOver(g, c, q, u)
<1> DEFINE L == Len(s)
<1>1. /\ Len(b) = Width(u) /\ q = c + Width(u)
      /\ c \in Nat /\ c >= 1 /\ c + Width(u) <= Len(s) + 1
      /\ \A j \in 1 .. Width(u) : s[c + j - 1] = b[j]
  BY DEF Stands, Shaped
<1> SUFFICES g[c] = IF u < 65536 THEN 1 + g[c + Width(u)] ELSE g[c + Width(u)]
  BY <1>1 DEF CountsOver
<1>2. L \in Nat /\ u \in Nat
  BY LenProperties, SMT DEF Point
<1>3. c + Width(u) <= L + 1
  BY <1>1
<1>4. ASSUME NEW p \in Nat, p >= 1, p <= L
      PROVE  g[p] = IF Adds(s[p]) = 1 THEN 1 + g[p + Goes(s[p])] ELSE g[p + Goes(s[p])]
  <2>1. p \in 1 .. L + 3 /\ ~(p > L)
    BY <1>2, <1>4
  <2>2. QED  BY <2>1 DEF CountFrom
<1> HIDE DEF L
<1>5. s[c] = b[1]
  <2>1. 1 \in 1 .. Width(u)
    BY DEF Width
  <2>2. c + 1 - 1 = c
    BY <1>1
  <2>3. QED  BY <1>1, <2>1, <2>2
<1>6. \A x : OneStep(x)
  <2> SUFFICES ASSUME NEW x PROVE OneStep(x)
    OBVIOUS
  <2>1. x \in 0 .. 127 => x \notin 192 .. 223 /\ x \notin 224 .. 239
    OBVIOUS
  <2>2. x \in 192 .. 223 => x \notin 224 .. 239
    OBVIOUS
  <2>3. x \in 240 .. 247 \/ x \in 128 .. 191 =>
           x \notin 0 .. 127 /\ x \notin 192 .. 223 /\ x \notin 224 .. 239
    <3>1. CASE x \in 240 .. 247
      BY <3>1
    <3>2. CASE x \in 128 .. 191
      BY <3>2
    <3>3. QED  BY <3>1, <3>2
  <2> DEFINE A == x \in 0 .. 127
             B == x \in 192 .. 223
             C == x \in 224 .. 239
             D == x \in 240 .. 247 \/ x \in 128 .. 191
  <2>4. /\ Adds(x) = IF A \/ B \/ C THEN 1 ELSE 0
        /\ Goes(x) = IF B THEN 2 ELSE IF C THEN 3 ELSE 1
    BY DEF Adds, Goes
  <2>5. OneStep(x) <=> /\ A => Adds(x) = 1 /\ Goes(x) = 1
                       /\ B => Adds(x) = 1 /\ Goes(x) = 2
                       /\ C => Adds(x) = 1 /\ Goes(x) = 3
                       /\ D => Adds(x) = 0 /\ Goes(x) = 1
    BY DEF OneStep
  <2>6. (A => ~B /\ ~C) /\ (B => ~C) /\ (D => ~A /\ ~B /\ ~C)
    BY <2>1, <2>2, <2>3
  <2> HIDE DEF A, B, C, D
  <2>7. QED  BY <2>4, <2>5, <2>6
<1>7. CASE u < 128
  <2>1. Width(u) = 1 /\ Heads(u) = 0 .. 127 /\ u < 65536
    BY <1>2, <1>7 DEF Width, Heads
  <2>2. s[c] \in 0 .. 127
    BY <1>5, <2>1 DEF Shaped
  <2>3. Adds(s[c]) = 1 /\ Goes(s[c]) = 1
    <3>1. OneStep(s[c])
      BY <1>6
    <3>2. QED  BY <2>2, <3>1 DEF OneStep
  <2>4. c <= L
    BY <1>1, <1>2, <1>3, <2>1
  <2>5. QED  BY <1>1, <1>4, <2>1, <2>3, <2>4
<1>8. CASE ~(u < 128) /\ u < 2048
  <2>1. Width(u) = 2 /\ Heads(u) = 192 .. 223 /\ u < 65536
    BY <1>2, <1>8 DEF Width, Heads
  <2>2. s[c] \in 192 .. 223
    BY <1>5, <2>1 DEF Shaped
  <2>3. Adds(s[c]) = 1 /\ Goes(s[c]) = 2
    <3>1. OneStep(s[c])
      BY <1>6
    <3>2. QED  BY <2>2, <3>1 DEF OneStep
  <2>4. c <= L
    BY <1>1, <1>2, <1>3, <2>1
  <2>5. QED  BY <1>1, <1>4, <2>1, <2>3, <2>4
<1>9. CASE ~(u < 2048) /\ u < 65536
  <2>1. Width(u) = 3 /\ Heads(u) = 224 .. 239
    BY <1>2, <1>9 DEF Width, Heads
  <2>2. s[c] \in 224 .. 239
    BY <1>5, <2>1 DEF Shaped
  <2>3. Adds(s[c]) = 1 /\ Goes(s[c]) = 3
    <3>1. OneStep(s[c])
      BY <1>6
    <3>2. QED  BY <2>2, <3>1 DEF OneStep
  <2>4. c <= L
    BY <1>1, <1>2, <1>3, <2>1
  <2>5. QED  BY <1>1, <1>4, <1>9, <2>1, <2>3, <2>4
<1>10. CASE ~(u < 65536)
  <2>1. Width(u) = 4 /\ Heads(u) = 240 .. 247
    BY <1>2, <1>10 DEF Width, Heads
  <2>2. s[c] \in 240 .. 247
    BY <1>5, <2>1 DEF Shaped
  <2>3. \A j \in 2 .. 4 : s[c + j - 1] \in 128 .. 191
    <3>1. ASSUME NEW j \in 2 .. 4 PROVE s[c + j - 1] \in 128 .. 191
      <4>1. j \in 1 .. Width(u) /\ j \in 2 .. Width(u)
        BY <2>1
      <4>2. s[c + j - 1] = b[j] /\ b[j] \in 128 .. 191
        BY <1>1, <4>1 DEF Shaped
      <4>3. QED  BY <4>2
    <3>2. QED  BY <3>1
  <2>4. s[c + 1] \in 128 .. 191 /\ s[c + 2] \in 128 .. 191 /\ s[c + 3] \in 128 .. 191
    <3>1. /\ 2 \in 2 .. 4 /\ 3 \in 2 .. 4 /\ 4 \in 2 .. 4
          /\ c + 2 - 1 = c + 1 /\ c + 3 - 1 = c + 2 /\ c + 4 - 1 = c + 3
      BY <1>1
    <3>2. s[c + 2 - 1] \in 128 .. 191 /\ s[c + 3 - 1] \in 128 .. 191 /\ s[c + 4 - 1] \in 128 .. 191
      BY <2>3, <3>1
    <3>3. QED  BY <3>1, <3>2
  <2> DEFINE c1 == c + 1
             c2 == c + 2
             c3 == c + 3
             c4 == c + 4
  <2>5. /\ c1 \in Nat /\ c2 \in Nat /\ c3 \in Nat /\ c1 >= 1 /\ c2 >= 1 /\ c3 >= 1
        /\ c <= L /\ c1 <= L /\ c2 <= L /\ c3 <= L
        /\ c + 1 = c1 /\ c1 + 1 = c2 /\ c2 + 1 = c3 /\ c3 + 1 = c4
    <3>1. \A x, y \in Nat : x >= 1 /\ x + 4 <= y + 1 =>
             /\ x + 1 \in Nat /\ x + 2 \in Nat /\ x + 3 \in Nat
             /\ x + 1 >= 1 /\ x + 2 >= 1 /\ x + 3 >= 1
             /\ x <= y /\ x + 1 <= y /\ x + 2 <= y /\ x + 3 <= y
             /\ x + 1 + 1 = x + 2 /\ x + 2 + 1 = x + 3 /\ x + 3 + 1 = x + 4
      OBVIOUS
    <3>2. c \in Nat /\ c >= 1 /\ L \in Nat /\ c + 4 <= L + 1
      BY <1>1, <1>2, <1>3, <2>1
    <3>3. QED  BY <3>1, <3>2
  <2>6. /\ Adds(s[c]) = 0 /\ Goes(s[c]) = 1 /\ Adds(s[c1]) = 0 /\ Goes(s[c1]) = 1
        /\ Adds(s[c2]) = 0 /\ Goes(s[c2]) = 1 /\ Adds(s[c3]) = 0 /\ Goes(s[c3]) = 1
    <3> DEFINE x == s[c]
               x1 == s[c1]
               x2 == s[c2]
               x3 == s[c3]
    <3>1. /\ x \in 240 .. 247 /\ x1 \in 128 .. 191 /\ x2 \in 128 .. 191
          /\ x3 \in 128 .. 191
      BY <2>2, <2>4
    <3>2. OneStep(x) /\ OneStep(x1) /\ OneStep(x2) /\ OneStep(x3)
      BY <1>6
    <3> HIDE DEF x, x1, x2, x3
    <3>3. /\ Adds(x) = 0 /\ Goes(x) = 1 /\ Adds(x1) = 0 /\ Goes(x1) = 1
          /\ Adds(x2) = 0 /\ Goes(x2) = 1 /\ Adds(x3) = 0 /\ Goes(x3) = 1
      BY <3>1, <3>2 DEF OneStep
    <3>4. QED  BY <3>3 DEF x, x1, x2, x3
  <2> HIDE DEF c1, c2, c3, c4
  <2>7. g[c] = g[c1] /\ g[c1] = g[c2] /\ g[c2] = g[c3] /\ g[c3] = g[c4]
    <3>1. ASSUME NEW p \in Nat, p >= 1, p <= L, Adds(s[p]) = 0, Goes(s[p]) = 1
          PROVE  g[p] = g[p + 1]
      BY <1>4, <3>1
    <3>2. c \in Nat /\ c >= 1
      BY <1>1
    <3>3. g[c] = g[c + 1] /\ g[c1] = g[c1 + 1] /\ g[c2] = g[c2 + 1] /\ g[c3] = g[c3 + 1]
      BY <2>5, <2>6, <3>1, <3>2
    <3>4. QED  BY <2>5, <3>3
  <2>8. QED  BY <1>10, <2>1, <2>7 DEF c4
<1>11. QED  BY <1>2, <1>7, <1>8, <1>9, <1>10

(* utf8_to_unicode() counts the characters of up to three bytes.           *)
THEOREM CountRight ==
    ASSUME NEW t \in Seq(Point)
    PROVE  utf8_to_unicode(FlattenSeq(InUtf8(t)))
              = Cardinality({k \in DOMAIN t : t[k] < 65536})
<1> DEFINE n == Len(t)
           w == InUtf8(t)
           s == FlattenSeq(w)
           Short(i) == {k \in i .. n : t[k] < 65536}
           Bytes == Seq(Byte)
<1>1. /\ n \in Nat /\ DOMAIN t = 1 .. n /\ w \in Seq(Seq(Byte)) /\ Len(w) = n
      /\ \A k \in 1 .. n : t[k] \in Point /\ Shaped(w[k], t[k])
  BY InUtf8Seq
<1> HIDE DEF n, w
<1>2. PICK c : Places(c, w) /\ s \in Seq(Byte)
  BY <1>1, PlacesExist
<1> HIDE DEF s
<1>3. PICK g : CountFrom(g, s) /\ utf8_to_unicode(s) = g[1]
  BY <1>2, CountIsFirst
<1>4. /\ Len(s) \in Nat
      /\ c \in [1 .. n + 1 -> Nat] /\ c[1] = 1 /\ c[n + 1] = Len(s) + 1
      /\ \A i \in 1 .. n : /\ c[i] >= 1 /\ c[i + 1] = c[i] + Len(w[i])
                           /\ c[i + 1] <= Len(s) + 1
                           /\ \A j \in 1 .. Len(w[i]) : s[c[i] + j - 1] = w[i][j]
  BY <1>1, <1>2, LenProperties DEF Places, s
<1> DEFINE T == {i \in 1 .. n + 1 : /\ IsFiniteSet(Short(i)) /\ g[c[i]] \in Nat
                                    /\ g[c[i]] = Cardinality(Short(i))}
<1>5. n + 1 \in T
  <2>1. Short(n + 1) = {} /\ n + 1 \in 1 .. n + 1
    BY <1>1
  <2>2. g[Len(s) + 1] = 0
    <3>1. Len(s) + 1 \in 1 .. Len(s) + 3 /\ Len(s) + 1 > Len(s)
      BY <1>4
    <3>2. QED  BY <1>3, <3>1 DEF CountFrom
  <2>3. g[c[n + 1]] = 0
    BY <1>4, <2>2
  <2> DEFINE m == n + 1
  <2> HIDE DEF Short
  <2>4. IsFiniteSet(Short(m)) /\ Cardinality(Short(m)) = 0
    BY <2>1, FS_EmptySet
  <2>5. g[c[m]] \in Nat /\ g[c[m]] = 0 /\ m \in 1 .. n + 1
    BY <2>1, <2>3
  <2> HIDE DEF m
  <2>6. m \in T
    BY <2>4, <2>5
  <2>7. QED  BY <2>6 DEF m
<1>6. ASSUME NEW i \in 1 .. n, i + 1 \in T PROVE i \in T
  <2> DEFINE u == t[i]
             p == c[i]
             q == c[i + 1]
             A == Short(i + 1)
  <2>1. /\ IsFiniteSet(A) /\ g[q] \in Nat /\ g[q] = Cardinality(A)
    BY <1>6
  <2>2. /\ p \in Nat /\ p >= 1 /\ q = p + Len(w[i]) /\ q <= Len(s) + 1
        /\ \A j \in 1 .. Len(w[i]) : s[p + j - 1] = w[i][j]
    <3>1. i \in 1 .. n + 1
      BY <1>1
    <3>2. QED  BY <1>4, <3>1
  <2>3. u \in Point /\ Shaped(w[i], u) /\ Len(w[i]) = Width(u)
    BY <1>1 DEF Shaped
  <2> HIDE DEF u, p, q
  <2>4. CountsOver(g, p, q, u)
    <3>1. Stands(w[i], s, p)
      BY <2>2 DEF Stands
    <3> DEFINE b == w[i]
    <3>2. Shaped(b, u) /\ Stands(b, s, p) /\ q = p + Len(b)
      BY <2>2, <2>3, <3>1
    <3> HIDE DEF b
    <3>3. QED  BY <1>2, <1>3, <2>1, <2>3, <3>2, CountOver
  <2>5. Short(i) = IF u < 65536 THEN A \cup {i} ELSE A
    <3>1. \A k : k \in i .. n <=> k = i \/ k \in i + 1 .. n
      BY <1>1
    <3>2. \A k : k \in A <=> k \in i + 1 .. n /\ t[k] < 65536
      OBVIOUS
    <3>3. \A k : k \in Short(i) <=> k \in i .. n /\ t[k] < 65536
      OBVIOUS
    <3>4. u = t[i]
      BY DEF u
    <3> HIDE DEF Short
    <3>5. \A k : k \in Short(i) <=> k \in A \/ (k = i /\ u < 65536)
      <4> HIDE DEF A
      <4>1. QED  BY <3>1, <3>2, <3>3, <3>4
    <3> HIDE DEF A
    <3> DEFINE D == u < 65536
    <3>6. \A k : k \in Short(i) <=> k \in A \/ (k = i /\ D)
      BY <3>5
    <3> HIDE DEF D
    <3>7. Short(i) = IF D THEN A \cup {i} ELSE A
      <4>1. CASE D
        BY <3>6, <4>1
      <4>2. CASE ~D
        BY <3>6, <4>2
      <4>3. QED  BY <4>1, <4>2
    <3>8. QED  BY <3>7 DEF D
  <2>6. i \notin A
    OBVIOUS
  <2> HIDE DEF A
  <2>7. /\ IsFiniteSet(A \cup {i}) /\ Cardinality(A \cup {i}) = Cardinality(A) + 1
    BY <2>1, <2>6, FS_AddElement
  <2>8. g[p] = IF u < 65536 THEN 1 + g[q] ELSE g[q]
    BY <2>4 DEF CountsOver
  <2>9. /\ IsFiniteSet(Short(i)) /\ g[p] \in Nat /\ g[p] = Cardinality(Short(i))
    <3> HIDE DEF Short
    <3>1. CASE u < 65536
      <4>1. g[p] = 1 + g[q]
        BY <2>8, <3>1
      <4>2. Short(i) = A \cup {i}
        BY <2>5, <3>1
      <4>3. QED  BY <2>1, <2>7, <4>1, <4>2
    <3>2. CASE ~(u < 65536)
      BY <2>1, <2>5, <2>8, <3>2
    <3>3. QED  BY <3>1, <3>2
  <2>10. i \in 1 .. n + 1
    BY <1>1
  <2> HIDE DEF Short
  <2>11. QED  BY <2>9, <2>10 DEF p
<1>7. 1 \in T
  <2> HIDE DEF T
  <2>1. \A i \in 1 .. n + 1 : i \in T
    BY <1>1, <1>5, <1>6, InductionDown
  <2>2. 1 \in 1 .. n + 1
    BY <1>1
  <2>3. QED  BY <2>1, <2>2
<1>8. g[1] = Cardinality(Short(1))
  <2>1. g[c[1]] = Cardinality(Short(1))
    BY <1>7
  <2>2. QED  BY <1>4, <2>1
<1>9. QED  BY <1>1, <1>3, <1>8 DEF s, w

-----------------------------------------------------------------------------
(* The recursion that Pieces() stands for, as a function over the places.  *)
Splits(h, s) ==
    h = [j \in 1 .. Len(s) + 1 |->
           IF j > Len(s) THEN <<>>
           ELSE LET ss == split_text(s, j) IN <<ss>> \o h[j + Len(ss)]]

SplitFrom(g, s) ==
    \A j \in 1 .. Len(s) + 1 :
       /\ g[j] \in Seq(Seq(Byte))
       /\ g[j] = IF j > Len(s) THEN <<>>
                 ELSE <<split_text(s, j)>> \o g[j + Len(split_text(s, j))]

(* A piece is of one byte, or of three or what is left.                    *)
IsPiece(s, j, L) ==
    /\ split_text(s, j) \in Seq(Byte)
    /\ Len(split_text(s, j)) = IF ~(CharSigned /\ s[j] >= 128) THEN 1
                               ELSE IF j + 2 <= L THEN 3 ELSE L - j + 1
    /\ \A i \in 1 .. Len(split_text(s, j)) : split_text(s, j)[i] = s[j + i - 1]

LEMMA PieceShape ==
    ASSUME NEW s \in Seq(Byte), NEW j \in 1 .. Len(s), NEW L, L = Len(s)
    PROVE  /\ IsPiece(s, j, L)
           /\ Len(split_text(s, j)) \in 1 .. 3 /\ j + Len(split_text(s, j)) \in 1 .. L + 1
<1>1. L \in Nat /\ L = Len(s) /\ j \in 1 .. L /\ \A i \in 1 .. L : s[i] \in Byte
  BY LenProperties, ElementOfSeq
<1> DEFINE m == IF ~(CharSigned /\ s[j] >= 128) THEN j
                ELSE IF j + 2 <= L THEN j + 2 ELSE L
           t == SubSeq(s, j, m)
<1>2. m \in j .. L /\ m <= j + 2
      /\ m - j + 1 = IF ~(CharSigned /\ s[j] >= 128) THEN 1
                     ELSE IF j + 2 <= L THEN 3 ELSE L - j + 1
  BY <1>1
<1>3. split_text(s, j) = t
  BY <1>1 DEF split_text
<1> HIDE DEF m
<1>4. t \in Seq(Byte) /\ Len(t) = m - j + 1
      /\ \A i \in 1 .. m - j + 1 : t[i] = s[j + i - 1]
  <2>1. \A i \in j .. m : s[i] \in Byte
    BY <1>1, <1>2
  <2>2. m \in Int /\ j \in Int /\ j <= m
    BY <1>1, <1>2
  <2>3. QED  BY <2>1, <2>2, SubSeqProperties
<1> HIDE DEF t
<1>5. m - j + 1 \in 1 .. 3 /\ j + (m - j + 1) \in 1 .. L + 1
  BY <1>1, <1>2
<1>6. IsPiece(s, j, L)
  BY <1>2, <1>3, <1>4 DEF IsPiece
<1>7. QED  BY <1>3, <1>4, <1>5, <1>6

LEMMA SplitsExist ==
    ASSUME NEW s \in Seq(Byte)
    PROVE  \E h : Splits(h, s)
<1> DEFINE L == Len(s)
           M == L + 1
           V == Seq(Seq(Byte))
           z == <<>>
           ss(p) == split_text(s, p)
           nx == [p \in 1 .. L |-> p + Len(ss(p))]
           st == [p \in 1 .. L |-> [v \in V |-> <<ss(p)>> \o v]]
<1>1. L \in Nat /\ M \in Nat /\ L <= M /\ z \in V
  <2>1. L \in Nat
    BY LenProperties
  <2>2. <<>> \in Seq(Seq(Byte))
    OBVIOUS
  <2> HIDE DEF L
  <2>3. QED  BY <2>1, <2>2
<1>2. ASSUME NEW p \in 1 .. L
      PROVE  ss(p) \in Seq(Byte) /\ p + Len(ss(p)) \in 1 .. M /\ p < p + Len(ss(p))
  <2>1. /\ IsPiece(s, p, L) /\ Len(ss(p)) \in 1 .. 3 /\ p + Len(ss(p)) \in 1 .. L + 1
    BY PieceShape
  <2> DEFINE d == Len(ss(p))
  <2>2. d \in 1 .. 3 /\ p + d \in 1 .. M
    BY <2>1
  <2> HIDE DEF d
  <2>3. p < p + d
    BY <1>1, <2>2
  <2>4. ss(p) \in Seq(Byte)
    BY <2>1 DEF IsPiece
  <2>5. QED  BY <2>2, <2>3, <2>4 DEF d
<1> HIDE DEF L, M, ss, z
<1>3. nx \in [1 .. L -> 1 .. M] /\ \A p \in 1 .. L : p < nx[p]
  BY <1>2
<1>4. st \in [1 .. L -> [V -> V]]
  <2>1. ASSUME NEW p \in 1 .. L, NEW v \in V PROVE <<ss(p)>> \o v \in V
    <3> DEFINE B == Seq(Byte)
               e == ss(p)
    <3>1. e \in B /\ v \in Seq(B)
      BY <1>2
    <3> HIDE DEF B, e
    <3>2. <<e>> \in Seq(B)
      BY <3>1
    <3>3. <<e>> \o v \in Seq(B)
      BY <3>1, <3>2, ConcatProperties
    <3>4. QED  BY <3>3 DEF B, e
  <2> HIDE DEF V
  <2>2. QED  BY <2>1
<1> HIDE DEF nx, st, V
<1>5. IsJump(V, L, M, z, st, nx)
  BY <1>1, <1>3, <1>4 DEF IsJump
<1>6. PICK h : Jumps(h, V, L, M, z, st, nx)
  BY <1>5, JumpsExist
<1> DEFINE Val(p) == <<ss(p)>> \o h[p + Len(ss(p))]
<1>7. ASSUME NEW p \in 1 .. M PROVE h[p] = IF p > L THEN <<>> ELSE Val(p)
  <2>1. CASE p > L
    BY <1>6, <2>1 DEF Jumps, Jump, z
  <2>2. CASE ~(p > L)
    <3>1. p \in 1 .. L
      BY <1>1, <2>2
    <3> DEFINE q == p + Len(ss(p))
    <3>2. nx[p] = q /\ st[p] = [v \in V |-> <<ss(p)>> \o v]
      BY <3>1 DEF nx, st
    <3>3. h[p] = st[p][h[nx[p]]]
      BY <1>6, <2>2 DEF Jumps, Jump
    <3>4. nx[p] \in 1 .. M
      BY <1>3, <3>1
    <3> HIDE DEF q
    <3>5. h[q] \in V
      BY <1>6, <3>2, <3>4 DEF Jumps
    <3>6. h[p] = <<ss(p)>> \o h[q]
      BY <3>2, <3>3, <3>5
    <3>7. QED  BY <2>2, <3>6 DEF q
  <2>3. QED  BY <2>1, <2>2
<1>8. h = [p \in 1 .. M |-> IF p > L THEN <<>> ELSE Val(p)]
  <2> HIDE DEF Val
  <2>1. QED  BY <1>6, <1>7 DEF Jumps
<1>9. Splits(h, s)
  BY <1>8 DEF Splits, L, M, ss
<1>10. QED  BY <1>9

LEMMA SplitsAt ==
    ASSUME NEW s, NEW h, Splits(h, s), NEW j \in 1 .. Len(s) + 1
    PROVE  h[j] = IF j > Len(s) THEN <<>>
                  ELSE <<split_text(s, j)>> \o h[j + Len(split_text(s, j))]
<1> DEFINE Val(i) == <<split_text(s, i)>> \o h[i + Len(split_text(s, i))]
           g == [i \in 1 .. Len(s) + 1 |-> IF i > Len(s) THEN <<>> ELSE Val(i)]
<1>1. h = g
  BY DEF Splits
<1>2. g[j] = IF j > Len(s) THEN <<>> ELSE Val(j)
  <2> HIDE DEF Val
  <2>1. QED  OBVIOUS
<1> HIDE DEF g
<1>3. QED  BY <1>1, <1>2

LEMMA SplitsTyped ==
    ASSUME NEW s \in Seq(Byte), NEW h, Splits(h, s)
    PROVE  \A j \in 1 .. Len(s) + 1 : h[j] \in Seq(Seq(Byte))
<1> DEFINE L == Len(s)
           V == Seq(Seq(Byte))
           T == {i \in 1 .. L + 1 : \A j \in i .. L + 1 : h[j] \in V}
<1>1. L \in Nat
  BY LenProperties
<1>2. ASSUME NEW j \in 1 .. L + 1
      PROVE  h[j] = IF j > L THEN <<>> ELSE <<split_text(s, j)>> \o h[j + Len(split_text(s, j))]
  BY SplitsAt
<1>3. ASSUME NEW j \in 1 .. L
      PROVE  /\ split_text(s, j) \in Seq(Byte)
             /\ j + Len(split_text(s, j)) \in j + 1 .. L + 1
  <2>1. /\ IsPiece(s, j, L) /\ Len(split_text(s, j)) \in 1 .. 3
        /\ j + Len(split_text(s, j)) \in 1 .. L + 1
    BY PieceShape
  <2> DEFINE d == Len(split_text(s, j))
  <2>2. d \in 1 .. 3 /\ j + d \in 1 .. L + 1
    BY <2>1
  <2> HIDE DEF d
  <2>3. j + d \in j + 1 .. L + 1
    BY <1>1, <2>2
  <2>4. QED  BY <2>1, <2>3 DEF IsPiece, d
<1> HIDE DEF L
<1>4. L + 1 \in T
  <2>1. L + 1 \in 1 .. L + 1 /\ L + 1 > L /\ \A j \in L + 1 .. L + 1 : j = L + 1
    BY <1>1
  <2>2. h[L + 1] = <<>> /\ <<>> \in V
    <3>1. <<>> \in V
      OBVIOUS
    <3> HIDE DEF V
    <3>2. QED  BY <1>2, <2>1, <3>1
  <2> DEFINE m == L + 1
  <2>3. m \in 1 .. m /\ h[m] \in V /\ \A j \in m .. m : j = m
    BY <2>1, <2>2
  <2> HIDE DEF m, V
  <2>4. \A j \in m .. m : h[j] \in V
    BY <2>3
  <2>5. QED  BY <2>3, <2>4 DEF m
<1>5. ASSUME NEW i \in 1 .. L, i + 1 \in T PROVE i \in T
  <2> DEFINE q == i + Len(split_text(s, i))
             e == split_text(s, i)
             B == Seq(Byte)
  <2>1. e \in B /\ q \in i + 1 .. L + 1
    BY <1>3
  <2>2. \A j \in i + 1 .. L + 1 : h[j] \in V
    BY <1>5
  <2>3. h[i] = <<e>> \o h[q]
    <3>1. i \in 1 .. L + 1 /\ ~(i > L)
      BY <1>1
    <3>2. QED  BY <1>2, <3>1
  <2>4. h[q] \in Seq(B)
    BY <2>1, <2>2
  <2> HIDE DEF q, e, B
  <2>5. h[i] \in Seq(B)
    <3>1. <<e>> \in Seq(B)
      BY <2>1
    <3>2. QED  BY <2>3, <2>4, <3>1, ConcatProperties
  <2>6. h[i] \in V
    BY <2>5 DEF B
  <2> HIDE DEF V
  <2>7. \A j \in i .. L + 1 : j = i \/ j \in i + 1 .. L + 1
    BY <1>1
  <2>8. i \in 1 .. L + 1 /\ \A j \in i .. L + 1 : h[j] \in V
    BY <1>1, <2>2, <2>6, <2>7
  <2>9. QED  BY <2>8
<1>6. 1 \in T
  <2> HIDE DEF T
  <2>1. \A i \in 1 .. L + 1 : i \in T
    BY <1>1, <1>4, <1>5, InductionDown
  <2>2. 1 \in 1 .. L + 1
    BY <1>1
  <2>3. QED  BY <2>1, <2>2
<1>7. \A j \in 1 .. L + 1 : h[j] \in V
  BY <1>6
<1>8. QED  BY <1>7 DEF L

LEMMA SplitIsFirst ==
    ASSUME NEW s \in Seq(Byte)
    PROVE  \E g : SplitFrom(g, s) /\ Pieces(s) = g[1]
<1> DEFINE F == CHOOSE h : Splits(h, s)
<1>1. Splits(F, s)
  BY SplitsExist
<1>2. Pieces(s) = F[1]
  BY DEF Pieces, Splits
<1> HIDE DEF F
<1>3. SplitFrom(F, s)
  BY <1>1, SplitsTyped, SplitsAt DEF SplitFrom
<1>4. QED  BY <1>2, <1>3

-----------------------------------------------------------------------------
(* Where the piece is the character: the character k of n, which is u.     *)
Right(u, k, n) ==
    \/ u < 128
    \/ CharSigned /\ ~(u < 2048) /\ u < 65536
    \/ CharSigned /\ u < 2048 /\ k = n

(* The place c of b in s, and how much of s there is behind it: nothing    *)
(* exactly when b is the last.                                             *)
LastEnds(b, c, k, n, L) == k = n <=> c + Len(b) = L + 1

LEMMA PieceIsCharacter ==
    ASSUME NEW s \in Seq(Byte), NEW u \in Point, NEW b, Shaped(b, u),
           NEW c, Stands(b, s, c), NEW k, NEW n, NEW L, L = Len(s),
           LastEnds(b, c, k, n, L)
    PROVE  split_text(s, c) = b <=> Right(u, k, n)
<1> DEFINE d == Width(u)
           r == split_text(s, c)
<1>1. /\ L \in Nat /\ c \in Nat /\ c >= 1 /\ c + d <= L + 1 /\ Len(b) = d
      /\ b \in Seq(Byte) /\ \A j \in 1 .. d : s[c + j - 1] = b[j]
      /\ b[1] \in Heads(u) /\ (k = n <=> c + d = L + 1)
  BY LenProperties DEF Stands, Shaped, LastEnds
<1>2. d \in 1 .. 4 /\ u \in Nat
  BY SMT DEF Width, Point
<1>3. s[c] = b[1]
  <2> HIDE DEF d
  <2>1. 1 \in 1 .. d /\ c + 1 - 1 = c
    BY <1>1, <1>2
  <2>2. QED  BY <1>1, <2>1
<1>4. IsPiece(s, c, L)
  <2> HIDE DEF d
  <2>1. c \in 1 .. L
    BY <1>1, <1>2
  <2>2. QED  BY <2>1, PieceShape
<1>5. /\ r \in Seq(Byte) /\ Len(r) = IF ~(CharSigned /\ s[c] >= 128) THEN 1
                                       ELSE IF c + 2 <= L THEN 3 ELSE L - c + 1
      /\ \A i \in 1 .. Len(r) : r[i] = s[c + i - 1]
  BY <1>4 DEF IsPiece
<1> HIDE DEF d, r
<1>6. r = b <=> Len(r) = d
  <2>1. r = b => Len(r) = d
    BY <1>1
  <2>2. ASSUME Len(r) = d PROVE r = b
    <3>1. \A i \in 1 .. Len(r) : r[i] = b[i]
      BY <1>1, <1>5, <2>2
    <3>2. Len(r) = Len(b)
      BY <1>1, <2>2
    <3>3. QED  BY <1>1, <1>5, <3>1, <3>2, SeqEqual
  <2>3. QED  BY <2>1, <2>2
<1> DEFINE A == u < 128
           B == ~(u < 128) /\ u < 2048
           C == ~(u < 2048) /\ u < 65536
           D == ~(u < 65536)
           high == s[c] >= 128
<1>7. (A \/ B \/ C \/ D) /\ ~(A /\ B) /\ ~(A /\ C) /\ ~(B /\ C)
      /\ ~(A /\ D) /\ ~(B /\ D) /\ ~(C /\ D)
  BY <1>2, SMT
<1>8. Right(u, k, n) <=> A \/ (CharSigned /\ C) \/ (CharSigned /\ B /\ k = n)
  BY DEF Right
<1>9. CASE A
  <2>1. d = 1 /\ Heads(u) = 0 .. 127
    BY <1>9 DEF Width, Heads, d
  <2>2. ~high
    <3>1. s[c] \in 0 .. 127
      BY <1>1, <1>3, <2>1
    <3> DEFINE x == s[c]
    <3>2. x \in 0 .. 127
      BY <3>1
    <3> HIDE DEF x
    <3>3. ~(x >= 128)
      BY <3>2
    <3>4. QED  BY <3>3 DEF x
  <2>3. Len(r) = d
    BY <1>5, <2>1, <2>2
  <2> HIDE DEF A, B, C, D
  <2>4. QED  BY <1>6, <1>8, <1>9, <2>3 DEF r
<1>10. ASSUME ~A PROVE high
  <2> DEFINE x == s[c]
  <2>1. x \in Heads(u)
    BY <1>1, <1>3
  <2>2. \/ Heads(u) = 192 .. 223
        \/ Heads(u) = 224 .. 239
        \/ Heads(u) = 240 .. 247
    <3> DEFINE B2 == 192 .. 223
               B3 == 224 .. 239
               B4 == 240 .. 247
    <3>1. Heads(u) = IF A THEN 0 .. 127 ELSE IF u < 2048 THEN B2
                     ELSE IF u < 65536 THEN B3 ELSE B4
      BY DEF Heads
    <3> HIDE DEF A, B2, B3, B4
    <3>2. Heads(u) = B2 \/ Heads(u) = B3 \/ Heads(u) = B4
      BY <1>10, <3>1
    <3>3. QED  BY <3>2 DEF B2, B3, B4
  <2> HIDE DEF x
  <2>3. x >= 128
    <3>1. CASE Heads(u) = 192 .. 223
      <4>1. x \in 192 .. 223
        BY <2>1, <3>1
      <4>2. QED  BY <4>1
    <3>2. CASE Heads(u) = 224 .. 239
      <4>1. x \in 224 .. 239
        BY <2>1, <3>2
      <4>2. QED  BY <4>1
    <3>3. CASE Heads(u) = 240 .. 247
      <4>1. x \in 240 .. 247
        BY <2>1, <3>3
      <4>2. QED  BY <4>1
    <3>4. QED  BY <2>2, <3>1, <3>2, <3>3
  <2>4. QED  BY <2>3 DEF x
<1>11. CASE B
  <2>1. d = 2
    BY <1>2, <1>11 DEF Width, d
  <2>2. Len(r) = IF ~CharSigned THEN 1 ELSE IF c + 2 <= L THEN 3 ELSE L - c + 1
    <3> HIDE DEF A, B, C, D, high
    <3>1. high
      BY <1>7, <1>10, <1>11
    <3>2. QED  BY <1>5, <3>1 DEF high
  <2>3. Len(r) = d <=> CharSigned /\ k = n
    BY <1>1, <2>1, <2>2
  <2> HIDE DEF A, B, C, D
  <2>4. QED  BY <1>6, <1>7, <1>8, <1>11, <2>3 DEF r
<1>12. CASE C
  <2>1. d = 3
    <3>1. ~(u < 128) /\ ~(u < 2048) /\ u < 65536
      BY <1>2, <1>12, SMT
    <3>2. QED  BY <3>1 DEF Width, d
  <2>2. Len(r) = IF ~CharSigned THEN 1 ELSE IF c + 2 <= L THEN 3 ELSE L - c + 1
    <3> HIDE DEF A, B, C, D, high
    <3>1. high
      BY <1>7, <1>10, <1>12
    <3>2. QED  BY <1>5, <3>1 DEF high
  <2>3. Len(r) = d <=> CharSigned
    <3> HIDE DEF A, B, C, D, high
    <3>1. QED  BY <1>1, <2>1, <2>2
  <2> HIDE DEF A, B, C, D
  <2>4. QED  BY <1>6, <1>7, <1>8, <1>12, <2>3 DEF r
<1>13. CASE D
  <2>1. d = 4
    <3>1. ~(u < 128) /\ ~(u < 2048) /\ ~(u < 65536)
      BY <1>2, <1>13, SMT
    <3>2. QED  BY <3>1 DEF Width, d
  <2>2. Len(r) = IF ~CharSigned THEN 1 ELSE IF c + 2 <= L THEN 3 ELSE L - c + 1
    <3> HIDE DEF A, B, C, D, high
    <3>1. high
      BY <1>7, <1>10, <1>13
    <3>2. QED  BY <1>5, <3>1 DEF high
  <2>3. Len(r) # d
    <3> HIDE DEF A, B, C, D, high
    <3>1. QED  BY <1>1, <2>1, <2>2
  <2> HIDE DEF A, B, C, D
  <2>4. QED  BY <1>6, <1>7, <1>8, <1>13, <2>3 DEF r
<1>14. QED
  <2> HIDE DEF A, B, C, D
  <2>1. QED  BY <1>7, <1>9, <1>11, <1>12, <1>13

(* The places of the characters, as the lemmas on one character want them. *)
Placed(c, w, s, n, L) ==
    /\ c[1] = 1 /\ c[n + 1] = L + 1
    /\ \A i \in 1 .. n : /\ Stands(w[i], s, c[i])
                         /\ c[i + 1] = c[i] + Len(w[i])
                         /\ LastEnds(w[i], c[i], i, n, L)

LEMMA CharacterPlaces ==
    ASSUME NEW t \in Seq(Point), NEW w, w = InUtf8(t), NEW s, s = FlattenSeq(w),
           NEW n, n = Len(t), NEW L, L = Len(s)
    PROVE  /\ s \in Seq(Byte)
           /\ \E c : Placed(c, w, s, n, L)
<1>1. /\ n \in Nat /\ w \in Seq(Seq(Byte)) /\ Len(w) = n
      /\ \A k \in 1 .. n : t[k] \in Point /\ Shaped(w[k], t[k])
  BY InUtf8Seq
<1>2. PICK c : Places(c, w) /\ s \in Seq(Byte)
  BY <1>1, PlacesExist
<1>3. /\ L \in Nat
      /\ c \in [1 .. n + 1 -> Nat] /\ c[1] = 1 /\ c[n + 1] = L + 1
      /\ \A i \in 1 .. n : /\ c[i] >= 1 /\ c[i + 1] = c[i] + Len(w[i])
                           /\ c[i + 1] <= L + 1
                           /\ \A j \in 1 .. Len(w[i]) : s[c[i] + j - 1] = w[i][j]
  BY <1>1, <1>2, LenProperties DEF Places
<1>4. \A i \in 1 .. n : Len(w[i]) \in Nat /\ Len(w[i]) >= 1
  <2>1. \A u : Width(u) \in Nat /\ Width(u) >= 1
    BY DEF Width
  <2>2. QED  BY <1>1, <2>1 DEF Shaped
<1>5. ASSUME NEW i \in 1 .. n
      PROVE  /\ Stands(w[i], s, c[i]) /\ c[i + 1] = c[i] + Len(w[i])
             /\ LastEnds(w[i], c[i], i, n, L)
  <2>1. i \in 1 .. n + 1 /\ c[i] \in Nat
    <3>1. i \in 1 .. n + 1
      BY <1>1
    <3>2. c \in [1 .. n + 1 -> Nat]
      BY <1>3
    <3>3. QED  BY <3>1, <3>2
  <2>2. Stands(w[i], s, c[i])
    BY <1>3, <2>1 DEF Stands
  <2>3. i = n => c[i + 1] = L + 1
    BY <1>3
  <2>4. ASSUME i # n PROVE c[i + 1] # L + 1
    <3> DEFINE k == i + 1
    <3>1. k \in 1 .. n /\ k \in 1 .. n + 1
      BY <1>1, <2>4
    <3> HIDE DEF k
    <3>2. c[k] \in Nat /\ c[k + 1] = c[k] + Len(w[k]) /\ c[k + 1] <= L + 1
          /\ Len(w[k]) \in Nat /\ Len(w[k]) >= 1
      BY <1>3, <1>4, <3>1
    <3>3. c[k] # L + 1
      BY <1>3, <3>2
    <3>4. QED  BY <3>3 DEF k
  <2>5. c[i + 1] = c[i] + Len(w[i])
    BY <1>3
  <2>6. QED  BY <2>2, <2>3, <2>4, <2>5 DEF LastEnds
<1>6. QED  BY <1>2, <1>3, <1>5 DEF Placed

(* split_text() takes the text apart into its characters exactly when each *)
(* is where the piece is the character.                                    *)
THEOREM SplitsExactly ==
    ASSUME NEW t \in Seq(Point)
    PROVE  Pieces(FlattenSeq(InUtf8(t))) = InUtf8(t)
              <=> \A k \in DOMAIN t : Right(t[k], k, Len(t))
<1> DEFINE n == Len(t)
           w == InUtf8(t)
           s == FlattenSeq(w)
           L == Len(s)
           B == Seq(Byte)
           after(i) == SubSeq(w, i, n)
<1>1. /\ n \in Nat /\ DOMAIN t = 1 .. n /\ w \in Seq(B) /\ Len(w) = n
      /\ \A k \in 1 .. n : t[k] \in Point /\ Shaped(w[k], t[k])
  BY InUtf8Seq
<1>2. PICK c : Placed(c, w, s, n, L)
  BY CharacterPlaces
<1>3. s \in Seq(Byte) /\ L \in Nat
  BY CharacterPlaces, LenProperties
<1> HIDE DEF n, w, s, L
<1>4. PICK g : SplitFrom(g, s) /\ Pieces(s) = g[1]
  BY <1>3, SplitIsFirst
<1>5. \A i \in 1 .. n : w[i] \in B /\ Len(w[i]) \in Nat
  BY <1>1, ElementOfSeq, LenProperties
\* The pieces from the character i on are the characters.
<1> DEFINE Good(i) == g[c[i]] = after(i)
<1>6. ASSUME NEW i \in 1 .. n
      PROVE  /\ c[i] \in 1 .. L /\ Len(w[i]) >= 1
             /\ split_text(s, c[i]) = w[i] <=> Right(t[i], i, n)
  <2> DEFINE b == w[i]
             u == t[i]
             p == c[i]
  <2>1. u \in Point /\ Shaped(b, u) /\ Stands(b, s, p) /\ LastEnds(b, p, i, n, L)
    BY <1>1, <1>2 DEF Placed
  <2>2. Len(b) \in 1 .. 4
    BY <2>1 DEF Shaped, Width
  <2> HIDE DEF b, u, p
  <2>3. L = Len(s)
    BY DEF L
  <2>4. split_text(s, p) = b <=> Right(u, i, n)
    BY <1>3, <2>1, <2>3, PieceIsCharacter
  <2>5. p \in 1 .. L /\ Len(b) >= 1
    <3> DEFINE m == Len(b)
    <3>1. p \in Nat /\ p >= 1 /\ p + m <= L + 1 /\ m \in 1 .. 4
      BY <2>1, <2>2, <2>3 DEF Stands
    <3> HIDE DEF m
    <3>2. p \in 1 .. L /\ m >= 1
      BY <1>3, <3>1
    <3>3. QED  BY <3>2 DEF m
  <2>6. QED  BY <2>4, <2>5 DEF b, u, p
<1>7. ASSUME NEW i \in 1 .. n
      PROVE  Good(i) <=> Good(i + 1) /\ Right(t[i], i, n)
  <2> DEFINE p == c[i]
             ss == split_text(s, p)
             q == p + Len(ss)
             k == i + 1
             b == w[i]
             e == after(k)
             h == g[q]
  <2>1. p \in 1 .. L /\ p \in 1 .. L + 1 /\ ~(p > L) /\ L = Len(s)
    BY <1>3, <1>6 DEF L
  <2>2. /\ ss \in B /\ Len(ss) \in Nat /\ q \in 1 .. L + 1
    <3>1. /\ IsPiece(s, p, L) /\ Len(ss) \in 1 .. 3 /\ p + Len(ss) \in 1 .. L + 1
      <4> HIDE DEF p
      <4>1. QED  BY <1>3, <2>1, PieceShape
    <3>2. QED  BY <3>1 DEF IsPiece
  <2>3. g[p] = <<ss>> \o h /\ h \in Seq(B)
    <3> HIDE DEF p, q, ss
    <3>1. /\ g[p] = IF p > Len(s) THEN <<>>
                    ELSE <<split_text(s, p)>> \o g[p + Len(split_text(s, p))]
          /\ g[q] \in Seq(B)
      BY <2>1, <2>2, <1>4 DEF SplitFrom
    <3>2. QED  BY <2>1, <3>1 DEF q, ss
  <2>4. after(i) = <<b>> \o e /\ e \in Seq(B) /\ b \in B
    <3>1. i \in 1 .. Len(w) /\ n \in i .. Len(w) /\ i + 1 \in 1 .. n + 1
      BY <1>1
    <3>2. after(i) = <<b>> \o e
      BY <1>1, <3>1, SubSeqRecursiveFirst
    <3>3. e \in Seq(B)
      <4> HIDE DEF B
      <4>1. \A j \in k .. n : w[j] \in B
        BY <1>1, <1>5
      <4>2. k \in Int /\ n \in Int
        BY <1>1
      <4>3. QED  BY <4>1, <4>2, SubSeqProperties
    <3>4. QED  BY <1>5, <3>2, <3>3
  <2>5. c[k] = p + Len(b)
    BY <1>2 DEF Placed
  <2>6. ss = b <=> Right(t[i], i, n)
    BY <1>6
  <2> HIDE DEF p, ss, b, e, h, B, after
  <2>7. <<ss>> \in Seq(B) /\ <<b>> \in Seq(B) /\ Len(<<ss>>) = 1 /\ Len(<<b>>) = 1
        /\ <<ss>>[1] = ss /\ <<b>>[1] = b
    BY <2>2, <2>4
  <2> DEFINE x == <<ss>>
             y == <<b>>
  <2>8. x \in Seq(B) /\ y \in Seq(B) /\ Len(x) = Len(y) /\ (x = y <=> ss = b)
    BY <2>7
  <2>9. g[p] = x \o h /\ after(i) = y \o e
    BY <2>3, <2>4
  <2> HIDE DEF x, y, q
  <2>10. g[p] = after(i) => x = y /\ h = e
    BY <2>3, <2>4, <2>8, <2>9, SameCut
  <2>11. g[p] = after(i) <=> ss = b /\ h = e
    BY <2>8, <2>9, <2>10
  <2>12. ss = b => h = g[c[k]]
    BY <2>5 DEF h, q
  <2>13. (Good(i) <=> g[p] = after(i)) /\ (Good(k) <=> g[c[k]] = e)
    BY DEF p, e
  <2> HIDE DEF Good, k
  <2>14. Good(i) <=> Good(k) /\ Right(t[i], i, n)
    BY <2>6, <2>11, <2>12, <2>13
  <2>15. QED  BY <2>14 DEF k
<1>8. Good(n + 1)
  <2>1. after(n + 1) = <<>>
    BY <1>1, SubSeqEmpty
  <2>2. L + 1 \in 1 .. Len(s) + 1 /\ L + 1 > Len(s)
    BY <1>3 DEF L
  <2>3. g[L + 1] = <<>>
    <3> DEFINE m == L + 1
    <3>1. m \in 1 .. Len(s) + 1 /\ m > Len(s)
      BY <2>2
    <3> HIDE DEF m
    <3>2. g[m] = <<>>
      BY <1>4, <3>1 DEF SplitFrom
    <3>3. QED  BY <3>2 DEF m
  <2>4. QED  BY <1>2, <2>1, <2>3 DEF Placed
<1>9. g[1] = w <=> Good(1)
  <2>1. after(1) = w
    BY <1>1, SubSeqFull
  <2>2. QED  BY <1>2, <2>1 DEF Placed
<1> HIDE DEF Good, after, B
<1>10. ASSUME \A i \in 1 .. n : Right(t[i], i, n) PROVE Good(1)
  <2> DEFINE T == {i \in 1 .. n + 1 : Good(i)}
  <2>1. n + 1 \in T
    BY <1>1, <1>8
  <2>2. ASSUME NEW i \in 1 .. n, i + 1 \in T PROVE i \in T
    <3>1. Good(i) /\ i \in 1 .. n + 1
      BY <1>1, <1>7, <1>10, <2>2
    <3>2. QED  BY <3>1
  <2> HIDE DEF T
  <2>3. \A i \in 1 .. n + 1 : i \in T
    BY <1>1, <2>1, <2>2, InductionDown
  <2>4. 1 \in 1 .. n + 1
    BY <1>1
  <2>5. QED  BY <2>3, <2>4 DEF T
<1>11. ASSUME Good(1) PROVE \A i \in 1 .. n : Right(t[i], i, n)
  <2> DEFINE T == {k \in 0 .. n : Good(k + 1)}
  <2>1. 0 \in T
    <3>1. 0 \in 0 .. n /\ 0 + 1 = 1
      BY <1>1
    <3>2. QED  BY <1>11, <3>1
  <2>2. ASSUME NEW k \in 0 .. n, k \in T, k < n PROVE k + 1 \in T
    <3> DEFINE i == k + 1
    <3>1. i \in 1 .. n /\ i \in 0 .. n /\ Good(i)
      BY <1>1, <2>2
    <3> HIDE DEF i
    <3>2. Good(i + 1)
      BY <1>7, <3>1
    <3>3. i \in T
      BY <3>1, <3>2
    <3>4. QED  BY <3>3 DEF i
  <2>3. \A k \in 0 .. n : k \in T
    <3> HIDE DEF T
    <3>1. QED  BY <1>1, <2>1, <2>2, Induction
  <2>4. ASSUME NEW i \in 1 .. n PROVE Right(t[i], i, n)
    <3>1. i - 1 \in 0 .. n /\ i - 1 + 1 = i
      BY <1>1
    <3>2. i - 1 \in T
      BY <2>3, <3>1
    <3>3. Good(i - 1 + 1)
      BY <3>2
    <3>4. Good(i)
      BY <3>1, <3>3
    <3>5. QED  BY <1>7, <3>4
  <2>5. QED  BY <2>4
<1>12. Pieces(s) = w <=> \A k \in 1 .. n : Right(t[k], k, n)
  BY <1>4, <1>9, <1>10, <1>11
<1>13. QED  BY <1>1, <1>12 DEF s, w, n

-----------------------------------------------------------------------------
\* What the behaviours of MCCodecs convert, and what comes out.
Known == /\ id \in Word /\ len \in Word
         /\ text \in Seq(Point)
         /\ cou # -1 => cou = utf8_to_unicode(In) /\ pieces = Pieces(In)

LEMMA InitKnown == CodecsInit => Known
<1> SUFFICES ASSUME CodecsInit PROVE Known
  OBVIOUS
<1>1. Zeros \in Word /\ Signs \in Word
  BY DEF Zeros, Signs, Word, Byte
<1>2. EdgeWords \subseteq Word
  BY DEF EdgeWords, Edges, Word, Byte
<1>3. EdgeLens \subseteq Word
  BY SMT DEF EdgeLens, LowEdges, Edges, Word, Byte
<1>4. id \in Word /\ len \in Word
  BY <1>1, <1>2, <1>3 DEF CodecsInit, NoFrame
<1>5. text \in Seq(Point)
  <2>1. CASE text = <<>>
    BY <2>1
  <2>2. CASE text \in SeqOf(Borders, 3)
    <3>1. PICK n \in 0 .. 3 : text \in [1 .. n -> Borders]
      BY <2>2 DEF SeqOf
    <3>2. Borders \subseteq Point
      BY SMT DEF Borders, Point
    <3> HIDE DEF Borders
    <3>3. text \in [1 .. n -> Point]
      BY <3>1, <3>2
    <3>4. QED  BY <3>1, <3>3
  <2>3. QED  BY <2>1, <2>2 DEF CodecsInit, NoText
<1>6. cou = -1
  BY DEF CodecsInit
<1>7. QED  BY <1>4, <1>5, <1>6 DEF Known

LEMMA StepKnown == Known /\ [Encode \/ Convert \/ Message]_allVars => Known'
<1> SUFFICES ASSUME Known, [Encode \/ Convert \/ Message]_allVars PROVE Known'
  OBVIOUS
<1>1. UNCHANGED <<id, len, text>>
  BY DEF Encode, Convert, Message, allVars, frameVars, textVars
<1>2. In' = In
  BY <1>1 DEF In
<1>3. cou' # -1 => cou' = utf8_to_unicode(In) /\ pieces' = Pieces(In)
  <2>1. CASE Convert
    BY <2>1 DEF Convert
  <2>2. CASE ~Convert
    <3>1. UNCHANGED <<cou, pieces>>
      BY <2>2 DEF Encode, Message, allVars, textVars
    <3>2. QED  BY <3>1 DEF Known
  <2>3. QED  BY <2>1, <2>2
<1>4. QED  BY <1>1, <1>2, <1>3 DEF Known

LEMMA AlwaysKnown == CodecsSpec => []Known
BY InitKnown, StepKnown, PTL DEF CodecsSpec

(* Of the ids and lengths in a head exactly those come out of recvFunc()   *)
(* as sendFunc() put them in that sign extension does not change.          *)
THEOREM HeadsSurvive == CodecsSpec => []RoundTrip
<1>1. Known => RoundTrip
  BY HeadsRoundTrip DEF Known, RoundTrip
<1>2. QED  BY <1>1, AlwaysKnown, PTL

(* recvFunc() overlooks the body of a message for no other lengths than    *)
(* those that wrap in the two bytes at the front of the head.              *)
THEOREM BodiesAreSeen == CodecsSpec => []BodyIsSeen
<1>1. Known => BodyIsSeen
  BY BodiesSeen DEF Known, BodyIsSeen
<1>2. QED  BY <1>1, AlwaysKnown, PTL

(* unicode_to_utf8() is right exactly for the characters of fewer than     *)
(* three bytes and for those with bit 12 clear.                            *)
THEOREM TextsEncoded == CodecsSpec => []Encoded
<1>1. Known => Encoded
  <2> SUFFICES ASSUME Known, NEW k \in DOMAIN text, text[k] < 65536
               PROVE  EncodedRight(text[k])
    BY DEF Encoded
  <2>1. text \in Seq(Point)
    BY DEF Known
  <2>2. text[k] \in Point
    BY <2>1, InUtf8Seq
  <2>3. text[k] \in Nat
    BY <2>2, SMT DEF Point
  <2>4. QED  BY <2>3, EncodedExactly
<1>2. QED  BY <1>1, AlwaysKnown, PTL

(* Counted, for every text: what CursorTextField compares with its maximum *)
(* is the number of the characters of up to three bytes.                   *)
THEOREM TextsCounted == CodecsSpec => []Counted
<1>1. Known => Counted
  <2> SUFFICES ASSUME Known, cou # -1
               PROVE  cou = Cardinality({k \in DOMAIN text : text[k] < 65536})
    BY DEF Counted
  <2>1. text \in Seq(Point) /\ cou = utf8_to_unicode(FlattenSeq(InUtf8(text)))
    BY DEF Known, In, InUtf8
  <2>2. QED  BY <2>1, CountRight
<1>2. QED  BY <1>1, AlwaysKnown, PTL

(* SplitRight, for every text: which texts split_text() takes apart into   *)
(* their characters, on either kind of machine.                            *)
THEOREM TextsSplit == CodecsSpec => []SplitRight
<1>1. Known => SplitRight
  <2> SUFFICES ASSUME Known, cou # -1
               PROVE  pieces = InUtf8(text) <=> \A k \in DOMAIN text :
                                                   Right(text[k], k, Len(text))
    BY DEF SplitRight, InUtf8, Right
  <2>1. text \in Seq(Point) /\ pieces = Pieces(FlattenSeq(InUtf8(text)))
    BY DEF Known, In, InUtf8
  <2>2. QED  BY <2>1, SplitsExactly
<1>2. QED  BY <1>1, AlwaysKnown, PTL

-----------------------------------------------------------------------------
(* The last of some positions.                                             *)
LEMMA Largest ==
    ASSUME NEW n \in Nat, NEW T \in SUBSET (1 .. n), T # {}
    PROVE  \E x \in T : \A y \in T : y <= x
<1> DEFINE U == {i \in Nat : n - i \in T}
<1>1. U # {}
  <2>1. PICK x \in T : TRUE
    OBVIOUS
  <2>2. n - x \in Nat /\ n - (n - x) = x
    BY <2>1
  <2>3. QED  BY <2>1, <2>2
<1>2. PICK u \in U : \A y \in U : u <= y
  BY <1>1, Least
<1>3. ASSUME NEW y \in T PROVE y <= n - u
  <2>1. n - y \in Nat /\ n - (n - y) = y
    OBVIOUS
  <2>2. u <= n - y
    BY <1>2, <2>1
  <2>3. QED  BY <2>1, <2>2
<1>4. QED  BY <1>3

LEMMA OfLength ==
    ASSUME NEW n \in Nat, NEW S, NEW v \in [1 .. n -> S]
    PROVE  v \in Seq(S) /\ Len(v) = n
OBVIOUS

LEMMA OneElement ==
    ASSUME NEW S, NEW v \in Seq(S), Len(v) = 1
    PROVE  v = <<v[1]>>
<1>1. v \in [1 .. 1 -> S] /\ <<v[1]>> \in [1 .. 1 -> S]
  OBVIOUS
<1>2. QED  BY <1>1

-----------------------------------------------------------------------------
(* Numbers, as sequences of groups of seven bits.                          *)
LEMMA LowBits == ASSUME NEW b \in Byte PROVE b % 128 \in Group
BY DEF Byte, Group

LEMMA TrimmedNum ==
    ASSUME NEW n \in 1 .. 10, NEW v \in [1 .. n -> Group], n = 10 => v[10] \in {0, 1}
    PROVE  /\ Trimmed(v) \in Num
           /\ Trimmed(v) = Zero <=> \A i \in 1 .. n : v[i] = 0
<1> DEFINE used == {i \in 1 .. n : v[i] # 0}
<1>1. DOMAIN v = 1 .. n
  OBVIOUS
<1>2. CASE used = {}
  <2>1. Trimmed(v) = Zero
    BY <1>1, <1>2 DEF Trimmed
  <2>2. Zero \in Num
    BY DEF Zero, Num, Group, MaxVarintBytes
  <2>3. QED  BY <1>2, <2>1, <2>2
<1>3. CASE used # {}
  <2>1. \E x \in used : \A y \in used : y <= x
    BY <1>3, Largest
  <2> DEFINE m == CHOOSE i \in used : \A j \in used : j <= i
  <2>2. m \in used /\ m \in 1 .. n /\ v[m] # 0 /\ v[m] \in Group
    BY <2>1
  <2>3. Trimmed(v) = SubSeq(v, 1, m)
    BY <1>1, <1>3 DEF Trimmed
  <2> HIDE DEF m
  <2>4. v \in Seq(Group) /\ Len(v) = n
    OBVIOUS
  <2>5. /\ Trimmed(v) \in Seq(Group) /\ Len(Trimmed(v)) = m
        /\ Trimmed(v)[m] = v[m]
    BY <2>2, <2>3, <2>4
  <2>6. Trimmed(v) # Zero
    <3> SUFFICES ASSUME Trimmed(v) = Zero PROVE FALSE
      OBVIOUS
    <3>1. Len(Zero) = 1 /\ Zero[1] = 0
      BY DEF Zero
    <3>2. m = 1 /\ v[m] = 0
      BY <2>5, <3>1
    <3>3. QED  BY <2>2, <3>2
  <2>7. m = 10 => v[m] = 1
    BY <2>2
  <2>8. Trimmed(v) \in Num
    <3> DEFINE t == Trimmed(v)
    <3>1. t \in Seq(Group) /\ Len(t) \in 1 .. 10 /\ t[Len(t)] # 0
          /\ (Len(t) = 10 => t[Len(t)] = 1)
      BY <2>2, <2>5, <2>7
    <3> HIDE DEF t
    <3>2. t \in Num
      BY <3>1 DEF Num, MaxVarintBytes
    <3>3. QED  BY <3>2 DEF t
  <2>9. QED  BY <1>3, <2>6, <2>8
<1>4. QED  BY <1>2, <1>3

LEMMA NumFacts ==
    ASSUME NEW v \in Num
    PROVE  /\ v \in Seq(0 .. 127) /\ Len(v) \in 1 .. 10
           /\ v[Len(v)] \in 0 .. 127 /\ (Len(v) > 1 => v[Len(v)] # 0)
           /\ Len(v) = 10 => v[Len(v)] = 1
           /\ v = Zero <=> Len(v) = 1 /\ v[1] = 0
<1>1. /\ v \in Seq(0 .. 127) /\ Len(v) \in 1 .. 10
      /\ (Len(v) > 1 => v[Len(v)] # 0) /\ (Len(v) = 10 => v[Len(v)] = 1)
  BY DEF Num, Group, MaxVarintBytes
<1>2. v[Len(v)] \in 0 .. 127
  <2> DEFINE L == Len(v)
  <2>1. L \in 1 .. 10
    BY <1>1
  <2> HIDE DEF L
  <2>2. L \in 1 .. L
    BY <2>1
  <2>3. Len(v) \in 1 .. Len(v)
    BY <2>2 DEF L
  <2>4. QED  BY <1>1, <2>3, ElementOfSeq
<1>3. v = <<0>> => Len(v) = 1 /\ v[1] = 0
  OBVIOUS
<1>4. Len(v) = 1 /\ v[1] = 0 => v = <<0>>
  BY <1>1, OneElement
<1>5. QED  BY <1>1, <1>2, <1>3, <1>4 DEF Zero

(* VarintSize() is the number of the bytes, without a division by seven.   *)
LEMMA VarintSizeIsLen == ASSUME NEW v \in Num PROVE VarintSize(v) = Len(v)
<1> DEFINE L == Len(v)
           top == v[Len(v)]
           b == IF top < 2 THEN 0 ELSE IF top < 4 THEN 1
                ELSE IF top < 8 THEN 2 ELSE IF top < 16 THEN 3
                ELSE IF top < 32 THEN 4 ELSE IF top < 64 THEN 5 ELSE 6
<1>1. L \in 1 .. 10 /\ b \in 0 .. 6
  BY NumFacts
<1>2. Log2(v) = 7 * (L - 1) + b
  BY Zenon DEF Log2
<1> HIDE DEF L, top, b
<1>3. /\ (7 * (L - 1) + b) * 9 + 73 = 64 * L + (10 + 9 * b - L)
      /\ 10 + 9 * b - L \in 0 .. 63
  BY <1>1
<1>4. ((7 * (L - 1) + b) * 9 + 73) \div 64 = L
  BY <1>1, <1>3
<1>5. QED  BY <1>2, <1>4 DEF VarintSize, L

LEMMA WriteVarintBytes ==
    ASSUME NEW v \in Num
    PROVE  /\ WriteVarint(v) \in Seq(Byte) /\ Len(WriteVarint(v)) = Len(v)
           /\ HasZero(WriteVarint(v)) <=> v = Zero
<1> DEFINE w == WriteVarint(v)
           L == Len(v)
<1>1. /\ v \in Seq(0 .. 127) /\ L \in 1 .. 10 /\ DOMAIN v = 1 .. L
      /\ (L > 1 => v[L] # 0) /\ (v = Zero <=> L = 1 /\ v[1] = 0)
  <2>1. v \in Seq(0 .. 127)
    BY NumFacts
  <2>2. QED  BY <2>1, NumFacts
<1>2. w = [i \in 1 .. L |-> IF i < L THEN v[i] + 128 ELSE v[i]]
  BY <1>1 DEF WriteVarint
<1>3. \A i \in 1 .. L : v[i] \in 0 .. 127
  BY <1>1, ElementOfSeq
<1> HIDE DEF w, L
<1>4. ASSUME NEW i \in 1 .. L
      PROVE  w[i] \in Byte /\ (w[i] = 0 <=> i = L /\ v[i] = 0)
  <2>1. v[i] \in 0 .. 127 /\ i \in Int /\ L \in Int /\ i <= L
    BY <1>1, <1>3
  <2>2. CASE i < L
    <3>1. w[i] = v[i] + 128
      BY <1>2, <2>2
    <3>2. QED  BY <2>1, <2>2, <3>1 DEF Byte
  <2>3. CASE i = L
    <3>1. w[i] = v[i]
      BY <1>1, <1>2, <2>3
    <3>2. QED  BY <2>1, <2>3, <3>1 DEF Byte
  <2>4. QED  BY <2>1, <2>2, <2>3
<1>5. w \in Seq(Byte) /\ Len(w) = L /\ DOMAIN w = 1 .. L
  <2>1. w \in [1 .. L -> Byte]
    BY <1>2, <1>4
  <2>2. QED  BY <1>1, <2>1
<1>6. HasZero(w) <=> v[L] = 0
  BY <1>1, <1>4, <1>5 DEF HasZero
<1>7. QED  BY <1>1, <1>5, <1>6 DEF w, L

LEMMA NumOfNum ==
    ASSUME NEW n \in Nat
    PROVE  /\ NumOf(n) \in Num
           /\ n < TextLimit => (NumOf(n) = Zero <=> n = 0)
<1> DEFINE v == [i \in 1 .. 5 |-> (n \div Weights[i]) % 128]
<1>1. \A i \in 1 .. 5 : Weights[i] \in Nat \ {0}
  BY DEF Weights
<1>2. ASSUME NEW i \in 1 .. 5 PROVE (n \div Weights[i]) % 128 \in 0 .. 127
  <2>1. n \div Weights[i] \in Nat
    BY <1>1
  <2>2. QED  BY <2>1
<1>3. v \in [1 .. 5 -> Group]
  BY <1>2 DEF Group
<1>4. NumOf(n) = Trimmed(v)
  BY DEF NumOf
<1>5. v[1] = n % 128 /\ v[2] = (n \div 128) % 128 /\ v[3] = (n \div 16384) % 128
      /\ v[4] = (n \div 2097152) % 128 /\ v[5] = (n \div 268435456) % 128
  BY DEF Weights
<1> HIDE DEF v
<1>6. n = 0 => \A i \in 1 .. 5 : v[i] = 0
  BY <1>5
<1>7. ASSUME n < TextLimit, \A i \in 1 .. 5 : v[i] = 0
      PROVE  n = 0
  <2>1. /\ n % 128 = 0 /\ (n \div 128) % 128 = 0
        /\ (n \div 16384) % 128 = 0 /\ (n \div 2097152) % 128 = 0
    BY <1>5, <1>7
  <2>2. n < 268435456
    BY <1>7, SMT DEF TextLimit
  <2>3. QED  BY <2>1, <2>2, SMT
<1>8. QED  BY <1>3, <1>4, <1>6, <1>7, TrimmedNum

(* A number of one group, as the tags of known fields are.                 *)
LEMMA NumOfSmall == ASSUME NEW n \in 1 .. 127 PROVE NumOf(n) = <<n>>
<1> DEFINE v == [i \in 1 .. 5 |-> (n \div Weights[i]) % 128]
<1>1. v[1] = n /\ \A i \in 2 .. 5 : v[i] = 0
  BY DEF Weights
<1>2. NumOf(n) = Trimmed(v) /\ v \in Seq(Int) /\ DOMAIN v = 1 .. 5 /\ Len(v) = 5
  BY <1>1 DEF NumOf
<1> HIDE DEF v
<1>3. {i \in DOMAIN v : v[i] # 0} = {1}
  BY <1>1, <1>2
<1>4. Trimmed(v) = SubSeq(v, 1, 1)
  BY <1>3 DEF Trimmed
<1>5. Len(SubSeq(v, 1, 1)) = 1 /\ SubSeq(v, 1, 1)[1] = n /\ SubSeq(v, 1, 1) \in Seq(Int)
  BY <1>1, <1>2
<1>6. SubSeq(v, 1, 1) = <<n>>
  BY <1>5, OneElement
<1>7. QED  BY <1>2, <1>4, <1>6

-----------------------------------------------------------------------------
(* What is written of a field: its bytes, how many ByteSize() says they    *)
(* are, and whether there is a zero among them.                            *)
LEMMA HasZeroConcat ==
    ASSUME NEW s \in Seq(Byte), NEW t \in Seq(Byte)
    PROVE  /\ s \o t \in Seq(Byte) /\ Len(s \o t) = Len(s) + Len(t)
           /\ HasZero(s \o t) <=> HasZero(s) \/ HasZero(t)
<1>1. s \o t \in Seq(Byte) /\ Len(s \o t) = Len(s) + Len(t)
  BY ConcatProperties
<1>2. /\ Len(s) \in Nat /\ Len(t) \in Nat
      /\ DOMAIN s = 1 .. Len(s) /\ DOMAIN t = 1 .. Len(t)
      /\ DOMAIN (s \o t) = 1 .. (Len(s) + Len(t))
      /\ \A i \in 1 .. (Len(s) + Len(t)) :
            (s \o t)[i] = IF i <= Len(s) THEN s[i] ELSE t[i - Len(s)]
  BY ConcatProperties, LenProperties
<1> DEFINE c == s \o t
           L == Len(s)
           M == Len(t)
<1>3. ASSUME NEW i \in 1 .. L, s[i] = 0 PROVE i \in 1 .. (L + M) /\ c[i] = 0
  BY <1>2, <1>3
<1>4. ASSUME NEW i \in 1 .. M, t[i] = 0
      PROVE  L + i \in 1 .. (L + M) /\ c[L + i] = 0
  BY <1>2, <1>4
<1>5. ASSUME NEW i \in 1 .. (L + M), c[i] = 0
      PROVE  \/ i \in 1 .. L /\ s[i] = 0
             \/ i - L \in 1 .. M /\ t[i - L] = 0
  BY <1>2, <1>5
<1> HIDE DEF c, L, M
<1>6. (\E i \in 1 .. (L + M) : c[i] = 0)
         <=> (\E i \in 1 .. L : s[i] = 0) \/ (\E i \in 1 .. M : t[i] = 0)
  BY <1>3, <1>4, <1>5
<1>7. QED  BY <1>1, <1>2, <1>6 DEF HasZero, c, L, M

(* Something is written behind bytes without a zero.                       *)
LEMMA Joined ==
    ASSUME NEW s \in Seq(Byte), NEW t \in Seq(Byte), ~HasZero(s)
    PROVE  /\ s \o t \in Seq(Byte) /\ Len(s \o t) = Len(s) + Len(t)
           /\ HasZero(s \o t) <=> HasZero(t)
BY HasZeroConcat

LEMMA OneByte ==
    ASSUME NEW b \in Byte, b # 0
    PROVE  <<b>> \in Seq(Byte) /\ Len(<<b>>) = 1 /\ ~HasZero(<<b>>)
BY DEF HasZero

LEMMA WriteTextBytes ==
    ASSUME NEW v \in Seq(Byte), Len(v) < TextLimit
    PROVE  /\ WriteText(v) \in Seq(Byte)
           /\ Len(WriteText(v)) = VarintSize(NumOf(Len(v))) + Len(v)
           /\ HasZero(WriteText(v)) <=> ZeroText(v)
<1> DEFINE n == NumOf(Len(v))
<1>1. Len(v) \in Nat /\ (Len(v) = 0 <=> v = <<>>)
  BY EmptySeq
<1>2. n \in Num /\ (n = Zero <=> Len(v) = 0)
  BY <1>1, NumOfNum
<1> HIDE DEF n
<1>3. /\ WriteVarint(n) \in Seq(Byte) /\ Len(WriteVarint(n)) = VarintSize(n)
      /\ HasZero(WriteVarint(n)) <=> n = Zero
  BY <1>2, WriteVarintBytes, VarintSizeIsLen
<1>4. WriteText(v) = WriteVarint(n) \o v
  BY DEF WriteText, n
<1>5. /\ WriteText(v) \in Seq(Byte)
      /\ Len(WriteText(v)) = Len(WriteVarint(n)) + Len(v)
      /\ HasZero(WriteText(v)) <=> HasZero(WriteVarint(n)) \/ HasZero(v)
  BY <1>3, <1>4, HasZeroConcat
<1>6. HasZero(WriteText(v)) <=> ZeroText(v)
  BY <1>1, <1>2, <1>3, <1>5, Zenon DEF ZeroText
<1>7. QED  BY <1>3, <1>5, <1>6 DEF n

LEMMA FieldWritten ==
    ASSUME NEW k \in 1 .. 8, NEW type, NEW v, Fitting(type, v)
    PROVE  /\ FieldBytes(k, type, v) \in Seq(Byte)
           /\ Len(FieldBytes(k, type, v)) = FieldSize(type, v)
           /\ HasZero(FieldBytes(k, type, v))
                 <=> IF IsText(type) THEN ZeroText(v) ELSE v = Zero
<1> DEFINE tag == Tag(k, WireType(type))
<1>1. tag \in Byte /\ tag # 0
  BY DEF Tag, WireType, VARINT, LENGTH_DELIMITED, Byte
<1>2. <<tag>> \in Seq(Byte) /\ Len(<<tag>>) = 1 /\ ~HasZero(<<tag>>)
  BY <1>1, OneByte
<1> HIDE DEF tag
<1>3. CASE IsText(type)
  <2>1. v \in Seq(Byte) /\ Len(v) < TextLimit
    BY <1>3 DEF Fitting
  <2>2. FieldBytes(k, type, v) = <<tag>> \o WriteText(v)
    BY <1>3 DEF FieldBytes, tag
  <2>3. FieldSize(type, v) = 1 + (VarintSize(NumOf(Len(v))) + Len(v))
    BY <1>3 DEF FieldSize
  <2>4. /\ WriteText(v) \in Seq(Byte)
        /\ Len(WriteText(v)) = VarintSize(NumOf(Len(v))) + Len(v)
        /\ HasZero(WriteText(v)) <=> ZeroText(v)
    BY <2>1, WriteTextBytes
  <2>5. /\ <<tag>> \o WriteText(v) \in Seq(Byte)
        /\ Len(<<tag>> \o WriteText(v)) = Len(<<tag>>) + Len(WriteText(v))
        /\ HasZero(<<tag>> \o WriteText(v)) <=> HasZero(WriteText(v))
    BY <1>2, <2>4, Joined
  <2>6. QED  BY <1>2, <1>3, <2>2, <2>3, <2>4, <2>5
<1>4. CASE ~IsText(type)
  <2>1. v \in Num
    BY <1>4 DEF Fitting
  <2>2. FieldBytes(k, type, v) = <<tag>> \o WriteVarint(v)
    BY <1>4 DEF FieldBytes, tag
  <2>3. FieldSize(type, v) = 1 + VarintSize(v)
    BY <1>4 DEF FieldSize
  <2>4. /\ WriteVarint(v) \in Seq(Byte) /\ Len(WriteVarint(v)) = VarintSize(v)
        /\ HasZero(WriteVarint(v)) <=> v = Zero
    BY <2>1, WriteVarintBytes, VarintSizeIsLen
  <2>5. /\ <<tag>> \o WriteVarint(v) \in Seq(Byte)
        /\ Len(<<tag>> \o WriteVarint(v)) = Len(<<tag>>) + Len(WriteVarint(v))
        /\ HasZero(<<tag>> \o WriteVarint(v)) <=> HasZero(WriteVarint(v))
    BY <1>2, <2>4, Joined
  <2>6. QED  BY <1>2, <1>4, <2>2, <2>3, <2>4, <2>5
<1>5. QED  BY <1>3, <1>4

(* An unknown field as a reader keeps it.                                  *)
Straying(u) ==
    /\ u.tag \in Num /\ u.tag # Zero
    /\ IF Wire(u.tag) = VARINT THEN u.val \in Num
       ELSE /\ u.val \in Seq(Byte)
            /\ Wire(u.tag) = LENGTH_DELIMITED => Len(u.val) < TextLimit

ZeroStray(u) == IF Wire(u.tag) = VARINT THEN u.val = Zero
                ELSE IF Wire(u.tag) = LENGTH_DELIMITED THEN ZeroText(u.val)
                ELSE HasZero(u.val)

LEMMA UnknownWritten ==
    ASSUME NEW u, Straying(u)
    PROVE  /\ UnknownBytes(u) \in Seq(Byte)
           /\ Len(UnknownBytes(u)) = UnknownSize(u)
           /\ HasZero(UnknownBytes(u)) <=> ZeroStray(u)
<1> DEFINE tag == WriteVarint(u.tag)
<1>1. tag \in Seq(Byte) /\ Len(tag) = VarintSize(u.tag) /\ ~HasZero(tag)
  BY WriteVarintBytes, VarintSizeIsLen DEF Straying
<1> HIDE DEF tag
<1>2. CASE Wire(u.tag) = VARINT
  <2>1. u.val \in Num
    BY <1>2 DEF Straying
  <2>2. /\ UnknownBytes(u) = tag \o WriteVarint(u.val)
        /\ UnknownSize(u) = VarintSize(u.tag) + VarintSize(u.val)
    BY <1>2 DEF UnknownBytes, UnknownSize, tag
  <2>3. ZeroStray(u) <=> u.val = Zero
    BY <1>2 DEF ZeroStray
  <2>4. /\ WriteVarint(u.val) \in Seq(Byte)
        /\ Len(WriteVarint(u.val)) = VarintSize(u.val)
        /\ HasZero(WriteVarint(u.val)) <=> u.val = Zero
    BY <2>1, WriteVarintBytes, VarintSizeIsLen
  <2>5. /\ tag \o WriteVarint(u.val) \in Seq(Byte)
        /\ Len(tag \o WriteVarint(u.val)) = Len(tag) + Len(WriteVarint(u.val))
        /\ HasZero(tag \o WriteVarint(u.val)) <=> HasZero(WriteVarint(u.val))
    BY <1>1, <2>4, Joined
  <2>6. QED  BY <1>1, <2>2, <2>3, <2>4, <2>5
<1>3. CASE Wire(u.tag) # VARINT /\ Wire(u.tag) = LENGTH_DELIMITED
  <2>1. u.val \in Seq(Byte) /\ Len(u.val) < TextLimit
    BY <1>3 DEF Straying
  <2>2. /\ UnknownBytes(u) = tag \o WriteText(u.val)
        /\ UnknownSize(u) = VarintSize(u.tag)
                            + (VarintSize(NumOf(Len(u.val))) + Len(u.val))
    BY <1>3 DEF UnknownBytes, UnknownSize, tag
  <2>3. ZeroStray(u) <=> ZeroText(u.val)
    BY <1>3 DEF ZeroStray
  <2>4. /\ WriteText(u.val) \in Seq(Byte)
        /\ Len(WriteText(u.val)) = VarintSize(NumOf(Len(u.val))) + Len(u.val)
        /\ HasZero(WriteText(u.val)) <=> ZeroText(u.val)
    BY <2>1, WriteTextBytes
  <2>5. /\ tag \o WriteText(u.val) \in Seq(Byte)
        /\ Len(tag \o WriteText(u.val)) = Len(tag) + Len(WriteText(u.val))
        /\ HasZero(tag \o WriteText(u.val)) <=> HasZero(WriteText(u.val))
    BY <1>1, <2>4, Joined
  <2>6. QED  BY <1>1, <2>2, <2>3, <2>4, <2>5
<1>4. CASE Wire(u.tag) # VARINT /\ Wire(u.tag) # LENGTH_DELIMITED
  <2>1. u.val \in Seq(Byte)
    BY <1>4 DEF Straying
  <2>2. /\ UnknownBytes(u) = tag \o u.val
        /\ UnknownSize(u) = VarintSize(u.tag) + Len(u.val)
    BY <1>4 DEF UnknownBytes, UnknownSize, tag
  <2>3. ZeroStray(u) <=> HasZero(u.val)
    BY <1>4 DEF ZeroStray
  <2>4. /\ tag \o u.val \in Seq(Byte)
        /\ Len(tag \o u.val) = Len(tag) + Len(u.val)
        /\ HasZero(tag \o u.val) <=> HasZero(u.val)
    BY <1>1, <2>1, Joined
  <2>5. QED  BY <1>1, <2>2, <2>3, <2>4
<1>5. QED  BY <1>2, <1>3, <1>4

-----------------------------------------------------------------------------
(* What a read that succeeds has read.                                     *)
LEMMA VarintRead ==
    ASSUME NEW s \in Seq(Byte), NEW p \in Nat, p >= 1, ReadVarint(s, p).ok
    PROVE  /\ \E m \in 1 .. 10 : ReadVarint(s, p).val \in [1 .. m -> Group]
           /\ ReadVarint(s, p).next \in Nat /\ ReadVarint(s, p).next >= p
<1>1. VarintEnds(s, p) # {}
  BY DEF ReadVarint, Failed
<1> DEFINE q == CHOOSE e \in VarintEnds(s, p) : TRUE
<1>2. q \in p .. p + 9 /\ q <= Len(s)
  BY <1>1 DEF VarintEnds, MaxVarintBytes
<1>3. ReadVarint(s, p) = [ok |-> TRUE, next |-> q + 1,
                          val |-> [i \in 1 .. q - p + 1 |-> s[p + i - 1] % 128]]
  BY <1>1 DEF ReadVarint
<1> HIDE DEF q
<1>4. q - p + 1 \in 1 .. 10 /\ q + 1 \in Nat /\ q + 1 >= p
  BY <1>2
<1>5. ASSUME NEW i \in 1 .. q - p + 1 PROVE s[p + i - 1] % 128 \in Group
  <2>1. p + i - 1 \in 1 .. Len(s)
    BY <1>2, <1>4
  <2>2. s[p + i - 1] \in Byte
    BY <2>1, ElementOfSeq
  <2>3. QED  BY <2>2, LowBits
<1> DEFINE m == q - p + 1
           w == [i \in 1 .. m |-> s[p + i - 1] % 128]
<1>6. w \in [1 .. m -> Group]
  BY <1>5
<1>7. ReadVarint(s, p).val = w /\ ReadVarint(s, p).next = q + 1
  BY <1>3
<1> HIDE DEF m, w
<1>8. m \in 1 .. 10
  BY <1>4 DEF m
<1>9. QED  BY <1>4, <1>6, <1>7, <1>8

LEMMA Casts ==
    ASSUME NEW m \in 1 .. 10, NEW v \in [1 .. m -> Group]
    PROVE  /\ As64(v) \in Num /\ As32(v) \in Num /\ AsInt(v) \in Num
           /\ Low32(v) \in [1 .. 5 -> Group]
<1>1. v \in Seq(Group) /\ Len(v) = m /\ DOMAIN v = 1 .. m
  OBVIOUS
<1>2. As64(v) \in Num
  <2> DEFINE w == [i \in 1 .. m |-> IF i = 10 THEN v[i] % 2 ELSE v[i]]
  <2>1. ASSUME NEW i \in 1 .. m
        PROVE  w[i] \in Group /\ (i = 10 => w[i] \in {0, 1})
    <3>1. v[i] \in Group
      OBVIOUS
    <3>2. w[i] = IF i = 10 THEN v[i] % 2 ELSE v[i]
      OBVIOUS
    <3> DEFINE g == v[i]
    <3> HIDE DEF w, g
    <3>3. CASE i = 10
      <4>1. w[i] = g % 2 /\ g \in Group
        BY <3>1, <3>2, <3>3, Zenon DEF g
      <4>2. g % 2 \in {0, 1} /\ g % 2 \in Group
        BY <4>1 DEF Group
      <4>3. QED  BY <4>1, <4>2
    <3>4. CASE i # 10
      BY <3>1, <3>2, <3>4, Zenon
    <3>5. QED  BY <3>3, <3>4
  <2>2. w \in [1 .. m -> Group]
    BY <2>1
  <2>3. As64(v) = Trimmed(w)
    BY <1>1 DEF As64, MaxVarintBytes
  <2> HIDE DEF w
  <2>4. m = 10 => w[10] \in {0, 1}
    BY <2>1
  <2>5. QED  BY <2>2, <2>3, <2>4, TrimmedNum
<1>3. Low32(v) \in [1 .. 5 -> Group] /\ Low32(v)[5] \in 0 .. 15
  <2> DEFINE w == [i \in 1 .. 5 |-> IF i > m THEN 0
                                   ELSE IF i = 5 THEN v[i] % 16 ELSE v[i]]
  <2>1. ASSUME NEW i \in 1 .. 5
        PROVE  w[i] \in Group /\ (i = 5 => w[i] \in 0 .. 15)
    <3>1. w[i] = IF i > m THEN 0 ELSE IF i = 5 THEN v[i] % 16 ELSE v[i]
      OBVIOUS
    <3>2. ~(i > m) => v[i] \in Group
      OBVIOUS
    <3>3. 0 \in 0 .. 15
      OBVIOUS
    <3> HIDE DEF w
    <3>4. CASE i > m
      <4>1. w[i] = 0
        BY <3>1, <3>4, Zenon
      <4>2. 0 \in Group
        BY DEF Group
      <4>3. QED  BY <3>3, <4>1, <4>2, Zenon
    <3>5. CASE ~(i > m) /\ i = 5
      <4> DEFINE g == v[i]
      <4>1. w[i] = g % 16 /\ g \in Group
        BY <3>1, <3>2, <3>5, Zenon
      <4> HIDE DEF g
      <4>2. g % 16 \in 0 .. 15 /\ g % 16 \in Group
        BY <4>1 DEF Group
      <4>3. QED  BY <4>1, <4>2
    <3>6. CASE ~(i > m) /\ ~(i = 5)
      BY <3>1, <3>2, <3>6, Zenon
    <3>7. QED  BY <3>4, <3>5, <3>6, Zenon
  <2>2. w \in [1 .. 5 -> Group]
    BY <2>1
  <2>3. Low32(v) = w
    BY <1>1 DEF Low32
  <2> HIDE DEF w
  <2>4. 5 \in 1 .. 5
    OBVIOUS
  <2>5. QED  BY <2>1, <2>2, <2>3, <2>4
<1>4. As32(v) \in Num
  BY <1>3, TrimmedNum DEF As32
<1>5. AsInt(v) \in Num
  <2>1. CASE Low32(v)[5] < 8
    BY <1>4, <2>1 DEF AsInt
  <2>2. CASE ~(Low32(v)[5] < 8)
    <3> DEFINE l == Low32(v)
               w == [i \in 1 .. 10 |-> IF i < 5 THEN l[i]
                                        ELSE IF i = 5 THEN l[i] + 112
                                        ELSE IF i < 10 THEN 127 ELSE 1]
    <3>1. AsInt(v) = w
      BY <2>2 DEF AsInt
    <3>2. l \in [1 .. 5 -> Group] /\ l[5] \in 0 .. 15
      BY <1>3
    <3> HIDE DEF l
    <3>3. ASSUME NEW i \in 1 .. 10 PROVE w[i] \in Group
      <4>1. w[i] = IF i < 5 THEN l[i] ELSE IF i = 5 THEN l[i] + 112
                   ELSE IF i < 10 THEN 127 ELSE 1
        OBVIOUS
      <4>2. i < 5 => l[i] \in Group
        BY <3>2
      <4> HIDE DEF w
      <4>3. CASE i = 5
        <5> DEFINE g == l[5]
        <5> HIDE DEF g
        <5>1. w[i] = g + 112 /\ g \in 0 .. 15
          BY <3>2, <4>1, <4>3 DEF g
        <5>2. g + 112 \in Group
          BY <5>1 DEF Group
        <5>3. QED  BY <5>1, <5>2
      <4>4. CASE i < 5
        BY <4>1, <4>2, <4>4, Zenon
      <4>5. CASE ~(i < 5) /\ i # 5
        <5>1. w[i] \in {127, 1}
          BY <4>1, <4>5
        <5>2. QED  BY <5>1 DEF Group
      <4>6. QED  BY <4>3, <4>4, <4>5
    <3>4. w \in [1 .. 10 -> Group]
      BY <3>3
    <3>5. w[10] = 1
      OBVIOUS
    <3> HIDE DEF w
    <3>6. w \in Seq(Group) /\ Len(w) = 10
      BY <3>4, OfLength
    <3>7. Len(w) \in 1 .. 10 /\ (Len(w) > 1 => w[Len(w)] # 0)
          /\ (Len(w) = 10 => w[Len(w)] = 1)
      BY <3>6, <3>5
    <3>8. w \in Num
      BY <3>6, <3>7 DEF Num, MaxVarintBytes
    <3>9. QED  BY <3>1, <3>8
  <2>3. QED  BY <2>1, <2>2
<1>6. QED  BY <1>2, <1>3, <1>4, <1>5

(* What is cut off are zeros.                                              *)
LEMMA TrimmedParts ==
    ASSUME NEW n \in 1 .. 10, NEW v \in [1 .. n -> Group], NEW t, t = Trimmed(v)
    PROVE  /\ t \in Seq(Group) /\ Len(t) \in 1 .. n
           /\ \A i \in 1 .. n : v[i] = IF i <= Len(t) THEN t[i] ELSE 0
<1> DEFINE used == {i \in 1 .. n : v[i] # 0}
<1>1. v \in Seq(Group) /\ Len(v) = n /\ DOMAIN v = 1 .. n
  OBVIOUS
<1>2. CASE used = {}
  <2>1. t = <<0>>
    BY <1>1, <1>2 DEF Trimmed, Zero
  <2>2. t \in Seq(Group) /\ Len(t) = 1 /\ t[1] = 0
    BY <2>1 DEF Group
  <2>3. ASSUME NEW i \in 1 .. n PROVE v[i] = IF i <= Len(t) THEN t[i] ELSE 0
    <3>1. v[i] = 0
      BY <1>2
    <3>2. i <= 1 => i = 1
      OBVIOUS
    <3>3. QED  BY <2>2, <3>1, <3>2
  <2>4. QED  BY <2>2, <2>3
<1>3. CASE used # {}
  <2>1. \E x \in used : \A y \in used : y <= x
    BY <1>3, Largest
  <2> DEFINE m == CHOOSE i \in used : \A j \in used : j <= i
  <2>2. m \in used /\ \A j \in used : j <= m
    BY <2>1
  <2>3. t = SubSeq(v, 1, m)
    BY <1>1, <1>3 DEF Trimmed
  <2> HIDE DEF m
  <2>4. m \in 1 .. n /\ \A i \in 1 .. n : i > m => v[i] = 0
    <3>1. m \in 1 .. n
      BY <2>2
    <3>2. ASSUME NEW i \in 1 .. n, i > m, v[i] # 0 PROVE FALSE
      <4>1. i \in used
        BY <3>2
      <4>2. QED  BY <2>2, <3>1, <3>2, <4>1
    <3>3. QED  BY <3>1, <3>2
  <2>5. t \in Seq(Group) /\ Len(t) = m /\ \A i \in 1 .. m : t[i] = v[i]
    <3> HIDE DEF used
    <3>1. m \in 0 .. Len(v)
      BY <1>1, <2>4
    <3>2. t \in Seq(Group) /\ Len(t) = m
      BY <1>1, <2>3, <3>1, CutSeq
    <3>3. ASSUME NEW i \in 1 .. m PROVE t[i] = v[i]
      BY <1>1, <2>3, <2>4
    <3>4. QED  BY <3>2, <3>3
  <2>6. QED  BY <2>4, <2>5
<1>4. QED  BY <1>2, <1>3

LEMMA NumTrimmed == ASSUME NEW v \in Num PROVE Trimmed(v) = v
<1> DEFINE n == Len(v)
           t == Trimmed(v)
<1>1. /\ v \in Seq(Group) /\ n \in 1 .. 10 /\ (n > 1 => v[n] # 0)
      /\ v \in [1 .. n -> Group]
  <2>1. v \in Seq(Group) /\ n \in 1 .. 10 /\ (n > 1 => v[n] # 0)
    BY DEF Num, MaxVarintBytes
  <2>2. QED  BY <2>1
<1> HIDE DEF n, t
<1>2. /\ t \in Seq(Group) /\ Len(t) \in 1 .. n
      /\ \A i \in 1 .. n : v[i] = IF i <= Len(t) THEN t[i] ELSE 0
  BY <1>1, TrimmedParts DEF t
<1>3. Len(t) = n
  <2>1. n \in 1 .. n
    BY <1>1
  <2>2. ASSUME Len(t) # n PROVE FALSE
    <3>1. ~(n <= Len(t)) /\ n > 1
      BY <1>1, <1>2, <2>2
    <3>2. QED  BY <1>1, <1>2, <2>1, <3>1
  <2>3. QED  BY <2>2
<1>4. \A i \in 1 .. n : v[i] = t[i]
  BY <1>2, <1>3
<1>5. v = t
  BY <1>1, <1>2, <1>3, <1>4, SeqEqual DEF n
<1>6. QED  BY <1>5 DEF t

LEMMA NumGroups ==
    ASSUME NEW v \in Num
    PROVE  \E m \in 1 .. 10 : m = Len(v) /\ v \in [1 .. m -> Group]
<1> DEFINE n == Len(v)
<1>1. v \in Seq(Group) /\ n \in 1 .. 10
  BY DEF Num, MaxVarintBytes
<1>2. v \in [1 .. n -> Group]
  BY <1>1
<1> HIDE DEF n
<1>3. QED  BY <1>1, <1>2 DEF n

(* A cast leaves what it has made.                                         *)
LEMMA Kept64 == ASSUME NEW v \in Num PROVE As64(v) = v
<1>1. v \in Seq(Group) /\ Len(v) \in 1 .. 10 /\ (Len(v) = 10 => v[Len(v)] = 1)
  BY DEF Num, MaxVarintBytes
<1> DEFINE n == Len(v)
           w == [i \in 1 .. n |-> IF i = 10 THEN v[i] % 2 ELSE v[i]]
<1>2. v \in [1 .. n -> Group] /\ n \in 1 .. 10 /\ DOMAIN v = 1 .. n
  BY <1>1
<1>3. ASSUME NEW i \in 1 .. n PROVE w[i] = v[i]
  <2>1. w[i] = IF i = 10 THEN v[i] % 2 ELSE v[i]
    OBVIOUS
  <2>2. i = 10 => v[i] = 1
    BY <1>1, <1>2
  <2>3. 1 % 2 = 1
    OBVIOUS
  <2> HIDE DEF w, n
  <2>4. QED  BY <2>1, <2>2, <2>3
<1>4. As64(v) = Trimmed(w)
  BY <1>2 DEF As64, MaxVarintBytes
<1>5. w = v
  BY <1>2, <1>3
<1> HIDE DEF w
<1>6. QED  BY <1>4, <1>5, NumTrimmed

\* The groups of a number of 32 bits.
Groups32 == {l \in [1 .. 5 -> Group] : l[5] \in 0 .. 15}

LEMMA Low32Groups ==
    ASSUME NEW m \in 1 .. 10, NEW v \in [1 .. m -> Group]
    PROVE  /\ Low32(v) \in Groups32
           /\ \A i \in 1 .. 5 : Low32(v)[i] = IF i > m THEN 0
                                             ELSE IF i = 5 THEN v[i] % 16 ELSE v[i]
<1> DEFINE w == Low32(v)
<1>1. Len(v) = m
  OBVIOUS
<1>2. \A i \in 1 .. 5 : w[i] = IF i > m THEN 0 ELSE IF i = 5 THEN v[i] % 16 ELSE v[i]
  BY <1>1 DEF Low32
<1>3. w \in [1 .. 5 -> Group]
  BY Casts
<1>4. w[5] \in 0 .. 15
  <2>1. 5 \in 1 .. 5
    OBVIOUS
  <2>2. w[5] = IF 5 > m THEN 0 ELSE v[5] % 16
    BY <1>2, <2>1
  <2>3. CASE 5 > m
    BY <2>2, <2>3
  <2>4. CASE ~(5 > m)
    <3> DEFINE g == v[5]
    <3>1. g \in 0 .. 127
      BY <2>4 DEF Group
    <3> HIDE DEF g
    <3>2. g % 16 \in 0 .. 15
      BY <3>1
    <3>3. w[5] = g % 16
      BY <2>2, <2>4 DEF g
    <3> HIDE DEF w
    <3>4. QED  BY <3>2, <3>3
  <2>5. QED  BY <2>3, <2>4
<1> HIDE DEF w
<1>5. w \in Groups32
  BY <1>3, <1>4 DEF Groups32
<1>6. QED  BY <1>2, <1>5 DEF w

LEMMA Low32Trimmed == ASSUME NEW l \in Groups32 PROVE Low32(Trimmed(l)) = l
<1> DEFINE t == Trimmed(l)
           m == Len(t)
           w == Low32(t)
<1>1. l \in [1 .. 5 -> Group] /\ l[5] \in 0 .. 15
  BY DEF Groups32
<1>2. /\ t \in Seq(Group) /\ m \in 1 .. 5
      /\ \A i \in 1 .. 5 : l[i] = IF i <= m THEN t[i] ELSE 0
  BY <1>1, TrimmedParts
<1>3. m \in 1 .. 10 /\ t \in [1 .. m -> Group]
  BY <1>2
<1> HIDE DEF t, m
<1>4. /\ w \in Groups32
      /\ \A i \in 1 .. 5 : w[i] = IF i > m THEN 0 ELSE IF i = 5 THEN t[i] % 16 ELSE t[i]
  BY <1>3, Low32Groups
<1> HIDE DEF w
<1>5. ASSUME NEW i \in 1 .. 5 PROVE w[i] = l[i]
  <2>1. CASE i > m
    BY <1>2, <1>4, <2>1
  <2>2. CASE ~(i > m)
    <3>1. t[i] = l[i] /\ w[i] = IF i = 5 THEN t[i] % 16 ELSE t[i]
      BY <1>2, <1>4, <2>2
    <3>2. \A g \in 0 .. 15 : g % 16 = g
      OBVIOUS
    <3>3. i = 5 => l[i] % 16 = l[i]
      BY <1>1, <3>2
    <3>4. QED  BY <3>1, <3>3
  <2>3. QED  BY <2>1, <2>2
<1>6. w \in [1 .. 5 -> Group]
  BY <1>4 DEF Groups32
<1>7. w = l
  BY <1>1, <1>5, <1>6
<1>8. QED  BY <1>7 DEF w, t

LEMMA Kept32 ==
    ASSUME NEW m \in 1 .. 10, NEW v \in [1 .. m -> Group]
    PROVE  As32(As32(v)) = As32(v) /\ Low32(As32(v)) = Low32(v)
<1>1. Low32(v) \in Groups32
  BY Low32Groups
<1>2. Low32(As32(v)) = Low32(v)
  BY <1>1, Low32Trimmed DEF As32
<1>3. QED  BY <1>2 DEF As32

LEMMA KeptInt ==
    ASSUME NEW m \in 1 .. 10, NEW v \in [1 .. m -> Group]
    PROVE  AsInt(AsInt(v)) = AsInt(v)
<1> DEFINE l == Low32(v)
<1>1. l \in [1 .. 5 -> Group] /\ l[5] \in 0 .. 15
  BY Low32Groups DEF Groups32
<1>2. CASE l[5] < 8
  <2>1. AsInt(v) = As32(v)
    BY <1>2 DEF AsInt
  <2>2. Low32(As32(v)) = l /\ As32(As32(v)) = As32(v)
    BY Kept32
  <2>3. AsInt(As32(v)) = As32(As32(v))
    BY <1>2, <2>2 DEF AsInt
  <2>4. QED  BY <2>1, <2>2, <2>3
<1>3. CASE ~(l[5] < 8)
  <2> DEFINE w == [i \in 1 .. 10 |-> IF i < 5 THEN l[i]
                                      ELSE IF i = 5 THEN l[i] + 112
                                      ELSE IF i < 10 THEN 127 ELSE 1]
  <2>1. AsInt(v) = w
    BY <1>3 DEF AsInt
  <2>2. w \in [1 .. 10 -> Group]
    <3>1. AsInt(v) \in Num
      BY Casts
    <3>2. PICK k \in 1 .. 10 : w \in [1 .. k -> Group]
      BY <2>1, <3>1, NumGroups
    <3>3. DOMAIN w = 1 .. 10
      OBVIOUS
    <3> HIDE DEF w
    <3>4. 1 .. k = 1 .. 10
      BY <3>2, <3>3
    <3>5. QED  BY <3>2, <3>4
  <2>3. /\ \A i \in 1 .. 4 : w[i] = l[i]
        /\ w[5] = l[5] + 112
    <3> HIDE DEF l
    <3>1. QED  OBVIOUS
  <2> DEFINE u == Low32(w)
  <2> HIDE DEF w
  <2>4. u \in [1 .. 5 -> Group]
        /\ \A i \in 1 .. 5 : u[i] = IF i > 10 THEN 0 ELSE IF i = 5 THEN w[i] % 16 ELSE w[i]
    BY <2>2, Low32Groups DEF Groups32
  <2> HIDE DEF l, u
  <2>5. ASSUME NEW i \in 1 .. 5 PROVE u[i] = l[i]
    <3>1. CASE i = 5
      <4>1. \A g \in 0 .. 15 : (g + 112) % 16 = g
        OBVIOUS
      <4>2. u[i] = (l[5] + 112) % 16
        BY <2>3, <2>4, <3>1
      <4>3. QED  BY <1>1, <3>1, <4>1, <4>2
    <3>2. CASE i # 5
      <4>1. i \in 1 .. 4 /\ ~(i > 10)
        BY <3>2
      <4>2. QED  BY <2>3, <2>4, <3>2, <4>1
    <3>3. QED  BY <3>1, <3>2
  <2>6. u = l
    BY <1>1, <2>4, <2>5
  <2>7. AsInt(w) = [i \in 1 .. 10 |-> IF i < 5 THEN l[i]
                                       ELSE IF i = 5 THEN l[i] + 112
                                       ELSE IF i < 10 THEN 127 ELSE 1]
    BY <1>3, <2>6 DEF AsInt, u
  <2>8. QED  BY <2>1, <2>7 DEF w
<1>4. QED  BY <1>2, <1>3

LEMMA CastKept ==
    ASSUME NEW m \in 1 .. 10, NEW v \in [1 .. m -> Group], NEW type
    PROVE  CastTo(type, v) \in Num /\ CastTo(type, CastTo(type, v)) = CastTo(type, v)
<1>1. As64(v) \in Num /\ AsInt(v) \in Num /\ AsInt(AsInt(v)) = AsInt(v)
  BY Casts, KeptInt
<1>2. As64(As64(v)) = As64(v)
  BY <1>1, Kept64
<1>3. Zero \in Num /\ One \in Num /\ One # Zero
  <2>1. Zero \in Num
    BY DEF Zero, Num, Group, MaxVarintBytes
  <2>2. One \in Num
    BY DEF One, Num, Group, MaxVarintBytes
  <2>3. Zero[1] = 0 /\ One[1] = 1
    BY DEF Zero, One
  <2>4. One # Zero
    BY <2>3
  <2>5. QED  BY <2>1, <2>2, <2>4
<1>4. As64(Zero) = Zero /\ As64(One) = One
  BY <1>3, Kept64
<1>5. CASE type = "int64"
  BY <1>1, <1>2, <1>5 DEF CastTo
<1>6. CASE type = "bool"
  <2>1. \A x : CastTo(type, x) = IF As64(x) = Zero THEN Zero ELSE One
    BY <1>6 DEF CastTo
  <2>2. QED  BY <1>3, <1>4, <2>1
<1>7. CASE type # "int64" /\ type # "bool"
  BY <1>1, <1>7 DEF CastTo
<1>8. QED  BY <1>5, <1>6, <1>7

LEMMA RawRead ==
    ASSUME NEW s \in Seq(Byte), NEW p \in Nat, p >= 1, NEW n \in Nat,
           ReadRaw(s, p, n).ok
    PROVE  /\ ReadRaw(s, p, n).val \in Seq(Byte) /\ Len(ReadRaw(s, p, n).val) = n
           /\ ReadRaw(s, p, n).next \in Nat /\ ReadRaw(s, p, n).next >= p
<1>1. p + n - 1 <= Len(s) /\ Len(s) \in Nat
  BY LenProperties DEF ReadRaw, Failed
<1>2. ReadRaw(s, p, n) = [ok |-> TRUE, val |-> SubSeq(s, p, p + n - 1), next |-> p + n]
  BY <1>1 DEF ReadRaw
<1>3. SubSeq(s, p, p + n - 1) \in Seq(Byte) /\ Len(SubSeq(s, p, p + n - 1)) = n
  BY <1>1, SubSeqProperties
<1>4. QED  BY <1>2, <1>3

LEMMA BelowTextLimit ==
    ASSUME NEW l, l[1] \in Group, l[2] \in Group, l[3] \in Group, l[4] \in Group
    PROVE  TextSize(l) \in Nat /\ TextSize(l) < TextLimit
<1> DEFINE a == l[1]
           b == l[2]
           c == l[3]
           d == l[4]
<1>1. a \in 0 .. 127 /\ b \in 0 .. 127 /\ c \in 0 .. 127 /\ d \in 0 .. 127
  BY DEF Group
<1>2. TextSize(l) = a + 128 * b + 16384 * c + 2097152 * d
  BY SMT DEF TextSize
<1> HIDE DEF a, b, c, d
<1>3. QED  BY <1>1, <1>2, SMTT(30) DEF TextLimit

LEMMA TextRead ==
    ASSUME NEW s \in Seq(Byte), NEW p \in Nat, p >= 1, ReadText(s, p).ok
    PROVE  /\ ReadText(s, p).val \in Seq(Byte)
           /\ Len(ReadText(s, p).val) < TextLimit
           /\ ReadText(s, p).next \in Nat /\ ReadText(s, p).next >= p
<1> DEFINE n == ReadVarint(s, p)
           l == Low32(n.val)
<1>1. n.ok /\ ReadText(s, p) = ReadRaw(s, n.next, TextSize(l))
  BY DEF ReadText, Failed
<1>2. l \in [1 .. 5 -> Group] /\ n.next \in Nat /\ n.next >= p
  BY <1>1, VarintRead, Casts
<1>3. l[1] \in Group /\ l[2] \in Group /\ l[3] \in Group /\ l[4] \in Group
  BY <1>2
<1> DEFINE size0 == TextSize(l)
<1>4. size0 \in Nat /\ size0 < TextLimit
  BY <1>3, BelowTextLimit
<1>5. ReadText(s, p) = ReadRaw(s, n.next, size0) /\ n.next \in Nat /\ n.next >= p
  BY <1>1, <1>2
<1> DEFINE m == n.next
<1> HIDE DEF n, size0, m
<1>6. /\ ReadRaw(s, m, size0).ok /\ m \in Nat /\ m >= p
      /\ ReadText(s, p) = ReadRaw(s, m, size0)
  BY <1>5 DEF m
<1>7. m >= 1
  BY <1>6
<1>8. /\ ReadRaw(s, m, size0).val \in Seq(Byte)
      /\ Len(ReadRaw(s, m, size0).val) = size0
      /\ ReadRaw(s, m, size0).next \in Nat /\ ReadRaw(s, m, size0).next >= m
  BY <1>4, <1>6, <1>7, RawRead
<1>9. QED  BY <1>4, <1>6, <1>8

LEMMA PrimitiveRead ==
    ASSUME NEW s \in Seq(Byte), NEW p \in Nat, p >= 1, NEW type,
           ReadPrimitive(s, p, type).ok
    PROVE  /\ Fitting(type, ReadPrimitive(s, p, type).val)
           /\ ReadPrimitive(s, p, type).next \in Nat
           /\ ReadPrimitive(s, p, type).next >= p
<1>1. CASE IsText(type)
  BY <1>1, TextRead DEF ReadPrimitive, Fitting
<1>2. CASE ~IsText(type)
  <2> DEFINE n == ReadVarint(s, p)
             v == CastTo(type, n.val)
  <2>1. n.ok /\ ReadPrimitive(s, p, type) = [n EXCEPT !.val = v]
    BY <1>2 DEF ReadPrimitive, Failed
  <2>2. /\ \E m \in 1 .. 10 : n.val \in [1 .. m -> Group]
        /\ n.next \in Nat /\ n.next >= p
    BY <2>1, VarintRead
  <2>3. DOMAIN n = {"ok", "val", "next"}
    BY DEF ReadVarint, Failed
  <2>4. v \in Num /\ v = CastTo(type, v)
    BY <2>2, CastKept
  <2> HIDE DEF n, v
  <2>5. ReadPrimitive(s, p, type).val = v /\ ReadPrimitive(s, p, type).next = n.next
    BY <2>1, <2>3
  <2>6. QED  BY <1>2, <2>2, <2>4, <2>5 DEF Fitting
<1>3. QED  BY <1>1, <1>2
-----------------------------------------------------------------------------
(* The messages: at most eight fields, of the types that Fitting knows.    *)
Shape(types) == \E n \in 1 .. 8 : types \in [1 .. n -> FieldTypes]

LEMMA DataShapes == \A m \in Names : Shape(Data!Fields[m])
<1>1. Shape(Data!Fields["LoginRequest"])
  BY DEF Shape, FieldTypes, Data!Fields, Data!LoginRequest
<1>2. Shape(Data!Fields["LoginResponse"])
  BY DEF Shape, FieldTypes, Data!Fields, Data!LoginResponse
<1>3. Shape(Data!Fields["QuitRequest"])
  BY DEF Shape, FieldTypes, Data!Fields, Data!QuitRequest
<1>4. Shape(Data!Fields["QuitResponse"])
  BY DEF Shape, FieldTypes, Data!Fields, Data!QuitResponse
<1>5. Shape(Data!Fields["LoginSubGameRequest"])
  BY DEF Shape, FieldTypes, Data!Fields, Data!LoginSubGameRequest
<1>6. Shape(Data!Fields["LoginSubGameResponse"])
  BY DEF Shape, FieldTypes, Data!Fields, Data!LoginSubGameResponse
<1>7. Shape(Data!Fields["QuitSubGameRequest"])
  BY DEF Shape, FieldTypes, Data!Fields, Data!QuitSubGameRequest
<1>8. Shape(Data!Fields["QuitSubGameResponse"])
  BY DEF Shape, FieldTypes, Data!Fields, Data!QuitSubGameResponse
<1>9. Shape(Data!Fields["SystemErrorResponse"])
  BY DEF Shape, FieldTypes, Data!Fields, Data!SystemErrorResponse
<1>10. Shape(Data!Fields["HeartRequest"])
  BY DEF Shape, FieldTypes, Data!Fields, Data!HeartRequest
<1>11. Shape(Data!Fields["HeartResponse"])
  BY DEF Shape, FieldTypes, Data!Fields, Data!HeartResponse
<1>12. Shape(Data!Fields["UdpConnectRequest"])
  BY DEF Shape, FieldTypes, Data!Fields, Data!UdpConnectRequest
<1>13. Shape(Data!Fields["UdpConnectResponse"])
  BY DEF Shape, FieldTypes, Data!Fields, Data!UdpConnectResponse
<1>14. Names = {"LoginRequest", "LoginResponse", "QuitRequest", "QuitResponse",
             "LoginSubGameRequest", "LoginSubGameResponse", "QuitSubGameRequest",
             "QuitSubGameResponse", "SystemErrorResponse", "HeartRequest",
             "HeartResponse", "UdpConnectRequest", "UdpConnectResponse"}
  BY DEF Names, Data!Fields
<1>15. QED
  BY <1>1, <1>2, <1>3, <1>4, <1>5, <1>6, <1>7, <1>8, <1>9, <1>10, <1>11, <1>12,
     <1>13, <1>14, Zenon

LEMMA PlatShapes == \A m \in Names : Shape(Plat!Fields[m])
<1>1. Shape(Plat!Fields["LoginRequest"])
  BY DEF Shape, FieldTypes, Plat!Fields, Plat!LoginRequest
<1>2. Shape(Plat!Fields["LoginResponse"])
  BY DEF Shape, FieldTypes, Plat!Fields, Plat!LoginResponse
<1>3. Shape(Plat!Fields["QuitRequest"])
  BY DEF Shape, FieldTypes, Plat!Fields, Plat!QuitRequest
<1>4. Shape(Plat!Fields["QuitResponse"])
  BY DEF Shape, FieldTypes, Plat!Fields, Plat!QuitResponse
<1>5. Shape(Plat!Fields["LoginSubGameRequest"])
  BY DEF Shape, FieldTypes, Plat!Fields, Plat!LoginSubGameRequest
<1>6. Shape(Plat!Fields["LoginSubGameResponse"])
  BY DEF Shape, FieldTypes, Plat!Fields, Plat!LoginSubGameResponse
<1>7. Shape(Plat!Fields["QuitSubGameRequest"])
  BY DEF Shape, FieldTypes, Plat!Fields, Plat!QuitSubGameRequest
<1>8. Shape(Plat!Fields["QuitSubGameResponse"])
  BY DEF Shape, FieldTypes, Plat!Fields, Plat!QuitSubGameResponse
<1>9. Shape(Plat!Fields["SystemErrorResponse"])
  BY DEF Shape, FieldTypes, Plat!Fields, Plat!SystemErrorResponse
<1>10. Shape(Plat!Fields["HeartRequest"])
  BY DEF Shape, FieldTypes, Plat!Fields, Plat!HeartRequest
<1>11. Shape(Plat!Fields["HeartResponse"])
  BY DEF Shape, FieldTypes, Plat!Fields, Plat!HeartResponse
<1>12. Shape(Plat!Fields["UdpConnectRequest"])
  BY DEF Shape, FieldTypes, Plat!Fields, Plat!UdpConnectRequest
<1>13. Shape(Plat!Fields["UdpConnectResponse"])
  BY DEF Shape, FieldTypes, Plat!Fields, Plat!UdpConnectResponse
<1>14. Names = {"LoginRequest", "LoginResponse", "QuitRequest", "QuitResponse",
             "LoginSubGameRequest", "LoginSubGameResponse", "QuitSubGameRequest",
             "QuitSubGameResponse", "SystemErrorResponse", "HeartRequest",
             "HeartResponse", "UdpConnectRequest", "UdpConnectResponse"}
  BY DEF Names, Data!Fields
<1>15. QED
  BY <1>1, <1>2, <1>3, <1>4, <1>5, <1>6, <1>7, <1>8, <1>9, <1>10, <1>11, <1>12,
     <1>13, <1>14, Zenon

LEMMA TypesShape ==
    ASSUME NEW gen \in Generations, NEW m \in Names
    PROVE  \E n \in 1 .. 8 : Types(gen, m) \in [1 .. n -> FieldTypes]
BY DataShapes, PlatShapes DEF Types, Shape

-----------------------------------------------------------------------------
(* The invariant.                                                          *)
Value == Num \cup Seq(Byte) \cup {Plat!Absent}

\* Each field is unset or holds what its type can.
Filled(gen, m, f) ==
    /\ f \in [DOMAIN Types(gen, m) -> Value]
    /\ \A k \in DOMAIN Types(gen, m) :
          \/ f[k] = Unset(gen, Types(gen, m)[k])
          \/ Fitting(Types(gen, m)[k], f[k])

Stray == {u \in [tag : Num, val : Num \cup Seq(Byte)] : Straying(u)}

SenderInv == /\ name \in Names /\ to \in Generations
             /\ ~Foreigner => from \in Generations /\ Filled(from, name, sent)
             /\ kept \in Seq(Stray)

\* So far the bytes and their number agree, and zeros come from zero items.
WritingInv == /\ out \in Seq(Byte)
              /\ Foreigner \/
                    /\ next \in 1 .. All + 1
                    /\ size = Len(out)
                    /\ HasZero(out) <=> \E i \in 1 .. All : i < next /\ ZeroItem(i)

ReadingInv == /\ body \in Seq(Byte) /\ pos \in Nat /\ pos >= 1
              /\ unknown \in Seq(Stray)
              /\ at \notin {"sender", "sent on"} => Filled(to, name, got)

SentInv == Sent => next = All + 1 /\ body = CString(out)

MInv == SenderInv /\ WritingInv /\ ReadingInv /\ SentInv

LEMMA AllNat ==
    ASSUME SenderInv, ~Foreigner
    PROVE  /\ N \in 1 .. 8 /\ DOMAIN Types(from, name) = 1 .. N
           /\ Len(kept) \in Nat /\ All = N + Len(kept) /\ All \in Nat
<1>1. PICK n \in 1 .. 8 : Types(from, name) \in [1 .. n -> FieldTypes]
  BY TypesShape DEF SenderInv
<1>2. sent \in [1 .. n -> Value]
  BY <1>1 DEF SenderInv, Filled
<1>3. N = n
  BY <1>2, OfLength DEF N
<1>4. Len(kept) \in Nat
  BY LenProperties DEF SenderInv
<1>5. QED  BY <1>1, <1>3, <1>4 DEF All

(* Every item adds its size in bytes, and a zero exactly when it is one.   *)
LEMMA ItemWritten ==
    ASSUME SenderInv, ~Foreigner, NEW i \in 1 .. All
    PROVE  /\ ItemBytes(i) \in Seq(Byte) /\ Len(ItemBytes(i)) = ItemSize(i)
           /\ HasZero(ItemBytes(i)) <=> ZeroItem(i)
<1>1. /\ N \in 1 .. 8 /\ DOMAIN Types(from, name) = 1 .. N
      /\ Len(kept) \in Nat /\ All = N + Len(kept)
  BY AllNat
<1>2. CASE i > N
  <2> DEFINE u == kept[i - N]
  <2>1. i - N \in 1 .. Len(kept)
    BY <1>1, <1>2
  <2>2. u \in Stray
    BY <2>1, ElementOfSeq DEF SenderInv
  <2>3. Straying(u)
    BY <2>2 DEF Stray
  <2>4. ItemBytes(i) = UnknownBytes(u) /\ ItemSize(i) = UnknownSize(u)
    BY <1>2 DEF ItemBytes, ItemSize
  <2>5. ZeroItem(i) <=> ZeroStray(u)
    BY <1>2 DEF ZeroItem, ZeroStray
  <2> HIDE DEF u
  <2>6. QED  BY <2>3, <2>4, <2>5, UnknownWritten
<1>3. CASE ~(i > N) /\ Written(i)
  <2>1. i \in 1 .. N /\ i \in 1 .. 8
    BY <1>1, <1>3
  <2>2. Fitting(TypeOf(i), sent[i])
    BY <1>1, <1>3, <2>1 DEF SenderInv, Filled, Written, TypeOf
  <2>3. /\ ItemBytes(i) = FieldBytes(i, TypeOf(i), sent[i])
        /\ ItemSize(i) = FieldSize(TypeOf(i), sent[i])
    BY <1>3 DEF ItemBytes, ItemSize
  <2>4. ZeroItem(i) <=> IF IsText(TypeOf(i)) THEN ZeroText(sent[i])
                                             ELSE sent[i] = Zero
    BY <1>3 DEF ZeroItem
  <2>5. QED  BY <2>1, <2>2, <2>3, <2>4, FieldWritten
<1>4. CASE ~(i > N) /\ ~Written(i)
  <2>1. ItemBytes(i) = <<>> /\ ItemSize(i) = 0 /\ ~ZeroItem(i)
    BY <1>4 DEF ItemBytes, ItemSize, ZeroItem
  <2>2. <<>> \in Seq(Byte) /\ Len(<<>>) = 0 /\ ~HasZero(<<>>)
    BY DEF HasZero
  <2>3. QED  BY <2>1, <2>2
<1>5. QED  BY <1>2, <1>3, <1>4

(* What strlen() leaves of the bytes.                                      *)
LEMMA CStringWhole ==
    ASSUME NEW s \in Seq(Byte)
    PROVE  CString(s) \in Seq(Byte) /\ (CString(s) = s <=> ~HasZero(s))
<1> DEFINE zeros == {i \in DOMAIN s : s[i] = 0}
<1>1. DOMAIN s = 1 .. Len(s) /\ Len(s) \in Nat
  OBVIOUS
<1>2. CASE zeros = {}
  BY <1>2 DEF CString, HasZero
<1>3. CASE zeros # {}
  <2>1. zeros \in SUBSET Nat
    BY <1>1
  <2>2. \E i \in zeros : \A j \in zeros : i <= j
    BY <1>3, <2>1, Least
  <2> DEFINE m == CHOOSE i \in zeros : \A j \in zeros : i <= j
  <2>3. m \in 1 .. Len(s)
    BY <1>1, <2>2
  <2>4. CString(s) = SubSeq(s, 1, m - 1)
    BY <1>3 DEF CString
  <2> HIDE DEF m
  <2>5. CString(s) \in Seq(Byte) /\ Len(CString(s)) = m - 1
    BY <1>1, <2>3, <2>4, SubSeqProperties
  <2>6. CString(s) # s
    BY <1>1, <2>3, <2>5
  <2>7. HasZero(s)
    BY <1>3 DEF HasZero
  <2>8. QED  BY <2>5, <2>6, <2>7
<1>4. QED  BY <1>2, <1>3
-----------------------------------------------------------------------------
(* The invariant at the beginning.                                         *)
LEMMA NewFilled ==
    ASSUME NEW gen \in Generations, NEW m \in Names
    PROVE  Filled(gen, m, New(gen, m))
<1>1. ASSUME NEW type PROVE Unset(gen, type) \in Value
  <2>1. Zero \in Num
    BY DEF Zero, Num, Group, MaxVarintBytes
  <2>2. Zero \in Value /\ <<>> \in Value /\ Plat!Absent \in Value
    BY <2>1 DEF Value
  <2>3. Unset(gen, type) \in {Zero, <<>>, Plat!Absent}
    <3>1. Data!Unset(type) \in {Zero, <<>>}
      BY DEF Data!Unset, Data!Zero, Zero
    <3>2. Unset(gen, type) = Data!Unset(type) \/ Unset(gen, type) = Plat!Absent
      BY DEF Unset
    <3>3. QED  BY <3>1, <3>2
  <2>4. QED  BY <2>2, <2>3, Zenon
<1>2. QED  BY <1>1 DEF Filled, New

LEMMA ValueFits ==
    ASSUME NEW type, NEW v, Fitting(type, v)
    PROVE  v \in Value
BY DEF Fitting, Value

LEMMA SettingsFilled ==
    ASSUME NEW gen \in Generations, NEW m \in Names, NEW f \in Settings(gen, m)
    PROVE  Filled(gen, m, f)
<1> DEFINE T == Types(gen, m)
<1>1. PICK n \in 1 .. 8 : T \in [1 .. n -> FieldTypes]
  BY TypesShape
<1>2. T \in Seq(FieldTypes) /\ Len(T) = n /\ DOMAIN T = 1 .. n
  BY <1>1, OfLength
<1> DEFINE Of(k, l) == { [New(gen, m) EXCEPT ![k] = v, ![l] = w] :
                              v \in Values(gen, T[k]), w \in Values(gen, T[l]) }
<1>3. Settings(gen, m) = UNION {Of(k, l) : k \in 1 .. Len(T), l \in 1 .. Len(T)}
  BY DEF Settings
<1>4. Settings(gen, m) = UNION {Of(k, l) : k \in 1 .. n, l \in 1 .. n}
  BY <1>2, <1>3
<1> HIDE DEF Of
<1>5. PICK k \in 1 .. n, l \in 1 .. n : f \in Of(k, l)
  BY <1>4
<1>6. PICK v \in Values(gen, T[k]), w \in Values(gen, T[l]) :
         f = [New(gen, m) EXCEPT ![k] = v, ![l] = w]
  BY <1>5 DEF Of
<1>7. T[k] \in FieldTypes /\ T[l] \in FieldTypes
  BY <1>1
<1>8. Fitting(T[k], v) /\ Fitting(T[l], w)
  BY <1>7, ValuesAssumption DEF Generations
<1>9. v \in Value /\ w \in Value
  BY <1>8, ValueFits
<1>10. Filled(gen, m, New(gen, m))
  BY NewFilled
<1> DEFINE z == New(gen, m)
<1>11. z \in [1 .. n -> Value]
      /\ \A j \in 1 .. n : z[j] = Unset(gen, T[j]) \/ Fitting(T[j], z[j])
  BY <1>2, <1>10 DEF Filled
<1>12. f = [z EXCEPT ![k] = v, ![l] = w]
  BY <1>6
<1> HIDE DEF z, T
<1>13. f \in [1 .. n -> Value]
  BY <1>9, <1>11, <1>12
<1>14. ASSUME NEW j \in 1 .. n PROVE f[j] = Unset(gen, T[j]) \/ Fitting(T[j], f[j])
  <2>1. f[j] = IF j = l THEN w ELSE IF j = k THEN v ELSE z[j]
    BY <1>11, <1>12
  <2>2. QED  BY <1>8, <1>11, <2>1
<1>15. QED  BY <1>2, <1>13, <1>14 DEF Filled, T

LEMMA InitMInv == Init => MInv
<1> SUFFICES ASSUME Init PROVE MInv
  OBVIOUS
<1>1. name \in Names /\ to \in Generations
  BY DEF Init
<1>2. <<>> \in Seq(Byte) /\ <<>> \in Seq(Stray) /\ Len(<<>>) = 0 /\ ~HasZero(<<>>)
  BY DEF HasZero
<1>3. /\ kept = <<>> /\ next = 1 /\ size = 0 /\ body = <<>> /\ pos = 1
      /\ unknown = <<>> /\ at = "sender"
  BY DEF Init
<1>4. CASE Foreigner
  <2>1. out \in Seq(Byte)
    BY <1>4, ForeignAssumption DEF Init, Foreigner, Generations
  <2>2. SenderInv
    <3>1. kept = <<>>
      BY <1>3
    <3>2. kept \in Seq(Stray)
      BY <1>2, <3>1
    <3>3. QED  BY <1>1, <1>4, <3>2, Zenon DEF SenderInv
  <2>3. WritingInv
    BY <1>4, <2>1 DEF WritingInv
  <2>4. ReadingInv
    BY <1>2, <1>3 DEF ReadingInv
  <2>5. QED  BY <1>4, <2>2, <2>3, <2>4 DEF MInv, SentInv, Sent
<1>5. CASE ~Foreigner
  <2>1. from \in Generations /\ sent \in Settings(from, name) /\ out = <<>>
    BY <1>5 DEF Init, Foreigner
  <2>2. SenderInv
    BY <1>1, <1>2, <1>3, <2>1, SettingsFilled DEF SenderInv
  <2>3. All \in Nat
    BY <1>5, <2>2, AllNat
  <2>4. \A i \in 1 .. All : ~(i < 1)
    BY <2>3
  <2>5. WritingInv
    BY <1>2, <1>3, <2>1, <2>3, <2>4 DEF WritingInv
  <2>6. QED
    BY <1>2, <1>3, <2>2, <2>5 DEF MInv, ReadingInv, SentInv, Sent
<1>6. QED  BY <1>4, <1>5

-----------------------------------------------------------------------------
(* The steps of the sender.                                                *)
LEMMA SenderKept ==
    ASSUME SenderInv, sender' = sender
    PROVE  /\ SenderInv' /\ N' = N /\ All' = All /\ (Foreigner' <=> Foreigner)
           /\ \A i : ZeroItem(i)' <=> ZeroItem(i)
<1>1. /\ name' = name /\ from' = from /\ sent' = sent /\ kept' = kept /\ to' = to
  BY DEF sender
<1>2. N' = N /\ All' = All /\ (Foreigner' <=> Foreigner)
  BY <1>1 DEF N, All, Foreigner
<1>3. SenderInv'
  BY <1>1, <1>2 DEF SenderInv
<1>4. \A i : ZeroItem(i)' <=> ZeroItem(i)
  BY <1>1, <1>2 DEF ZeroItem, Written, TypeOf
<1>5. QED  BY <1>2, <1>3, <1>4

LEMMA CStringKept == ASSUME out' = out PROVE CString(out)' = CString(out)
BY DEF CString

LEMMA WritingKept ==
    ASSUME SenderInv, WritingInv, sender' = sender, writing' = writing
    PROVE  WritingInv'
<1>1. next' = next /\ out' = out /\ size' = size
  BY DEF writing
<1>2. /\ All' = All /\ (Foreigner' <=> Foreigner)
      /\ \A i : ZeroItem(i)' <=> ZeroItem(i)
  BY SenderKept
<1>3. QED  BY <1>1, <1>2 DEF WritingInv, HasZero

LEMMA WriteMInv == MInv /\ Write => MInv'
<1> SUFFICES ASSUME MInv, Write PROVE MInv'
  OBVIOUS
<1>1. SenderInv /\ WritingInv /\ ReadingInv
  BY DEF MInv
<1>2. /\ ~Foreigner /\ next <= All /\ at \in {"sender", "sent on"}
      /\ out' = out \o ItemBytes(next) /\ size' = size + ItemSize(next)
      /\ next' = next + 1 /\ sender' = sender
      /\ reading' = reading /\ at' = at
  BY DEF Write
<1>3. /\ SenderInv' /\ All' = All /\ (Foreigner' <=> Foreigner)
      /\ \A i : ZeroItem(i)' <=> ZeroItem(i)
  BY <1>1, <1>2, SenderKept
<1>4. All \in Nat
  BY <1>1, <1>2, AllNat
<1>5. next \in 1 .. All
  <2>1. next \in 1 .. All + 1
    BY <1>1, <1>2 DEF WritingInv
  <2>2. next <= All
    BY <1>2
  <2>3. QED  BY <1>4, <2>1, <2>2
<1> DEFINE b == ItemBytes(next)
<1>6. b \in Seq(Byte) /\ Len(b) = ItemSize(next) /\ (HasZero(b) <=> ZeroItem(next))
  BY <1>1, <1>2, <1>5, ItemWritten
<1> HIDE DEF b
<1>7. /\ out' \in Seq(Byte) /\ Len(out') = size'
      /\ (HasZero(out)' <=> HasZero(out) \/ HasZero(b))
  <2>1. out \in Seq(Byte) /\ size = Len(out)
    BY <1>1, <1>2 DEF WritingInv
  <2>2. out' = out \o b
    BY <1>2 DEF b
  <2>3. /\ out \o b \in Seq(Byte) /\ Len(out \o b) = Len(out) + Len(b)
        /\ HasZero(out \o b) <=> HasZero(out) \/ HasZero(b)
    BY <1>6, <2>1, HasZeroConcat
  <2>4. HasZero(out)' <=> HasZero(out \o b)
    BY <2>2 DEF HasZero
  <2>5. QED  BY <1>2, <1>6, <2>1, <2>2, <2>3, <2>4
<1>8. HasZero(out) <=> \E i \in 1 .. All : i < next /\ ZeroItem(i)
  BY <1>1, <1>2 DEF WritingInv
<1>9. HasZero(out)' <=> \E i \in 1 .. All : i < next + 1 /\ ZeroItem(i)
  <2>1. ASSUME NEW i \in 1 .. All PROVE i < next + 1 <=> i < next \/ i = next
    BY <1>4, <1>5
  <2>2. QED  BY <1>5, <1>6, <1>7, <1>8, <2>1, Zenon
<1>10. next' \in 1 .. All + 1
  <2>1. next' = next + 1
    BY <1>2
  <2>2. QED  BY <1>4, <1>5, <2>1
<1>11. WritingInv'
  BY <1>2, <1>3, <1>7, <1>9, <1>10 DEF WritingInv
<1>12. ReadingInv' /\ SentInv'
  BY <1>1, <1>2 DEF ReadingInv, SentInv, Sent, reading
<1>13. QED  BY <1>3, <1>11, <1>12 DEF MInv

LEMMA DeliverMInv == MInv /\ Deliver => MInv'
<1> SUFFICES ASSUME MInv, Deliver PROVE MInv'
  OBVIOUS
<1>1. SenderInv /\ WritingInv /\ ReadingInv
  BY DEF MInv
<1>2. /\ at \in {"sender", "sent on"} /\ (Foreigner \/ next > All)
      /\ body' = CString(out) /\ pos' = 1 /\ got' = New(to, name)
      /\ unknown' = <<>> /\ sender' = sender /\ writing' = writing
  BY DEF Deliver, MakePocket
<1>3. at' \in {"reader", "again"}
  BY DEF Deliver
<1>4. SenderInv' /\ WritingInv' /\ All' = All /\ (Foreigner' <=> Foreigner)
  BY <1>1, <1>2, SenderKept, WritingKept
<1>5. ReadingInv'
  <2>1. out \in Seq(Byte)
    BY <1>1 DEF WritingInv
  <2>2. body' \in Seq(Byte)
    BY <1>2, <2>1, CStringWhole
  <2>3. to' = to /\ name' = name
    BY <1>2 DEF sender
  <2>4. Filled(to, name, got')
    BY <1>1, <1>2, NewFilled DEF SenderInv
  <2>5. Filled(to', name', got')
    BY <2>3, <2>4
  <2>6. unknown' \in Seq(Stray)
    <3>1. unknown' = <<>>
      BY <1>2
    <3>2. <<>> \in Seq(Stray)
      OBVIOUS
    <3>3. QED  BY <3>1, <3>2
  <2>7. pos' \in Nat /\ pos' >= 1
    <3>1. pos' = 1
      BY <1>2
    <3>2. QED  BY <3>1
  <2>8. QED  BY <2>2, <2>5, <2>6, <2>7, Zenon DEF ReadingInv
<1>6. SentInv'
  <2>1. ~Foreigner => next = All + 1
    <3>1. ASSUME ~Foreigner PROVE next \in 1 .. All + 1 /\ All \in Nat /\ next > All
      BY <1>1, <1>2, <3>1, AllNat DEF WritingInv
    <3>2. QED  BY <3>1
  <2>2. next' = next /\ out' = out
    BY <1>2 DEF writing
  <2>3. CString(out)' = CString(out)
    BY <2>2, CStringKept
  <2>4. QED  BY <1>2, <1>4, <2>1, <2>2, <2>3 DEF SentInv, Sent
<1>7. QED  BY <1>4, <1>5, <1>6 DEF MInv
-----------------------------------------------------------------------------
(* The steps of the reader.                                                *)
LEMMA ReaderKept ==
    ASSUME MInv, Reading, sender' = sender, writing' = writing, body' = body,
           at' \notin {"sender", "sent on"}, pos' \in Nat, pos' >= 1,
           unknown' \in Seq(Stray), Filled(to, name, got')
    PROVE  MInv'
<1>1. SenderInv /\ WritingInv /\ ReadingInv /\ SentInv
  BY DEF MInv
<1>2. SenderInv' /\ WritingInv' /\ All' = All /\ (Foreigner' <=> Foreigner)
  BY <1>1, SenderKept, WritingKept
<1>3. to' = to /\ name' = name /\ next' = next /\ out' = out
  BY DEF sender, writing
<1>4. Filled(to', name', got')
  BY <1>3
<1>5. body \in Seq(Byte)
  BY <1>1 DEF ReadingInv
<1>6. ReadingInv'
  BY <1>4, <1>5, Zenon DEF ReadingInv
<1>7. SentInv'
  <2>1. CString(out)' = CString(out)
    BY <1>3, CStringKept, Zenon
  <2>2. ~Foreigner => Sent
    BY DEF Sent, Reading
  <2>3. Sent' => ~Foreigner
    BY <1>2 DEF Sent
  <2>4. QED  BY <1>1, <1>2, <1>3, <2>1, <2>2, <2>3 DEF SentInv
<1>8. QED  BY <1>2, <1>6, <1>7 DEF MInv

LEMMA ReadersFields ==
    ASSUME ReadingInv, Reading
    PROVE  Filled(to, name, got) /\ body \in Seq(Byte) /\ pos \in Nat /\ pos >= 1
           /\ unknown \in Seq(Stray)
BY DEF ReadingInv, Reading

LEMMA FailMInv == MInv /\ Reading /\ Fail => MInv'
<1> SUFFICES ASSUME MInv, Reading, Fail PROVE MInv'
  OBVIOUS
<1>1. /\ sender' = sender /\ writing' = writing /\ body' = body /\ pos' = pos
      /\ got' = got /\ unknown' = unknown /\ at' = "fail"
  BY DEF Fail, reading
<1>2. Filled(to, name, got) /\ pos \in Nat /\ pos >= 1 /\ unknown \in Seq(Stray)
  BY ReadersFields DEF MInv
<1>3. Filled(to, name, got')
  BY <1>1, <1>2
<1>4. at' \notin {"sender", "sent on"} /\ pos' \in Nat /\ pos' >= 1
      /\ unknown' \in Seq(Stray)
  BY <1>1, <1>2
<1>5. QED  BY <1>1, <1>3, <1>4, ReaderKept

LEMMA TagIsRead ==
    ASSUME ReadingInv, TagRead.ok
    PROVE  /\ TagRead.val \in Num
           /\ TagRead.next \in Nat /\ TagRead.next >= 1
<1> DEFINE t == ReadVarint(body, pos)
<1>1. TagRead = [t EXCEPT !.val = As32(@)]
  BY DEF TagRead
<1>2. DOMAIN t = {"ok", "val", "next"}
  BY DEF ReadVarint, Failed
<1>3. TagRead.ok = t.ok /\ TagRead.val = As32(t.val) /\ TagRead.next = t.next
  BY <1>1, <1>2
<1>4. body \in Seq(Byte) /\ pos \in Nat /\ pos >= 1
  BY DEF ReadingInv
<1>5. /\ \E m \in 1 .. 10 : t.val \in [1 .. m -> Group]
      /\ t.next \in Nat /\ t.next >= pos
  BY <1>3, <1>4, VarintRead
<1>6. As32(t.val) \in Num
  BY <1>5, Casts
<1> HIDE DEF t
<1>7. QED  BY <1>3, <1>4, <1>5, <1>6

(* The fields that a reader does not know stray with a tag and a value.    *)
LEMMA StrayField ==
    ASSUME NEW tag, NEW v, Straying([tag |-> tag, val |-> v])
    PROVE  [tag |-> tag, val |-> v] \in Stray
<1> DEFINE u == [tag |-> tag, val |-> v]
<1>1. u.tag = tag /\ u.val = v
  OBVIOUS
<1>2. tag \in Num /\ v \in Num \cup Seq(Byte)
  BY <1>1 DEF Straying
<1>3. u \in [tag : Num, val : Num \cup Seq(Byte)]
  BY <1>2
<1>4. QED  BY <1>3 DEF Stray

LEMMA StraysGrow ==
    ASSUME NEW u \in Seq(Stray), NEW x \in Stray
    PROVE  Append(u, x) \in Seq(Stray)
OBVIOUS

LEMMA FieldTag ==
    ASSUME NEW k \in 1 .. 8, NEW type
    PROVE  LET tag == NumOf(Tag(k, WireType(type)))
           IN  tag \in Num /\ tag # Zero /\ Wire(tag) = WireType(type)
<1> DEFINE n == Tag(k, WireType(type))
<1>1. WireType(type) \in {0, 2}
  BY DEF WireType, VARINT, LENGTH_DELIMITED
<1>2. n \in 1 .. 127 /\ n % 8 = WireType(type)
  BY <1>1 DEF Tag
<1> HIDE DEF n
<1>3. NumOf(n) = <<n>> /\ NumOf(n) \in Num
  BY <1>2, NumOfSmall, NumOfNum
<1>4. <<n>> # Zero
  BY <1>2, <1>3, NumFacts
<1>5. Wire(<<n>>) = n % 8
  BY DEF Wire
<1>6. QED  BY <1>2, <1>3, <1>4, <1>5 DEF n

LEMMA ReadFieldMInv == MInv /\ ReadField => MInv'
<1> SUFFICES ASSUME MInv, ReadField PROVE MInv'
  OBVIOUS
<1>1. Reading /\ TagRead.ok /\ SenderInv /\ ReadingInv
  BY DEF ReadField, MInv
<1>2. /\ Filled(to, name, got) /\ body \in Seq(Byte) /\ pos \in Nat /\ pos >= 1
      /\ unknown \in Seq(Stray)
  BY <1>1, ReadersFields
<1>3. TagRead.val \in Num /\ TagRead.next \in Nat /\ TagRead.next >= 1
  BY <1>1, TagIsRead
<1> DEFINE T == Types(to, name)
           r(k) == ReadPrimitive(body, TagRead.next, T[k])
<1>4. PICK k \in DOMAIN got :
         /\ IsField(TagRead.val, k)
         /\ IF ~r(k).ok \/ Refused(T[k], r(k).val) THEN Fail
            ELSE /\ pos' = r(k).next
                 /\ IF Stored(T[k], r(k).val)
                      THEN /\ got' = [got EXCEPT ![k] = r(k).val]
                           /\ UNCHANGED unknown
                      ELSE /\ unknown' = Append(unknown,
                                 [tag |-> TagRead.val, val |-> r(k).val])
                           /\ UNCHANGED got
                 /\ UNCHANGED <<sender, writing, body, open, at>>
  BY DEF ReadField
<1>5. CASE ~r(k).ok \/ Refused(T[k], r(k).val)
  BY <1>1, <1>4, <1>5, FailMInv
<1>6. CASE r(k).ok /\ ~Refused(T[k], r(k).val)
  <2> DEFINE v == r(k).val
  <2>1. /\ pos' = r(k).next /\ sender' = sender /\ writing' = writing
        /\ body' = body /\ at' = at
    BY <1>4, <1>6
  <2>2. Fitting(T[k], v) /\ r(k).next \in Nat /\ r(k).next >= TagRead.next
    BY <1>2, <1>3, <1>6, PrimitiveRead
  <2>3. PICK n \in 1 .. 8 : T \in [1 .. n -> FieldTypes]
    BY <1>1, TypesShape DEF SenderInv
  <2>4. /\ got \in [1 .. n -> Value]
        /\ \A j \in 1 .. n : got[j] = Unset(to, T[j]) \/ Fitting(T[j], got[j])
    BY <1>2, <2>3 DEF Filled
  <2>5. k \in 1 .. n /\ k \in 1 .. 8
    BY <2>4
  <2>6. at' \notin {"sender", "sent on"}
    BY <1>1, <2>1 DEF Reading
  <2>7. pos' \in Nat /\ pos' >= 1
    BY <1>3, <2>1, <2>2
  <2>8. CASE Stored(T[k], v)
    <3>1. got' = [got EXCEPT ![k] = v] /\ unknown' = unknown
      BY <1>4, <1>6, <2>8
    <3>2. v \in Value
      BY <2>2, ValueFits
    <3> HIDE DEF v, T, r
    <3>3. got' \in [1 .. n -> Value]
      BY <2>4, <3>1, <3>2
    <3>4. ASSUME NEW j \in 1 .. n
          PROVE  got'[j] = Unset(to, T[j]) \/ Fitting(T[j], got'[j])
      <4>1. got'[j] = IF j = k THEN v ELSE got[j]
        BY <2>4, <3>1
      <4>2. QED  BY <2>2, <2>4, <4>1
    <3>5. DOMAIN T = 1 .. n
      BY <2>3
    <3>6. Filled(to, name, got')
      BY <3>3, <3>4, <3>5 DEF Filled, T
    <3>7. unknown' \in Seq(Stray)
      BY <1>2, <3>1
    <3>8. QED  BY <1>1, <2>1, <2>6, <2>7, <3>6, <3>7, ReaderKept
  <2>9. CASE ~Stored(T[k], v)
    <3>1. got' = got /\ unknown' = Append(unknown, [tag |-> TagRead.val, val |-> v])
      BY <1>4, <1>6, <2>9
    <3> DEFINE tag == TagRead.val
               u == [tag |-> tag, val |-> v]
    <3>2. tag = NumOf(Tag(k, WireType(T[k])))
      BY <1>4 DEF IsField
    <3> HIDE DEF v, T, r, tag
    <3>3. tag # Zero /\ tag \in Num /\ Wire(tag) = WireType(T[k])
      BY <2>5, <3>2, FieldTag
    <3>4. u.tag = tag /\ u.val = v
      OBVIOUS
    <3>5. IF Wire(tag) = VARINT THEN v \in Num
          ELSE v \in Seq(Byte) /\ Len(v) < TextLimit
      BY <2>2, <3>3 DEF Fitting, WireType, VARINT, LENGTH_DELIMITED
    <3>6. Straying(u)
      BY <3>3, <3>4, <3>5, Zenon DEF Straying
    <3>7. u \in Stray
      BY <3>6, StrayField
    <3>8. unknown' \in Seq(Stray)
      BY <1>2, <3>1, <3>7, StraysGrow DEF tag
    <3>9. Filled(to, name, got')
      BY <1>2, <3>1
    <3>10. QED  BY <1>1, <2>1, <2>6, <2>7, <3>8, <3>9, ReaderKept
  <2>10. QED  BY <2>8, <2>9
<1>7. QED  BY <1>5, <1>6

LEMMA Skipped ==
    ASSUME NEW tag \in Num, tag # Zero, NEW p \in Nat, p >= 1, body \in Seq(Byte),
           SkipValue(tag, p).ok
    PROVE  /\ [tag |-> tag, val |-> SkipValue(tag, p).val] \in Stray
           /\ SkipValue(tag, p).next \in Nat /\ SkipValue(tag, p).next >= 1
<1> DEFINE r == SkipValue(tag, p)
<1>1. SUFFICES /\ IF Wire(tag) = VARINT THEN r.val \in Num
                  ELSE /\ r.val \in Seq(Byte)
                       /\ Wire(tag) = LENGTH_DELIMITED => Len(r.val) < TextLimit
               /\ r.next \in Nat /\ r.next >= 1
  <2> DEFINE v == r.val
             u == [tag |-> tag, val |-> v]
  <2>1. u.tag = tag /\ u.val = v
    OBVIOUS
  <2> HIDE DEF v, r
  <2>2. Straying(u)
    BY <1>1, <2>1, Zenon DEF Straying, v
  <2>3. u \in Stray
    BY <2>2, StrayField
  <2>4. QED  BY <1>1, <2>3 DEF v, r
<1>2. CASE Wire(tag) = VARINT
  <2>1. r = ReadPrimitive(body, p, "int64")
    BY <1>2 DEF SkipValue
  <2>2. Fitting("int64", r.val) /\ r.next \in Nat /\ r.next >= p
    BY <2>1, PrimitiveRead
  <2>3. r.val \in Num
    BY <2>2 DEF Fitting, IsText
  <2>4. QED  BY <1>2, <2>2, <2>3
<1>3. CASE Wire(tag) = FIXED64
  <2>1. r = ReadRaw(body, p, 8) /\ Wire(tag) # VARINT /\ Wire(tag) # LENGTH_DELIMITED
    BY <1>3 DEF SkipValue, VARINT, FIXED64, LENGTH_DELIMITED
  <2>2. r.val \in Seq(Byte) /\ r.next \in Nat /\ r.next >= p
    BY <2>1, RawRead
  <2>3. QED  BY <2>1, <2>2
<1>4. CASE Wire(tag) = LENGTH_DELIMITED
  <2>1. r = ReadText(body, p) /\ Wire(tag) # VARINT
    BY <1>4 DEF SkipValue, VARINT, FIXED64, LENGTH_DELIMITED
  <2>2. /\ r.val \in Seq(Byte) /\ Len(r.val) < TextLimit
        /\ r.next \in Nat /\ r.next >= p
    BY <2>1, TextRead
  <2>3. QED  BY <2>1, <2>2
<1>5. CASE Wire(tag) = FIXED32
  <2>1. r = ReadRaw(body, p, 4) /\ Wire(tag) # VARINT /\ Wire(tag) # LENGTH_DELIMITED
    BY <1>5 DEF SkipValue, VARINT, FIXED64, LENGTH_DELIMITED, FIXED32
  <2>2. r.val \in Seq(Byte) /\ r.next \in Nat /\ r.next >= p
    BY <2>1, RawRead
  <2>3. QED  BY <2>1, <2>2
<1>6. CASE Wire(tag) \notin {VARINT, FIXED64, LENGTH_DELIMITED, FIXED32}
  <2>1. r.val = <<>> /\ r.next = p
    BY <1>6 DEF SkipValue
  <2>2. QED  BY <1>6, <2>1
<1>7. QED  BY <1>2, <1>3, <1>4, <1>5, <1>6

LEMMA ReadUnknownMInv == MInv /\ ReadUnknown => MInv'
<1> SUFFICES ASSUME MInv, ReadUnknown PROVE MInv'
  OBVIOUS
<1>1. Reading /\ TagRead.ok /\ SenderInv /\ ReadingInv
  BY DEF ReadUnknown, MInv
<1>2. /\ Filled(to, name, got) /\ body \in Seq(Byte) /\ pos \in Nat /\ pos >= 1
      /\ unknown \in Seq(Stray)
  BY <1>1, ReadersFields
<1> DEFINE tag == TagRead.val
           p == TagRead.next
           r == SkipValue(tag, p)
           g == GroupsAfter(tag)
<1>3. tag \in Num /\ p \in Nat /\ p >= 1
  BY <1>1, TagIsRead
<1>4. /\ Len(tag) > 1 \/ tag[1] >= 8
      /\ IF r.ok /\ g[1]
           THEN /\ pos' = r.next
                /\ open' = g[2]
                /\ unknown' = Append(unknown, [tag |-> tag, val |-> r.val])
                /\ UNCHANGED <<sender, writing, body, got, at>>
           ELSE Fail
  BY DEF ReadUnknown
<1> HIDE DEF tag, p, g
<1>5. tag # Zero
  <2>1. tag = Zero <=> Len(tag) = 1 /\ tag[1] = 0
    BY <1>3, NumFacts
  <2>2. QED  BY <1>4, <2>1
<1>6. CASE ~(r.ok /\ g[1])
  BY <1>1, <1>4, <1>6, FailMInv
<1>7. CASE r.ok /\ g[1]
  <2>1. /\ pos' = r.next /\ sender' = sender /\ writing' = writing /\ body' = body
        /\ got' = got /\ at' = at
        /\ unknown' = Append(unknown, [tag |-> tag, val |-> r.val])
    BY <1>4, <1>7
  <2>2. [tag |-> tag, val |-> r.val] \in Stray /\ r.next \in Nat /\ r.next >= 1
    BY <1>2, <1>3, <1>5, <1>7, Skipped
  <2> HIDE DEF r
  <2>3. unknown' \in Seq(Stray)
    BY <1>2, <2>1, <2>2, StraysGrow
  <2>4. Filled(to, name, got')
    BY <1>2, <2>1
  <2>5. at' \notin {"sender", "sent on"} /\ pos' \in Nat /\ pos' >= 1
    BY <1>1, <2>1, <2>2 DEF Reading
  <2>6. QED  BY <1>1, <2>1, <2>3, <2>4, <2>5, ReaderKept
<1>8. QED  BY <1>6, <1>7

LEMMA EndOfBodyMInv == MInv /\ EndOfBody => MInv'
<1> SUFFICES ASSUME MInv, EndOfBody PROVE MInv'
  OBVIOUS
<1>1. Reading /\ SenderInv /\ ReadingInv
  BY DEF EndOfBody, MInv
<1>2. /\ Filled(to, name, got) /\ pos \in Nat /\ pos >= 1 /\ unknown \in Seq(Stray)
  BY <1>1, ReadersFields
<1>3. /\ sender' = sender /\ writing' = writing /\ body' = body /\ pos' = pos
      /\ got' = got /\ unknown' = unknown
  BY DEF EndOfBody, reading
<1>4. at' \in {"ok", "done", "fail"}
  BY DEF EndOfBody
<1>5. Filled(to, name, got')
  BY <1>2, <1>3
<1>6. at' \notin {"sender", "sent on"} /\ pos' \in Nat /\ pos' >= 1
      /\ unknown' \in Seq(Stray)
  BY <1>2, <1>3, <1>4
<1>7. QED  BY <1>1, <1>3, <1>5, <1>6, ReaderKept

LEMMA SendOnMInv == MInv /\ SendOn => MInv'
<1> SUFFICES ASSUME MInv, SendOn PROVE MInv'
  OBVIOUS
<1>1. /\ at = "ok" /\ from' = to /\ sent' = got /\ kept' = unknown /\ next' = 1
      /\ out' = <<>> /\ size' = 0 /\ at' = "sent on" /\ name' = name /\ to' = to
      /\ reading' = reading
  BY DEF SendOn
<1>2. /\ name \in Names /\ to \in Generations /\ Filled(to, name, got)
      /\ unknown \in Seq(Stray) /\ ReadingInv
  BY <1>1 DEF MInv, SenderInv, ReadingInv
<1>3. Filled(from', name', sent')
  BY <1>1, <1>2
<1>4. SenderInv'
  <2>1. kept' \in Seq(Stray)
    BY <1>1, <1>2
  <2>2. from' \in Generations /\ to' \in Generations /\ name' \in Names
    BY <1>1, <1>2
  <2>3. QED  BY <1>3, <2>1, <2>2, Zenon DEF SenderInv
<1>5. All' \in Nat
  <2>1. PICK n \in 1 .. 8 : Types(to, name) \in [1 .. n -> FieldTypes]
    BY <1>2, TypesShape
  <2>2. got \in [1 .. n -> Value]
    BY <1>2, <2>1 DEF Filled
  <2>3. Len(got) = n /\ Len(unknown) \in Nat
    BY <1>2, <2>2, OfLength, LenProperties
  <2>4. All' = Len(got) + Len(unknown)
    BY <1>1 DEF All, N
  <2>5. QED  BY <2>3, <2>4
<1>6. WritingInv'
  <2>1. out' = <<>> /\ next' = 1
    BY <1>1
  <2>2. out' \in Seq(Byte) /\ Len(out') = 0 /\ ~HasZero(out')
    BY <2>1 DEF HasZero
  <2>3. \A i \in 1 .. All' : ~(i < next')
    BY <1>5, <2>1
  <2>4. \A n \in Nat : 1 \in 1 .. n + 1
    OBVIOUS
  <2>5. next' \in 1 .. All' + 1
    BY <1>5, <2>1, <2>4, Zenon
  <2>6. size' = Len(out')
    BY <1>1, <2>2
  <2>7. ~HasZero(out)'
    BY <2>2 DEF HasZero
  <2>8. QED  BY <2>2, <2>3, <2>5, <2>6, <2>7, Zenon DEF WritingInv
<1>7. ReadingInv' /\ SentInv'
  <2>1. body' = body /\ pos' = pos /\ unknown' = unknown /\ at' = "sent on"
    BY <1>1 DEF reading
  <2>2. QED  BY <1>2, <2>1 DEF ReadingInv, SentInv, Sent
<1>8. QED  BY <1>4, <1>6, <1>7 DEF MInv

-----------------------------------------------------------------------------
LEMMA NextMInv == MInv /\ [Next]_vars => MInv'
<1> SUFFICES ASSUME MInv, [Next]_vars PROVE MInv'
  OBVIOUS
<1>1. CASE Write
  BY <1>1, WriteMInv
<1>2. CASE Deliver
  BY <1>2, DeliverMInv
<1>3. CASE ReadBadTag
  BY <1>3, FailMInv DEF ReadBadTag
<1>4. CASE ReadField
  BY <1>4, ReadFieldMInv
<1>5. CASE ReadUnknown
  BY <1>5, ReadUnknownMInv
<1>6. CASE EndOfBody
  BY <1>6, EndOfBodyMInv
<1>7. CASE SendOn
  BY <1>7, SendOnMInv
<1>8. CASE UNCHANGED vars
  <2>1. SenderInv /\ WritingInv /\ ReadingInv /\ SentInv
    BY DEF MInv
  <2>2. sender' = sender /\ writing' = writing /\ reading' = reading /\ at' = at
    BY <1>8 DEF vars
  <2>3. SenderInv' /\ WritingInv' /\ All' = All /\ (Foreigner' <=> Foreigner)
    BY <2>1, <2>2, SenderKept, WritingKept
  <2>4. /\ to' = to /\ name' = name /\ next' = next /\ out' = out /\ body' = body
        /\ pos' = pos /\ got' = got /\ unknown' = unknown
    BY <2>2 DEF sender, writing, reading
  <2>5. ReadingInv'
    BY <2>1, <2>2, <2>4 DEF ReadingInv
  <2>6. CString(out)' = CString(out)
    BY <2>4, CStringKept
  <2>7. SentInv'
    BY <2>1, <2>2, <2>3, <2>4, <2>6 DEF SentInv, Sent
  <2>8. QED  BY <2>3, <2>5, <2>7 DEF MInv
<1>9. QED
  BY <1>1, <1>2, <1>3, <1>4, <1>5, <1>6, <1>7, <1>8 DEF Next

LEMMA MInvAlways == Spec => []MInv
BY InitMInv, NextMInv, PTL DEF Spec

(* SizeExact, for every message of either generation, and for one that is  *)
(* sent on with its unknown fields: a buffer of ByteSize() bytes is what   *)
(* the message fills.                                                      *)
THEOREM SizesAreExact == Spec => []SizeExact
<1>1. MInv => SizeExact
  BY DEF MInv, WritingInv, SizeExact
<1>2. QED  BY <1>1, MInvAlways, PTL

(* ArrivesWhole: which messages strlen() in MakePocket() leaves whole,     *)
(* whatever their fields hold and however long their texts are.            *)
THEOREM WholeUnlessZero == Spec => []ArrivesWhole
<1>1. MInv => ArrivesWhole
  <2> SUFFICES ASSUME MInv, Sent PROVE body = out <=> \A i \in 1 .. All : ~ZeroItem(i)
    BY DEF ArrivesWhole
  <2>1. SenderInv /\ WritingInv /\ next = All + 1 /\ body = CString(out) /\ ~Foreigner
    BY DEF MInv, SentInv, Sent
  <2>2. All \in Nat
    BY <2>1, AllNat
  <2>3. HasZero(out) <=> \E i \in 1 .. All : i < next /\ ZeroItem(i)
    BY <2>1 DEF WritingInv
  <2>4. \A i \in 1 .. All : i < next
    BY <2>1, <2>2
  <2>5. body = out <=> ~HasZero(out)
    BY <2>1, CStringWhole DEF WritingInv
  <2>6. QED  BY <2>3, <2>4, <2>5
<1>2. QED  BY <1>1, MInvAlways, PTL

-----------------------------------------------------------------------------
(* Reading back what was written.                                          *)
\* The bytes of b are in s from p on, as far as s goes.
Agrees(b, s, p) == \A j \in 1 .. Len(b) : p + j - 1 <= Len(s) => s[p + j - 1] = b[j]

\* r reads v, which ends before q, unless s, of length l, is cut off there.
Reads(r, v, q, l) == IF q <= l + 1 THEN r.ok /\ r.val = v /\ r.next = q ELSE ~r.ok

LEMMA AgreesConcat ==
    ASSUME NEW a \in Seq(Byte), NEW b \in Seq(Byte), NEW s \in Seq(Byte),
           NEW p \in Nat, NEW q, q = p + Len(a), Agrees(a \o b, s, p)
    PROVE  Agrees(a, s, p) /\ Agrees(b, s, q)
<1> DEFINE k == Len(a)
           l == Len(b)
           ab == a \o b
           L == Len(s)
<1>1. /\ k \in Nat /\ l \in Nat /\ Len(ab) = k + l /\ L \in Nat /\ q = p + k
      /\ \A i \in 1 .. k + l : ab[i] = IF i <= k THEN a[i] ELSE b[i - k]
  BY ConcatProperties, LenProperties
<1> HIDE DEF ab, k, l, L
<1>2. \A j \in 1 .. k + l : p + j - 1 <= L => s[p + j - 1] = ab[j]
  BY <1>1 DEF Agrees, ab, L
<1>3. ASSUME NEW j \in 1 .. k, p + j - 1 <= L PROVE s[p + j - 1] = a[j]
  <2>1. j \in 1 .. k + l /\ j <= k
    BY <1>1
  <2>2. QED  BY <1>1, <1>2, <1>3, <2>1
<1>4. ASSUME NEW j \in 1 .. l, q + j - 1 <= L PROVE s[q + j - 1] = b[j]
  <2> DEFINE i == k + j
  <2>1. i \in 1 .. k + l /\ ~(i <= k) /\ i - k = j /\ p + i - 1 = q + j - 1
    <3>1. k \in Nat /\ l \in Nat /\ q = p + k
      BY <1>1
    <3>2. QED  BY <3>1
  <2> HIDE DEF i
  <2>2. s[p + i - 1] = ab[i] /\ ab[i] = b[i - k]
    BY <1>1, <1>2, <1>4, <2>1
  <2>3. QED  BY <2>1, <2>2
<1>5. QED  BY <1>3, <1>4 DEF Agrees, k, l, L

(* The bytes of a number, group by group.                                  *)
LEMMA VarintBytes ==
    ASSUME NEW v \in Num
    PROVE  /\ WriteVarint(v) \in Seq(Byte) /\ Len(WriteVarint(v)) = Len(v)
           /\ Len(v) \in 1 .. 10 /\ v \in [1 .. Len(v) -> Group]
           /\ \A i \in 1 .. Len(v) :
                 /\ v[i] \in 0 .. 127
                 /\ WriteVarint(v)[i] = IF i < Len(v) THEN v[i] + 128 ELSE v[i]
<1>1. WriteVarint(v) \in Seq(Byte) /\ Len(WriteVarint(v)) = Len(v)
  BY WriteVarintBytes
<1>2. v \in Seq(Group) /\ Len(v) \in 1 .. 10
  BY DEF Num, MaxVarintBytes
<1> DEFINE n == Len(v)
<1>3. v \in [1 .. n -> Group] /\ DOMAIN v = 1 .. n
  BY <1>2
<1> HIDE DEF n
<1>4. \A i \in 1 .. n : v[i] \in 0 .. 127
  BY <1>3 DEF Group
<1>5. \A i \in 1 .. n : WriteVarint(v)[i] = IF i < n THEN v[i] + 128 ELSE v[i]
  BY <1>3 DEF WriteVarint, n
<1>6. QED  BY <1>1, <1>2, <1>3, <1>4, <1>5 DEF n

LEMMA ByteInt == \A b \in Byte : b \in Int
BY DEF Byte

(* A number is read back, or fails where it is cut off.                    *)
LEMMA VarintBack ==
    ASSUME NEW v \in Num, NEW s \in Seq(Byte), NEW p \in Nat, p >= 1,
           Agrees(WriteVarint(v), s, p), NEW q, q = p + Len(v)
    PROVE  Reads(ReadVarint(s, p), v, q, Len(s))
<1> DEFINE n == Len(v)
           w == WriteVarint(v)
           L == Len(s)
           E == VarintEnds(s, p)
           e == p + n - 1
<1>1. /\ n \in 1 .. 10 /\ v \in [1 .. n -> Group] /\ v \in Seq(Group) /\ L \in Nat
      /\ Len(w) = n
      /\ \A i \in 1 .. n : v[i] \in 0 .. 127 /\ w[i] = IF i < n THEN v[i] + 128 ELSE v[i]
  BY VarintBytes, LenProperties DEF Num
<1>2. \A j \in 1 .. n : p + j - 1 <= L => s[p + j - 1] = w[j]
  BY <1>1 DEF Agrees
<1> HIDE DEF n, w, L
<1>3. E = {k \in p .. p + 9 : /\ k <= L /\ s[k] < 128
                              /\ \A i \in p .. k - 1 : s[i] >= 128}
  BY DEF VarintEnds, MaxVarintBytes, L
\* The bytes before the last are marked.
<1>4. ASSUME NEW k \in p .. e, k <= L
      PROVE  k < e => s[k] >= 128 /\ s[k] = v[k - p + 1] + 128
  <2> DEFINE j == k - p + 1
  <2>1. j \in 1 .. n /\ p + j - 1 = k /\ (k < e => j < n)
    BY <1>1
  <2> HIDE DEF j
  <2>2. s[k] = w[j]
    BY <1>2, <1>4, <2>1
  <2>3. k < e => s[k] = v[j] + 128 /\ v[j] \in 0 .. 127
    BY <1>1, <2>1, <2>2
  <2>4. ASSUME k < e PROVE s[k] >= 128 /\ s[k] = v[j] + 128
    <3> DEFINE x == v[j]
    <3>1. s[k] = x + 128 /\ x \in 0 .. 127
      BY <2>3, <2>4
    <3> HIDE DEF x
    <3>2. x + 128 >= 128
      BY <3>1
    <3>3. QED  BY <3>1, <3>2 DEF x
  <2>5. QED  BY <2>4 DEF j
<1>5. e <= L => s[e] = v[n] /\ s[e] < 128
  <2>1. n \in 1 .. n /\ ~(n < n)
    BY <1>1
  <2>2. w[n] = v[n] /\ v[n] \in 0 .. 127
    BY <1>1, <2>1
  <2>3. e <= L => s[e] = w[n]
    BY <1>2, <2>1
  <2> DEFINE x == v[n]
  <2>4. w[n] = x /\ x \in 0 .. 127
    BY <2>2
  <2> HIDE DEF x
  <2>5. x < 128
    BY <2>4
  <2>6. QED  BY <2>3, <2>4, <2>5 DEF x
<1>6. e \in Nat /\ e >= p /\ q = e + 1 /\ e <= p + 9
  <2>1. q = p + n
    BY DEF n
  <2>2. n \in 1 .. 10
    BY <1>1
  <2>3. QED  BY <2>1, <2>2
<1> HIDE DEF e, E
<1>7. CASE q <= L + 1
  <2>1. e <= L /\ e \in p .. e
    BY <1>1, <1>6, <1>7
  <2>2. \A i \in p .. e - 1 : s[i] >= 128
    <3>1. ASSUME NEW i \in p .. e - 1 PROVE s[i] >= 128
      <4>1. i \in p .. e /\ i <= L /\ i < e
        BY <1>1, <1>6, <2>1
      <4>2. QED  BY <1>4, <4>1
    <3>2. QED  BY <3>1
  <2>3. E = {e}
    <3>1. e \in E
      BY <1>3, <1>5, <1>6, <2>1, <2>2
    <3>2. ASSUME NEW k \in E PROVE k = e
      <4>1. k \in p .. p + 9 /\ k <= L /\ s[k] < 128 /\ \A i \in p .. k - 1 : s[i] >= 128
        BY <1>3
      <4>2. CASE k < e
        <5>1. k \in p .. e
          BY <1>6, <4>1, <4>2
        <5>2. s[k] = v[k - p + 1] + 128 /\ s[k] >= 128
          BY <1>4, <4>1, <4>2, <5>1
        <5>3. k \in 1 .. L
          BY <4>1
        <5>4. s[k] \in Byte
          BY <5>3, ElementOfSeq DEF L
        <5>5. s[k] \in Int
          BY <5>4, ByteInt
        <5>6. QED  BY <4>1, <5>2, <5>5
      <4>3. CASE k > e
        <5>1. e \in p .. k - 1
          BY <1>6, <4>1, <4>3
        <5>2. s[e] >= 128
          BY <4>1, <5>1
        <5>3. s[e] < 128 /\ s[e] \in Int
          <6>1. n \in 1 .. n
            BY <1>1
          <6>2. v[n] \in 0 .. 127
            BY <1>1, <6>1
          <6>3. QED  BY <1>5, <2>1, <6>2
        <5>4. QED  BY <5>2, <5>3
      <4>4. QED  BY <1>6, <4>1, <4>2, <4>3
    <3>3. QED  BY <3>1, <3>2
  <2>4. (CHOOSE k \in E : TRUE) = e /\ E # {}
    BY <2>3
  <2>5. ReadVarint(s, p) = [ok |-> TRUE, next |-> e + 1,
                            val |-> [i \in 1 .. e - p + 1 |-> s[p + i - 1] % 128]]
    BY <2>4 DEF ReadVarint, E
  <2>6. e - p + 1 = n
    BY <1>1, <1>6 DEF e
  <2> DEFINE x == [i \in 1 .. n |-> s[p + i - 1] % 128]
  <2>7. ASSUME NEW i \in 1 .. n PROVE s[p + i - 1] % 128 = v[i]
    <3>1. p + i - 1 <= L
      BY <1>1, <2>1, <2>6
    <3>2. s[p + i - 1] = w[i]
      BY <1>2, <3>1
    <3>3. \A g \in 0 .. 127 : (g + 128) % 128 = g /\ g % 128 = g
      OBVIOUS
    <3>4. v[i] \in 0 .. 127 /\ (w[i] = v[i] + 128 \/ w[i] = v[i])
      BY <1>1
    <3>5. QED  BY <3>2, <3>3, <3>4
  <2>8. x = v
    BY <1>1, <2>7
  <2>9. ReadVarint(s, p).ok /\ ReadVarint(s, p).val = x /\ ReadVarint(s, p).next = e + 1
    BY <2>5, <2>6
  <2> HIDE DEF x
  <2>10. QED  BY <1>6, <1>7, <2>8, <2>9 DEF Reads, L
<1>8. CASE ~(q <= L + 1)
  <2>1. L < e
    BY <1>1, <1>6, <1>8
  <2>2. E = {}
    <3>1. ASSUME NEW k \in E PROVE FALSE
      <4>1. k \in p .. p + 9 /\ k <= L /\ s[k] < 128
        BY <1>3
      <4>2. k \in p .. e /\ k < e
        BY <1>1, <1>6, <2>1, <4>1
      <4>3. s[k] >= 128
        BY <1>4, <4>1, <4>2
      <4>4. k \in 1 .. L
        BY <4>1
      <4>5. s[k] \in Byte
        BY <4>4, ElementOfSeq DEF L
      <4>6. s[k] \in Int
        BY <4>5, ByteInt
      <4>7. QED  BY <4>1, <4>3, <4>6
    <3>2. QED  BY <3>1
  <2>3. ~ReadVarint(s, p).ok
    BY <2>2 DEF ReadVarint, Failed, E
  <2>4. QED  BY <1>8, <2>3 DEF Reads, L
<1>9. QED  BY <1>7, <1>8

(* So are some bytes.                                                      *)
LEMMA RawBack ==
    ASSUME NEW b \in Seq(Byte), NEW s \in Seq(Byte), NEW p \in Nat, p >= 1,
           Agrees(b, s, p), NEW n, n = Len(b), NEW q, q = p + n
    PROVE  Reads(ReadRaw(s, p, n), b, q, Len(s))
<1> DEFINE L == Len(s)
<1>1. n \in Nat /\ L \in Nat
  BY LenProperties
<1>2. CASE q <= L + 1
  <2>1. ~(p + n - 1 > L)
    BY <1>1, <1>2
  <2>2. ReadRaw(s, p, n) = [ok |-> TRUE, val |-> SubSeq(s, p, p + n - 1), next |-> p + n]
    BY <2>1 DEF ReadRaw
  <2> DEFINE c == SubSeq(s, p, p + n - 1)
  <2>3. c \in Seq(Byte) /\ Len(c) = n /\ \A i \in 1 .. n : c[i] = s[p + i - 1]
    <3>1. \A i \in p .. p + n - 1 : s[i] \in Byte
      <4>1. \A i \in p .. p + n - 1 : i \in 1 .. L
        BY <1>1, <2>1
      <4>2. QED  BY <4>1, ElementOfSeq
    <3> DEFINE m == p + n - 1
    <3>2. m \in Int /\ p \in Int /\ m - p + 1 = n /\ (p <= m \/ n = 0)
      BY <1>1
    <3> HIDE DEF m
    <3>3. /\ SubSeq(s, p, m) \in Seq(Byte)
          /\ Len(SubSeq(s, p, m)) = IF p <= m THEN m - p + 1 ELSE 0
          /\ \A i \in 1 .. m - p + 1 : SubSeq(s, p, m)[i] = s[p + i - 1]
      BY <3>1, <3>2, SubSeqProperties DEF m
    <3>4. Len(SubSeq(s, p, m)) = n
      BY <3>2, <3>3
    <3>5. QED  BY <3>2, <3>3, <3>4 DEF m
  <2>4. \A i \in 1 .. n : c[i] = b[i]
    <3>1. ASSUME NEW i \in 1 .. n PROVE c[i] = b[i]
      <4>1. p + i - 1 <= L /\ i \in 1 .. Len(b)
        BY <1>1, <2>1
      <4>2. s[p + i - 1] = b[i]
        BY <4>1 DEF Agrees
      <4>3. QED  BY <2>3, <4>2
    <3>2. QED  BY <3>1
  <2> HIDE DEF c
  <2>5. c = b
    BY <2>3, <2>4, SeqEqual
  <2>6. QED  BY <1>2, <2>2, <2>5 DEF Reads, c
<1>3. CASE ~(q <= L + 1)
  <2>1. p + n - 1 > L
    BY <1>1, <1>3
  <2>2. QED  BY <1>3, <2>1 DEF ReadRaw, Failed, Reads
<1>4. QED  BY <1>2, <1>3

(* A length below 2^28 has no bit in its fifth group.                      *)
LEMMA LastGroup ==
    ASSUME NEW x \in Nat
    PROVE  /\ x = 128 * (x \div 128) + (x % 128)
           /\ x \div 128 \in Nat /\ x % 128 \in 0 .. 127
BY SMT

(* The length before a text survives the five groups it is taken from.     *)
LEMMA SizeBack ==
    ASSUME NEW n \in Nat, n < TextLimit
    PROVE  /\ Low32(NumOf(n))[5] = 0 /\ TextSize(Low32(NumOf(n))) = n
           /\ As32(NumOf(n)) = NumOf(n)
<1> DEFINE l == [i \in 1 .. 5 |-> (n \div Weights[i]) % 128]
<1>1. \A i \in 1 .. 5 : Weights[i] \in Nat \ {0}
  BY DEF Weights
<1>2. ASSUME NEW i \in 1 .. 5 PROVE (n \div Weights[i]) % 128 \in 0 .. 127
  <2>1. n \div Weights[i] \in Nat
    BY <1>1
  <2>2. QED  BY <2>1
<1>3. l \in [1 .. 5 -> Group]
  BY <1>2 DEF Group
<1>4. NumOf(n) = Trimmed(l)
  BY DEF NumOf
<1>5. l[1] = n % 128 /\ l[2] = (n \div 128) % 128 /\ l[3] = (n \div 16384) % 128
      /\ l[4] = (n \div 2097152) % 128 /\ l[5] = (n \div 268435456) % 128
  BY DEF Weights
<1> HIDE DEF l
<1>6. n < 268435456
  BY SMT DEF TextLimit
<1>7. l[5] = 0
  <2>1. n \div 268435456 = 0
    BY <1>6, SMT
  <2>2. QED  BY <1>5, <2>1, SMT
<1>8. l \in Groups32
  BY <1>3, <1>7 DEF Groups32
<1>9. Low32(NumOf(n)) = l
  BY <1>4, <1>8, Low32Trimmed
<1>10. TextSize(l) = n
  <2> DEFINE a == n \div 128
             b == a \div 128
             c == b \div 128
             x == n % 128
             y == a % 128
             z == b % 128
  <2>1. n = 128 * a + x /\ a \in Nat /\ x \in 0 .. 127
    BY LastGroup
  <2>2. a = 128 * b + y /\ b \in Nat /\ y \in 0 .. 127
    BY <2>1, LastGroup
  <2>3. b = 128 * c + z /\ c \in Nat /\ z \in 0 .. 127
    BY <2>2, LastGroup
  <2>4. n \div 16384 = b
    BY SMT
  <2>5. n \div 2097152 = c
    <3>1. n \div 2097152 = (n \div 16384) \div 128
      BY SMT
    <3>2. QED  BY <2>4, <3>1
  <2> HIDE DEF c
  <2>6. c < 128
    <3> HIDE DEF a, b, x, y, z
    <3>1. n >= 2097152 * c
      BY <2>1, <2>2, <2>3, SMT
    <3>2. QED  BY <1>6, <2>3, <3>1, SMT
  <2>7. c % 128 = c
    BY <2>3, <2>6, SMT
  <2>8. l[1] = x /\ l[2] = y /\ l[3] = z /\ l[4] = c
    BY <1>5, <2>4, <2>5, <2>7
  <2> HIDE DEF a, b, x, y, z
  <2>9. TextSize(l) = x + 128 * y + 16384 * z + 2097152 * c
    BY <2>8, SMT DEF TextSize
  <2>10. QED  BY <2>1, <2>2, <2>3, <2>9, SMT
<1>11. As32(NumOf(n)) = NumOf(n)
  BY <1>4, <1>9 DEF As32
<1>12. QED  BY <1>7, <1>9, <1>10, <1>11

(* A text is read back, length and all.                                    *)
LEMMA TextBack ==
    ASSUME NEW v \in Seq(Byte), Len(v) < TextLimit,
           NEW s \in Seq(Byte), NEW p \in Nat, p >= 1,
           Agrees(WriteText(v), s, p), NEW q, q = p + Len(WriteText(v))
    PROVE  Reads(ReadText(s, p), v, q, Len(s))
<1> DEFINE n == Len(v)
           m == NumOf(n)
           w == WriteVarint(m)
           p2 == p + Len(m)
           L == Len(s)
           r == ReadVarint(s, p)
<1>1. n \in Nat /\ n < TextLimit /\ L \in Nat
  BY LenProperties
<1>2. m \in Num /\ Low32(m)[5] = 0 /\ TextSize(Low32(m)) = n
  BY <1>1, NumOfNum, SizeBack
<1> HIDE DEF m
<1>3. w \in Seq(Byte) /\ Len(w) = Len(m) /\ Len(m) \in 1 .. 10
  BY <1>2, VarintBytes
<1>4. WriteText(v) = w \o v
  BY DEF WriteText, m
<1> HIDE DEF w, n, L
<1>5. Agrees(w, s, p) /\ Agrees(v, s, p2)
  <2>1. p2 = p + Len(w)
    BY <1>3
  <2>2. Agrees(w \o v, s, p)
    BY <1>4
  <2> HIDE DEF p2
  <2>3. QED  BY <1>3, <2>1, <2>2, AgreesConcat
<1>6. q = p2 + n /\ p2 \in Nat /\ p2 >= 1
  <2>1. Len(w \o v) = Len(w) + n
    BY <1>3, ConcatProperties DEF n
  <2>2. QED  BY <1>1, <1>3, <1>4, <2>1
<1>7. Reads(r, m, p2, L)
  BY <1>2, <1>5, VarintBack DEF w, L
<1> HIDE DEF p2
<1>8. CASE p2 <= L + 1
  <2>1. r.ok /\ r.val = m /\ r.next = p2
    BY <1>7, <1>8 DEF Reads
  <2>2. ReadText(s, p) = ReadRaw(s, p2, n)
    BY <1>2, <2>1 DEF ReadText
  <2>3. Reads(ReadRaw(s, p2, n), v, q, L)
    BY <1>1, <1>5, <1>6, RawBack DEF n, L
  <2>4. QED  BY <2>2, <2>3 DEF L
<1>9. CASE ~(p2 <= L + 1)
  <2>1. ~r.ok
    BY <1>7, <1>9 DEF Reads
  <2>2. ~ReadText(s, p).ok
    BY <2>1 DEF ReadText, Failed
  <2>3. ~(q <= L + 1)
    BY <1>1, <1>6, <1>9
  <2>4. QED  BY <2>2, <2>3 DEF Reads, L
<1>10. QED  BY <1>8, <1>9

(* The bytes of a value as ReadPrimitive() reads them.                     *)
ValueBytes(type, v) == IF IsText(type) THEN WriteText(v) ELSE WriteVarint(v)

(* The value of a field is read back as its type holds it.                 *)
LEMMA PrimitiveBack ==
    ASSUME NEW type, NEW v, Fitting(type, v),
           NEW s \in Seq(Byte), NEW p \in Nat, p >= 1,
           Agrees(ValueBytes(type, v), s, p), NEW q, q = p + Len(ValueBytes(type, v))
    PROVE  Reads(ReadPrimitive(s, p, type), v, q, Len(s))
<1>1. CASE IsText(type)
  <2>1. v \in Seq(Byte) /\ Len(v) < TextLimit
    BY <1>1 DEF Fitting
  <2>2. ReadPrimitive(s, p, type) = ReadText(s, p)
    BY <1>1 DEF ReadPrimitive
  <2>3. Agrees(WriteText(v), s, p) /\ q = p + Len(WriteText(v))
    BY <1>1 DEF ValueBytes
  <2>4. Reads(ReadText(s, p), v, q, Len(s))
    BY <2>1, <2>3, TextBack
  <2>5. QED  BY <2>2, <2>4
<1>2. CASE ~IsText(type)
  <2> DEFINE n == ReadVarint(s, p)
  <2>1. v \in Num /\ CastTo(type, v) = v
    BY <1>2 DEF Fitting
  <2>2. Agrees(WriteVarint(v), s, p) /\ q = p + Len(WriteVarint(v))
    BY <1>2 DEF ValueBytes
  <2>3. q = p + Len(v)
    BY <2>1, <2>2, VarintBytes
  <2>4. Reads(n, v, q, Len(s))
    BY <2>1, <2>2, <2>3, VarintBack
  <2>5. DOMAIN n = {"ok", "val", "next"}
    BY DEF ReadVarint, Failed
  <2>6. ReadPrimitive(s, p, type) = IF n.ok THEN [n EXCEPT !.val = CastTo(type, @)]
                                    ELSE Failed
    BY <1>2 DEF ReadPrimitive
  <2> HIDE DEF n
  <2>7. CASE q <= Len(s) + 1
    <3>1. n.ok /\ n.val = v /\ n.next = q
      BY <2>4, <2>7 DEF Reads
    <3>2. ReadPrimitive(s, p, type) = [n EXCEPT !.val = v]
      BY <2>1, <2>6, <3>1
    <3>3. QED  BY <2>5, <2>7, <3>1, <3>2 DEF Reads
  <2>8. CASE ~(q <= Len(s) + 1)
    BY <2>4, <2>6, <2>8 DEF Reads, Failed
  <2>9. QED  BY <2>7, <2>8
<1>3. QED  BY <1>1, <1>2

-----------------------------------------------------------------------------
(* An unknown field, as a reader leaves it and can read it again.          *)
Wired(u) ==
    /\ u.tag \in Num /\ u.tag = As32(u.tag) /\ (Len(u.tag) > 1 \/ u.tag[1] >= 8)
    /\ Wire(u.tag) \in {VARINT, FIXED64, LENGTH_DELIMITED, START_GROUP, END_GROUP, FIXED32}
    /\ Wire(u.tag) = VARINT => u.val \in Num
    /\ Wire(u.tag) = FIXED64 => u.val \in Seq(Byte) /\ Len(u.val) = 8
    /\ Wire(u.tag) = LENGTH_DELIMITED => u.val \in Seq(Byte) /\ Len(u.val) < TextLimit
    /\ Wire(u.tag) \in {START_GROUP, END_GROUP} => u.val = <<>>
    /\ Wire(u.tag) = FIXED32 => u.val \in Seq(Byte) /\ Len(u.val) = 4

\* The bytes after the tag.
AfterTag(u) == IF Wire(u.tag) = VARINT THEN WriteVarint(u.val)
               ELSE IF Wire(u.tag) = LENGTH_DELIMITED THEN WriteText(u.val)
               ELSE u.val

(* An unknown field is its tag and what follows.                           *)
LEMMA AfterTagBytes ==
    ASSUME NEW u, Wired(u)
    PROVE  /\ AfterTag(u) \in Seq(Byte)
           /\ UnknownBytes(u) = WriteVarint(u.tag) \o AfterTag(u)
<1>1. UnknownBytes(u) = WriteVarint(u.tag) \o AfterTag(u)
  BY DEF UnknownBytes, AfterTag
<1>2. CASE Wire(u.tag) = VARINT
  <2>1. u.val \in Num /\ AfterTag(u) = WriteVarint(u.val)
    BY <1>2 DEF Wired, AfterTag
  <2>2. QED  BY <1>1, <2>1, VarintBytes
<1>3. CASE Wire(u.tag) # VARINT /\ Wire(u.tag) = LENGTH_DELIMITED
  <2>1. u.val \in Seq(Byte) /\ Len(u.val) < TextLimit /\ AfterTag(u) = WriteText(u.val)
    BY <1>3 DEF Wired, AfterTag
  <2>2. QED  BY <1>1, <2>1, WriteTextBytes
<1>4. CASE Wire(u.tag) # VARINT /\ Wire(u.tag) # LENGTH_DELIMITED
  <2>1. AfterTag(u) = u.val
    BY <1>4 DEF AfterTag
  <2>2. <<>> \in Seq(Byte)
    OBVIOUS
  <2>3. u.val \in Seq(Byte)
    BY <1>4, <2>2, Zenon DEF Wired
  <2>4. QED  BY <1>1, <2>1, <2>3
<1>5. QED  BY <1>2, <1>3, <1>4

(* The tag of an item is read back, and what follows begins after it.      *)
LEMMA TagBack ==
    ASSUME NEW u, Wired(u), body \in Seq(Byte), pos \in Nat, pos >= 1,
           Agrees(UnknownBytes(u), body, pos), NEW q, q = pos + Len(u.tag)
    PROVE  /\ q \in Nat /\ q > pos /\ Agrees(AfterTag(u), body, q)
           /\ pos + Len(UnknownBytes(u)) = q + Len(AfterTag(u))
           /\ Reads(TagRead, u.tag, q, Len(body))
<1> DEFINE w == WriteVarint(u.tag)
           b == AfterTag(u)
           L == Len(body)
           t == ReadVarint(body, pos)
<1>1. u.tag \in Num /\ u.tag = As32(u.tag)
  BY DEF Wired
<1>2. w \in Seq(Byte) /\ Len(w) = Len(u.tag) /\ Len(w) \in 1 .. 10
  BY <1>1, VarintBytes
<1>3. b \in Seq(Byte) /\ UnknownBytes(u) = w \o b
  BY AfterTagBytes
<1> HIDE DEF w, b
<1>4. q = pos + Len(w) /\ q \in Nat /\ q > pos
  <2> DEFINE n == Len(w)
  <2>1. n \in 1 .. 10 /\ q = pos + n
    BY <1>2
  <2> HIDE DEF n
  <2>2. q \in Nat /\ q > pos
    BY <2>1
  <2>3. QED  BY <2>1, <2>2 DEF n
<1>5. Agrees(w \o b, body, pos)
  BY <1>3
<1>6. Agrees(w, body, pos) /\ Agrees(b, body, q)
  BY <1>2, <1>3, <1>4, <1>5, AgreesConcat
<1>7. Len(w \o b) = Len(w) + Len(b) /\ Len(b) \in Nat
  BY <1>2, <1>3, ConcatProperties, LenProperties
<1>8. pos + Len(UnknownBytes(u)) = q + Len(b)
  BY <1>2, <1>3, <1>4, <1>7
<1>9. Reads(t, u.tag, q, L)
  BY <1>1, <1>6, VarintBack DEF w
<1>10. DOMAIN t = {"ok", "val", "next"} /\ TagRead = [t EXCEPT !.val = As32(@)]
  BY DEF ReadVarint, Failed, TagRead
<1> HIDE DEF t
<1>11. TagRead.ok = t.ok /\ TagRead.next = t.next /\ TagRead.val = As32(t.val)
  BY <1>10
<1>12. Reads(TagRead, u.tag, q, L)
  BY <1>1, <1>9, <1>11 DEF Reads
<1>13. QED  BY <1>4, <1>6, <1>8, <1>12 DEF b

(* So is the value that SkipField() takes over.                            *)
LEMMA SkippedBack ==
    ASSUME NEW u, Wired(u), body \in Seq(Byte), NEW p \in Nat, p >= 1,
           p <= Len(body) + 1, Agrees(AfterTag(u), body, p),
           NEW q, q = p + Len(AfterTag(u))
    PROVE  Reads(SkipValue(u.tag, p), u.val, q, Len(body))
<1> DEFINE r == SkipValue(u.tag, p)
           b == AfterTag(u)
           L == Len(body)
<1>1. L \in Nat
  BY LenProperties
<1>2. CASE Wire(u.tag) = VARINT
  <2>1. u.val \in Num /\ b = WriteVarint(u.val) /\ r = ReadPrimitive(body, p, "int64")
    BY <1>2 DEF Wired, AfterTag, SkipValue
  <2>2. Fitting("int64", u.val)
    BY <2>1, Kept64 DEF Fitting, CastTo, IsText
  <2>3. ValueBytes("int64", u.val) = b
    BY <2>1 DEF ValueBytes, IsText
  <2>4. Agrees(ValueBytes("int64", u.val), body, p)
        /\ q = p + Len(ValueBytes("int64", u.val))
    BY <2>3
  <2>5. Reads(ReadPrimitive(body, p, "int64"), u.val, q, L)
    BY <2>2, <2>4, PrimitiveBack
  <2>6. QED  BY <2>1, <2>5
<1>3. CASE Wire(u.tag) = LENGTH_DELIMITED
  <2>1. u.val \in Seq(Byte) /\ Len(u.val) < TextLimit /\ b = WriteText(u.val)
        /\ r = ReadText(body, p)
    BY <1>3 DEF Wired, AfterTag, SkipValue, VARINT, FIXED64, LENGTH_DELIMITED
  <2>2. Agrees(WriteText(u.val), body, p) /\ q = p + Len(WriteText(u.val))
    BY <2>1
  <2>3. Reads(ReadText(body, p), u.val, q, L)
    BY <2>1, <2>2, TextBack
  <2>4. QED  BY <2>1, <2>3
<1>4. CASE Wire(u.tag) = FIXED64
  <2>1. u.val \in Seq(Byte) /\ Len(u.val) = 8 /\ b = u.val /\ r = ReadRaw(body, p, 8)
    BY <1>4 DEF Wired, AfterTag, SkipValue, VARINT, FIXED64, LENGTH_DELIMITED
  <2>2. Reads(ReadRaw(body, p, 8), u.val, q, L)
    BY <2>1, RawBack
  <2>3. QED  BY <2>1, <2>2
<1>5. CASE Wire(u.tag) = FIXED32
  <2>1. u.val \in Seq(Byte) /\ Len(u.val) = 4 /\ b = u.val /\ r = ReadRaw(body, p, 4)
    BY <1>5 DEF Wired, AfterTag, SkipValue, VARINT, FIXED64, LENGTH_DELIMITED,
       FIXED32
  <2>2. Reads(ReadRaw(body, p, 4), u.val, q, L)
    BY <2>1, RawBack
  <2>3. QED  BY <2>1, <2>2
<1>6. CASE Wire(u.tag) \in {START_GROUP, END_GROUP}
  <2>1. u.val = <<>> /\ b = <<>> /\ r = [ok |-> TRUE, val |-> <<>>, next |-> p]
    <3>1. Wire(u.tag) \notin {VARINT, FIXED64, LENGTH_DELIMITED, FIXED32}
      BY <1>6 DEF VARINT, FIXED64, LENGTH_DELIMITED, FIXED32, START_GROUP,
         END_GROUP
    <3>2. u.val = <<>>
      BY <1>6 DEF Wired
    <3>3. QED  BY <1>6, <3>1, <3>2 DEF AfterTag, SkipValue
  <2>2. q = p
    BY <2>1
  <2>3. QED  BY <2>1, <2>2 DEF Reads
<1>7. QED  BY <1>2, <1>3, <1>4, <1>5, <1>6 DEF Wired

\* A field of the schema, as an item like the others.
FieldTagOf(k, type) == NumOf(Tag(k, WireType(type)))
FieldItem(k, type, v) == [tag |-> FieldTagOf(k, type), val |-> v]

(* The tag of a field has one byte, with its number and its wire type.     *)
LEMMA FieldTags ==
    ASSUME NEW k \in 1 .. 8, NEW type
    PROVE  \E n \in 8 .. 127 : /\ n = 8 * k + WireType(type)
                               /\ FieldTagOf(k, type) = <<n>>
                               /\ n % 8 = WireType(type) /\ n \div 8 = k
<1> DEFINE n == Tag(k, WireType(type))
<1>1. WireType(type) \in {0, 2}
  BY DEF WireType, VARINT, LENGTH_DELIMITED
<1>2. n \in 8 .. 127 /\ n = 8 * k + WireType(type) /\ n % 8 = WireType(type) /\ n \div 8 = k
  BY <1>1 DEF Tag
<1> HIDE DEF n
<1>3. n \in 1 .. 127
  BY <1>2
<1>4. NumOf(n) = <<n>>
  BY <1>3, NumOfSmall
<1>5. QED  BY <1>2, <1>4 DEF FieldTagOf, n

(* The tags of two fields differ.                                          *)
LEMMA TagsDiffer ==
    ASSUME NEW k \in 1 .. 8, NEW type, NEW l \in 1 .. 8, NEW other,
           FieldTagOf(k, type) = FieldTagOf(l, other)
    PROVE  k = l /\ WireType(type) = WireType(other)
<1>1. PICK n \in 8 .. 127 : /\ FieldTagOf(k, type) = <<n>>
                            /\ n % 8 = WireType(type) /\ n \div 8 = k
  BY FieldTags
<1>2. PICK m \in 8 .. 127 : /\ FieldTagOf(l, other) = <<m>>
                            /\ m % 8 = WireType(other) /\ m \div 8 = l
  BY FieldTags
<1>3. <<n>> = <<m>>
  BY <1>1, <1>2
<1>4. n = m
  BY <1>3
<1>5. QED  BY <1>1, <1>2, <1>4

(* A field is written like an unknown field of its tag.                    *)
LEMMA FieldIsItem ==
    ASSUME NEW k \in 1 .. 8, NEW type, NEW v, Fitting(type, v)
    PROVE  /\ Wired(FieldItem(k, type, v))
           /\ FieldBytes(k, type, v) = UnknownBytes(FieldItem(k, type, v))
           /\ AfterTag(FieldItem(k, type, v)) = ValueBytes(type, v)
<1> DEFINE u == FieldItem(k, type, v)
           tag == FieldTagOf(k, type)
<1>1. PICK n \in 8 .. 127 : /\ n = 8 * k + WireType(type) /\ tag = <<n>>
                            /\ n % 8 = WireType(type)
  BY FieldTags
<1>2. tag \in Num /\ Wire(tag) = WireType(type)
  BY FieldTag DEF FieldTagOf
<1>3. u.tag = tag /\ u.val = v
  BY DEF FieldItem
<1>4. As32(tag) = tag
  <2>1. n \in Nat /\ n < TextLimit
    BY SMT DEF TextLimit
  <2>2. tag = NumOf(n)
    BY <1>1 DEF FieldTagOf, Tag
  <2>3. QED  BY <2>1, <2>2, SizeBack
<1>5. Len(tag) > 1 \/ tag[1] >= 8
  <2>1. tag[1] = n
    BY <1>1
  <2>2. QED  BY <2>1
<1>6. WriteVarint(tag) = <<n>>
  <2>1. WriteVarint(tag) = [i \in 1 .. 1 |-> IF i < 1 THEN <<n>>[i] + 128 ELSE <<n>>[i]]
    BY <1>1 DEF WriteVarint
  <2>2. [i \in 1 .. 1 |-> IF i < 1 THEN <<n>>[i] + 128 ELSE <<n>>[i]] \in Seq(Nat)
        /\ Len([i \in 1 .. 1 |-> IF i < 1 THEN <<n>>[i] + 128 ELSE <<n>>[i]]) = 1
    OBVIOUS
  <2>3. QED  BY <2>1, <2>2, OneElement
<1> HIDE DEF u, tag
<1>7. CASE IsText(type)
  <2>1. WireType(type) = LENGTH_DELIMITED
    BY <1>7 DEF WireType
  <2>2. v \in Seq(Byte) /\ Len(v) < TextLimit
    BY <1>7 DEF Fitting
  <2>3. Wired(u)
    BY <1>2, <1>3, <1>4, <1>5, <2>1, <2>2
       DEF Wired, VARINT, FIXED64, LENGTH_DELIMITED, FIXED32, START_GROUP, END_GROUP
  <2>4. UnknownBytes(u) = <<n>> \o WriteText(v)
    BY <1>2, <1>3, <1>6, <2>1 DEF UnknownBytes, VARINT, LENGTH_DELIMITED
  <2>5. FieldBytes(k, type, v) = <<n>> \o WriteText(v)
    BY <1>1, <1>7 DEF FieldBytes, Tag
  <2>6. AfterTag(u) = ValueBytes(type, v)
    BY <1>2, <1>3, <1>7, <2>1 DEF AfterTag, ValueBytes, VARINT,
       LENGTH_DELIMITED
  <2>7. QED  BY <2>3, <2>4, <2>5, <2>6 DEF u
<1>8. CASE ~IsText(type)
  <2>1. WireType(type) = VARINT
    BY <1>8 DEF WireType
  <2>2. v \in Num
    BY <1>8 DEF Fitting
  <2>3. Wired(u)
    BY <1>2, <1>3, <1>4, <1>5, <2>1, <2>2
       DEF Wired, VARINT, FIXED64, LENGTH_DELIMITED, FIXED32, START_GROUP, END_GROUP
  <2>4. UnknownBytes(u) = <<n>> \o WriteVarint(v)
    BY <1>2, <1>3, <1>6, <2>1 DEF UnknownBytes
  <2>5. FieldBytes(k, type, v) = <<n>> \o WriteVarint(v)
    BY <1>1, <1>8 DEF FieldBytes, Tag
  <2>6. AfterTag(u) = ValueBytes(type, v)
    BY <1>2, <1>3, <1>8, <2>1 DEF AfterTag, ValueBytes
  <2>7. QED  BY <2>3, <2>4, <2>5, <2>6 DEF u
<1>9. QED  BY <1>7, <1>8

-----------------------------------------------------------------------------
(* The two generations number the same fields alike, and differ only in    *)
(* the numbers and the texts that they accept in one.                      *)
Alike(a, b) == /\ IsText(a) <=> IsText(b)
               /\ a = "int64" <=> b = "int64"
               /\ a = "bool" <=> b = "bool"

AlikeFields(s, t) == \E n \in 1 .. 8 : /\ DOMAIN s = 1 .. n /\ DOMAIN t = 1 .. n
                                       /\ \A k \in 1 .. n : Alike(s[k], t[k])

(* So it is in each message.                                               *)
LEMMA MessagesAlike ==
    ASSUME NEW m \in Names
    PROVE  AlikeFields(Data!Fields[m], Plat!Fields[m])
<1>1. CASE m = "LoginRequest"
  <2>1. Data!Fields[m] = Data!LoginRequest /\ Plat!Fields[m] = Plat!LoginRequest
    BY <1>1 DEF Data!Fields, Plat!Fields
  <2>2. AlikeFields(Data!LoginRequest, Plat!LoginRequest)
    BY DEF AlikeFields, Alike, IsText, Data!LoginRequest, Plat!LoginRequest
  <2>3. QED  BY <2>1, <2>2
<1>2. CASE m = "LoginResponse"
  <2>1. Data!Fields[m] = Data!LoginResponse /\ Plat!Fields[m] = Plat!LoginResponse
    BY <1>2 DEF Data!Fields, Plat!Fields
  <2>2. AlikeFields(Data!LoginResponse, Plat!LoginResponse)
    BY DEF AlikeFields, Alike, IsText, Data!LoginResponse, Plat!LoginResponse
  <2>3. QED  BY <2>1, <2>2
<1>3. CASE m = "QuitRequest"
  <2>1. Data!Fields[m] = Data!QuitRequest /\ Plat!Fields[m] = Plat!QuitRequest
    BY <1>3 DEF Data!Fields, Plat!Fields
  <2>2. AlikeFields(Data!QuitRequest, Plat!QuitRequest)
    BY DEF AlikeFields, Alike, IsText, Data!QuitRequest, Plat!QuitRequest
  <2>3. QED  BY <2>1, <2>2
<1>4. CASE m = "QuitResponse"
  <2>1. Data!Fields[m] = Data!QuitResponse /\ Plat!Fields[m] = Plat!QuitResponse
    BY <1>4 DEF Data!Fields, Plat!Fields
  <2>2. AlikeFields(Data!QuitResponse, Plat!QuitResponse)
    BY DEF AlikeFields, Alike, IsText, Data!QuitResponse, Plat!QuitResponse
  <2>3. QED  BY <2>1, <2>2
<1>5. CASE m = "LoginSubGameRequest"
  <2>1. Data!Fields[m] = Data!LoginSubGameRequest /\ Plat!Fields[m] = Plat!LoginSubGameRequest
    BY <1>5 DEF Data!Fields, Plat!Fields
  <2>2. AlikeFields(Data!LoginSubGameRequest, Plat!LoginSubGameRequest)
    BY DEF AlikeFields, Alike, IsText, Data!LoginSubGameRequest,
       Plat!LoginSubGameRequest
  <2>3. QED  BY <2>1, <2>2
<1>6. CASE m = "LoginSubGameResponse"
  <2>1. Data!Fields[m] = Data!LoginSubGameResponse /\ Plat!Fields[m] = Plat!LoginSubGameResponse
    BY <1>6 DEF Data!Fields, Plat!Fields
  <2>2. AlikeFields(Data!LoginSubGameResponse, Plat!LoginSubGameResponse)
    BY DEF AlikeFields, Alike, IsText, Data!LoginSubGameResponse,
       Plat!LoginSubGameResponse
  <2>3. QED  BY <2>1, <2>2
<1>7. CASE m = "QuitSubGameRequest"
  <2>1. Data!Fields[m] = Data!QuitSubGameRequest /\ Plat!Fields[m] = Plat!QuitSubGameRequest
    BY <1>7 DEF Data!Fields, Plat!Fields
  <2>2. AlikeFields(Data!QuitSubGameRequest, Plat!QuitSubGameRequest)
    BY DEF AlikeFields, Alike, IsText, Data!QuitSubGameRequest,
       Plat!QuitSubGameRequest
  <2>3. QED  BY <2>1, <2>2
<1>8. CASE m = "QuitSubGameResponse"
  <2>1. Data!Fields[m] = Data!QuitSubGameResponse /\ Plat!Fields[m] = Plat!QuitSubGameResponse
    BY <1>8 DEF Data!Fields, Plat!Fields
  <2>2. AlikeFields(Data!QuitSubGameResponse, Plat!QuitSubGameResponse)
    BY DEF AlikeFields, Alike, IsText, Data!QuitSubGameResponse,
       Plat!QuitSubGameResponse
  <2>3. QED  BY <2>1, <2>2
<1>9. CASE m = "SystemErrorResponse"
  <2>1. Data!Fields[m] = Data!SystemErrorResponse /\ Plat!Fields[m] = Plat!SystemErrorResponse
    BY <1>9 DEF Data!Fields, Plat!Fields
  <2>2. AlikeFields(Data!SystemErrorResponse, Plat!SystemErrorResponse)
    BY DEF AlikeFields, Alike, IsText, Data!SystemErrorResponse,
       Plat!SystemErrorResponse
  <2>3. QED  BY <2>1, <2>2
<1>10. CASE m = "HeartRequest"
  <2>1. Data!Fields[m] = Data!HeartRequest /\ Plat!Fields[m] = Plat!HeartRequest
    BY <1>10 DEF Data!Fields, Plat!Fields
  <2>2. AlikeFields(Data!HeartRequest, Plat!HeartRequest)
    BY DEF AlikeFields, Alike, IsText, Data!HeartRequest, Plat!HeartRequest
  <2>3. QED  BY <2>1, <2>2
<1>11. CASE m = "HeartResponse"
  <2>1. Data!Fields[m] = Data!HeartResponse /\ Plat!Fields[m] = Plat!HeartResponse
    BY <1>11 DEF Data!Fields, Plat!Fields
  <2>2. AlikeFields(Data!HeartResponse, Plat!HeartResponse)
    BY DEF AlikeFields, Alike, IsText, Data!HeartResponse, Plat!HeartResponse
  <2>3. QED  BY <2>1, <2>2
<1>12. CASE m = "UdpConnectRequest"
  <2>1. Data!Fields[m] = Data!UdpConnectRequest /\ Plat!Fields[m] = Plat!UdpConnectRequest
    BY <1>12 DEF Data!Fields, Plat!Fields
  <2>2. AlikeFields(Data!UdpConnectRequest, Plat!UdpConnectRequest)
    BY DEF AlikeFields, Alike, IsText, Data!UdpConnectRequest,
       Plat!UdpConnectRequest
  <2>3. QED  BY <2>1, <2>2
<1>13. CASE m = "UdpConnectResponse"
  <2>1. Data!Fields[m] = Data!UdpConnectResponse /\ Plat!Fields[m] = Plat!UdpConnectResponse
    BY <1>13 DEF Data!Fields, Plat!Fields
  <2>2. AlikeFields(Data!UdpConnectResponse, Plat!UdpConnectResponse)
    BY DEF AlikeFields, Alike, IsText, Data!UdpConnectResponse,
       Plat!UdpConnectResponse
  <2>3. QED  BY <2>1, <2>2
<1>14. m \in {"LoginRequest", "LoginResponse", "QuitRequest", "QuitResponse",
             "LoginSubGameRequest", "LoginSubGameResponse", "QuitSubGameRequest",
             "QuitSubGameResponse", "SystemErrorResponse", "HeartRequest",
             "HeartResponse", "UdpConnectRequest", "UdpConnectResponse"}
  BY DEF Names, Data!Fields
<1>15. QED
  BY <1>1, <1>2, <1>3, <1>4, <1>5, <1>6, <1>7, <1>8, <1>9, <1>10, <1>11, <1>12,
     <1>13, <1>14, Zenon

(* And from either generation to either.                                   *)
LEMMA GenerationsAlike ==
    ASSUME NEW gen \in Generations, NEW other \in Generations, NEW m \in Names
    PROVE  AlikeFields(Types(gen, m), Types(other, m))
<1>1. AlikeFields(Data!Fields[m], Plat!Fields[m])
  BY MessagesAlike
<1>2. \A s, t : AlikeFields(s, t) => AlikeFields(t, s) /\ AlikeFields(s, s)
  BY Zenon DEF AlikeFields, Alike
<1>3. QED  BY <1>1, <1>2, Zenon DEF Types, Generations

(* Fields that are alike are written and read alike.                       *)
LEMMA AlikeKinds ==
    ASSUME NEW a, NEW b, Alike(a, b)
    PROVE  /\ WireType(a) = WireType(b)
           /\ \A v : Fitting(a, v) <=> Fitting(b, v)
           /\ \A v : ValueBytes(a, v) = ValueBytes(b, v)
<1>1. \A v : CastTo(a, v) = CastTo(b, v)
  BY DEF Alike, CastTo
<1>2. IsText(a) <=> IsText(b)
  BY DEF Alike
<1>3. QED  BY <1>1, <1>2 DEF WireType, Fitting, ValueBytes

-----------------------------------------------------------------------------
(* What a reader leaves behind, another one of its generation reads again. *)
\* Stored and GroupsAfter, of any reader in any groups.
Keeps(t, type, v) == t = "Plat" => Plat!IsValid(type, v)

GroupsFrom(o, tag) ==
    IF Wire(tag) = START_GROUP
      THEN IF Len(o) < Depth THEN <<TRUE, Append(o, tag)>> ELSE <<FALSE, o>>
    ELSE IF Wire(tag) = END_GROUP
      THEN IF o # <<>> /\ tag = [o[Len(o)] EXCEPT ![1] = @ + 1]
             THEN <<TRUE, SubSeq(o, 1, Len(o) - 1)>>
             ELSE <<FALSE, o>>
    ELSE <<TRUE, o>>

\* The unknown field u leads a reader t of the message m from the groups o
\* to the groups q: the number of an unknown enumerator, or no known field.
Leads(t, m, o, u, q) ==
    LET types == Types(t, m)
    IN  /\ Wired(u)
        /\ \/ /\ o = <<>> /\ q = <<>>
              /\ \E k \in DOMAIN types : /\ u.tag = FieldTagOf(k, types[k])
                                         /\ Fitting(types[k], u.val)
                                         /\ ~Keeps(t, types[k], u.val)
           \/ /\ o = <<>> => \A k \in DOMAIN types : u.tag # FieldTagOf(k, types[k])
              /\ GroupsFrom(o, u.tag) = <<TRUE, q>>

\* The groups g that the unknown fields u go through, to o.
Walk(t, m, g, u, o) ==
    /\ DOMAIN g = 1 .. Len(u) + 1 /\ g[1] = <<>> /\ g[Len(u) + 1] = o
    /\ \A j \in 1 .. Len(u) : Leads(t, m, g[j], u[j], g[j + 1])

(* Without unknown fields no group is entered.                             *)
LEMMA NoWalk ==
    ASSUME NEW t, NEW m PROVE \E g : Walk(t, m, g, <<>>, <<>>)
<1> DEFINE g == [i \in 1 .. 1 |-> <<>>]
<1>1. Len(<<>>) = 0 /\ DOMAIN g = 1 .. 1 /\ g[1] = <<>>
  OBVIOUS
<1> HIDE DEF g
<1>2. 0 + 1 = 1 /\ 1 .. 0 = {}
  OBVIOUS
<1>3. Walk(t, m, g, <<>>, <<>>)
  BY <1>1, <1>2 DEF Walk
<1>4. QED  BY <1>3

(* One more unknown field leads one step further.                          *)
LEMMA WalkOn ==
    ASSUME NEW t, NEW m, NEW g, NEW S, NEW u \in Seq(S), NEW o, NEW x \in S, NEW q,
           Walk(t, m, g, u, o), Leads(t, m, o, x, q)
    PROVE  \E h : Walk(t, m, h, Append(u, x), q)
<1> DEFINE n == Len(u)
           w == Append(u, x)
           h == [i \in 1 .. n + 2 |-> IF i <= n + 1 THEN g[i] ELSE q]
<1>1. /\ n \in Nat /\ Len(w) = n + 1 /\ w[n + 1] = x /\ \A j \in 1 .. n : w[j] = u[j]
  BY AppendProperties, LenProperties
<1>2. g[1] = <<>> /\ g[n + 1] = o /\ \A j \in 1 .. n : Leads(t, m, g[j], u[j], g[j + 1])
  BY DEF Walk
<1> HIDE DEF n, w
<1>3. /\ DOMAIN h = 1 .. (n + 1) + 1
      /\ \A i \in 1 .. n + 1 : h[i] = g[i]
      /\ h[(n + 1) + 1] = q
  BY <1>1
<1> HIDE DEF h
<1>4. h[1] = <<>>
  BY <1>1, <1>2, <1>3
<1>5. ASSUME NEW j \in 1 .. n + 1 PROVE Leads(t, m, h[j], w[j], h[j + 1])
  <2>1. CASE j <= n
    <3>1. j \in 1 .. n /\ j + 1 \in 1 .. n + 1
      BY <1>1, <2>1
    <3>2. h[j] = g[j] /\ h[j + 1] = g[j + 1] /\ w[j] = u[j]
      BY <1>1, <1>3, <3>1
    <3>3. Leads(t, m, g[j], u[j], g[j + 1])
      BY <1>2, <3>1
    <3>4. QED  BY <3>2, <3>3
  <2>2. CASE ~(j <= n)
    <3>1. j = n + 1
      BY <1>1, <2>2
    <3>2. h[j] = o /\ w[j] = x /\ h[j + 1] = q
      BY <1>1, <1>2, <1>3, <3>1
    <3>3. QED  BY <3>2
  <2>3. QED  BY <2>1, <2>2
<1>6. Walk(t, m, h, w, q)
  <2> DEFINE l == n + 1
  <2>1. /\ Len(w) = l /\ DOMAIN h = 1 .. l + 1 /\ h[l + 1] = q /\ h[1] = <<>>
        /\ \A j \in 1 .. l : Leads(t, m, h[j], w[j], h[j + 1])
    BY <1>1, <1>3, <1>4, <1>5
  <2> HIDE DEF l
  <2>2. QED  BY <2>1 DEF Walk
<1>7. QED  BY <1>6 DEF w

\* The fields that were set in proto2 hold what their setters allow.
Valid(t, m, f) == t = "Plat" => \A k \in DOMAIN Types(t, m) :
                     f[k] = Plat!Absent \/ Plat!IsValid(Types(t, m)[k], f[k])

RereadInv == /\ ~Foreigner => Valid(from, name, sent)
             /\ at \notin {"sender", "sent on"} => Valid(to, name, got)
             /\ \E g : Walk(to, name, g, kept, <<>>)
             /\ \E g : Walk(to, name, g, unknown, open)
             /\ Read => open = <<>>

(* The fields of a new message are valid.                                  *)
LEMMA NewValid == ASSUME NEW t, NEW m PROVE Valid(t, m, New(t, m))
<1> SUFFICES ASSUME t = "Plat", NEW k \in DOMAIN Types(t, m)
             PROVE  New(t, m)[k] = Plat!Absent
  BY DEF Valid
<1>1. New(t, m)[k] = Unset(t, Types(t, m)[k])
  BY DEF New
<1>2. Unset(t, Types(t, m)[k]) = Plat!Absent
  BY DEF Unset
<1>3. QED  BY <1>1, <1>2

(* So are those that the setters have set.                                 *)
LEMMA SettingsValid ==
    ASSUME NEW t \in Generations, NEW m \in Names, NEW f \in Settings(t, m)
    PROVE  Valid(t, m, f)
<1> DEFINE T == Types(t, m)
<1>1. PICK n \in 1 .. 8 : T \in [1 .. n -> FieldTypes]
  BY TypesShape
<1>2. T \in Seq(FieldTypes) /\ Len(T) = n /\ DOMAIN T = 1 .. n
  BY <1>1, OfLength
<1> DEFINE Of(k, l) == { [New(t, m) EXCEPT ![k] = v, ![l] = w] :
                              v \in Values(t, T[k]), w \in Values(t, T[l]) }
<1>3. Settings(t, m) = UNION {Of(k, l) : k \in 1 .. Len(T), l \in 1 .. Len(T)}
  BY DEF Settings
<1>4. Settings(t, m) = UNION {Of(k, l) : k \in 1 .. n, l \in 1 .. n}
  BY <1>2, <1>3
<1> HIDE DEF Of
<1>5. PICK k \in 1 .. n, l \in 1 .. n : f \in Of(k, l)
  BY <1>4
<1>6. PICK v \in Values(t, T[k]), w \in Values(t, T[l]) :
         f = [New(t, m) EXCEPT ![k] = v, ![l] = w]
  BY <1>5 DEF Of
<1>7. T[k] \in FieldTypes /\ T[l] \in FieldTypes
  BY <1>1
<1> DEFINE z == New(t, m)
           Here(j, x) == t = "Plat" => x = Plat!Absent \/ Plat!IsValid(T[j], x)
<1>8. Here(k, v) /\ Here(l, w)
  BY <1>7, ValuesAssumption DEF Generations
<1>9. DOMAIN z = 1 .. n
  BY <1>2 DEF New
<1>10. \A j \in 1 .. n : Here(j, z[j])
  BY <1>2, NewValid DEF Valid
<1>11. f = [z EXCEPT ![k] = v, ![l] = w]
  BY <1>6
<1> HIDE DEF z, T, Here
<1>12. ASSUME NEW j \in 1 .. n PROVE Here(j, f[j])
  <2>1. f[j] = IF j = l THEN w ELSE IF j = k THEN v ELSE z[j]
    BY <1>9, <1>11
  <2>2. QED  BY <1>8, <1>10, <2>1
<1>13. QED  BY <1>2, <1>12 DEF Valid, T, Here

LEMMA InitReread == Init => RereadInv
<1> SUFFICES ASSUME Init PROVE RereadInv
  OBVIOUS
<1>1. /\ name \in Names /\ to \in Generations /\ kept = <<>> /\ unknown = <<>>
      /\ open = <<>> /\ at = "sender"
  BY DEF Init
<1>2. ~Foreigner => from \in Generations /\ sent \in Settings(from, name)
  BY DEF Init, Foreigner
<1>3. ~Foreigner => Valid(from, name, sent)
  BY <1>1, <1>2, SettingsValid
<1>4. /\ \E g : Walk(to, name, g, kept, <<>>)
      /\ \E g : Walk(to, name, g, unknown, open)
  BY <1>1, NoWalk
<1>5. QED  BY <1>1, <1>3, <1>4 DEF RereadInv, Read

(* A step that leaves the sender alone.                                    *)
LEMMA RereadKept ==
    ASSUME RereadInv, sender' = sender,
           at' \notin {"sender", "sent on"} => Valid(to, name, got'),
           \E g : Walk(to, name, g, unknown', open'),
           Read' => open' = <<>>
    PROVE  RereadInv'
<1>1. /\ name' = name /\ from' = from /\ sent' = sent /\ kept' = kept /\ to' = to
  BY DEF sender
<1>2. Foreigner' <=> Foreigner
  BY <1>1 DEF Foreigner
<1>3. ~Foreigner' => Valid(from', name', sent')
  BY <1>1, <1>2 DEF RereadInv
<1>4. at' \notin {"sender", "sent on"} => Valid(to', name', got')
  BY <1>1
<1>5. \E g : Walk(to', name', g, kept', <<>>)
  BY <1>1 DEF RereadInv
<1>6. \E g : Walk(to', name', g, unknown', open')
  BY <1>1
<1>7. QED  BY <1>3, <1>4, <1>5, <1>6 DEF RereadInv

(* What can be read again is a stray field.                                *)
LEMMA WiredStrays == ASSUME NEW u, Wired(u) PROVE Straying(u)
<1>1. u.tag \in Num /\ u.tag # Zero
  <2>1. u.tag \in Num /\ (Len(u.tag) > 1 \/ u.tag[1] >= 8)
    BY DEF Wired
  <2>2. u.tag = Zero => Len(u.tag) = 1 /\ u.tag[1] = 0
    BY <2>1, NumFacts
  <2>3. ASSUME u.tag = Zero PROVE FALSE
    <3>1. Len(u.tag) = 1 /\ u.tag[1] = 0
      BY <2>2, <2>3
    <3>2. ~(Len(u.tag) > 1) /\ ~(u.tag[1] >= 8)
      BY <3>1
    <3>3. QED  BY <2>1, <3>2
  <2>4. QED  BY <2>1, <2>3
<1>2. Wire(u.tag) = VARINT => u.val \in Num
  BY DEF Wired
<1>3. Wire(u.tag) # VARINT => u.val \in Seq(Byte)
  <2>1. <<>> \in Seq(Byte)
    OBVIOUS
  <2>2. QED  BY <2>1, Zenon DEF Wired
<1>4. Wire(u.tag) = LENGTH_DELIMITED => Len(u.val) < TextLimit
  BY DEF Wired
<1>5. QED  BY <1>1, <1>2, <1>3, <1>4 DEF Straying

(* A tag that was read stays what it is when it is cast again.             *)
LEMMA TagCast ==
    ASSUME ReadingInv, TagRead.ok
    PROVE  As32(TagRead.val) = TagRead.val
<1> DEFINE t == ReadVarint(body, pos)
<1>1. DOMAIN t = {"ok", "val", "next"} /\ TagRead = [t EXCEPT !.val = As32(@)]
  BY DEF TagRead, ReadVarint, Failed
<1>2. body \in Seq(Byte) /\ pos \in Nat /\ pos >= 1
  BY DEF ReadingInv
<1>3. t.ok /\ TagRead.val = As32(t.val)
  BY <1>1
<1>4. \E m \in 1 .. 10 : t.val \in [1 .. m -> Group]
  BY <1>2, <1>3, VarintRead
<1> HIDE DEF t
<1>5. As32(As32(t.val)) = As32(t.val)
  BY <1>4, Kept32
<1>6. QED  BY <1>3, <1>5

(* What SkipField() takes over can be read again.                          *)
LEMMA SkippedWired ==
    ASSUME NEW tag \in Num, tag = As32(tag), Len(tag) > 1 \/ tag[1] >= 8,
           NEW p \in Nat, p >= 1, body \in Seq(Byte), SkipValue(tag, p).ok
    PROVE  /\ Wired([tag |-> tag, val |-> SkipValue(tag, p).val])
           /\ [tag |-> tag, val |-> SkipValue(tag, p).val] \in Stray
<1> DEFINE r == SkipValue(tag, p)
           u == [tag |-> tag, val |-> r.val]
<1>1. tag # Zero
  <2>1. tag = Zero <=> Len(tag) = 1 /\ tag[1] = 0
    BY NumFacts
  <2>2. ASSUME tag = Zero PROVE FALSE
    <3>1. Len(tag) = 1 /\ tag[1] = 0
      BY <2>1, <2>2
    <3>2. ~(Len(tag) > 1) /\ ~(tag[1] >= 8)
      BY <3>1
    <3>3. QED  BY <3>2
  <2>3. QED  BY <2>2
<1>2. u \in Stray
  BY <1>1, Skipped
<1>3. /\ Wire(tag) \in {VARINT, FIXED64, LENGTH_DELIMITED, START_GROUP, END_GROUP, FIXED32}
      /\ Wire(tag) = FIXED64 => Len(r.val) = 8
      /\ Wire(tag) \in {START_GROUP, END_GROUP} => r.val = <<>>
      /\ Wire(tag) = FIXED32 => Len(r.val) = 4
  <2>1. CASE Wire(tag) \in {VARINT, LENGTH_DELIMITED}
    BY <2>1 DEF VARINT, FIXED64, LENGTH_DELIMITED, START_GROUP, END_GROUP,
       FIXED32
  <2>2. CASE Wire(tag) = FIXED64
    <3>1. r = ReadRaw(body, p, 8) /\ r.ok
      BY <2>2 DEF SkipValue, VARINT, FIXED64
    <3> HIDE DEF r
    <3>2. Len(r.val) = 8
      BY <3>1, RawRead
    <3>3. QED  BY <2>2, <3>2
                  DEF VARINT, FIXED64, LENGTH_DELIMITED, START_GROUP, END_GROUP, FIXED32
  <2>3. CASE Wire(tag) = FIXED32
    <3>1. r = ReadRaw(body, p, 4) /\ r.ok
      BY <2>3 DEF SkipValue, VARINT, FIXED64, LENGTH_DELIMITED, FIXED32
    <3> HIDE DEF r
    <3>2. Len(r.val) = 4
      BY <3>1, RawRead
    <3>3. QED  BY <2>3, <3>2
                  DEF VARINT, FIXED64, LENGTH_DELIMITED, START_GROUP, END_GROUP, FIXED32
  <2>4. CASE Wire(tag) \notin {VARINT, FIXED64, LENGTH_DELIMITED, FIXED32}
    <3>1. r = [ok |-> Wire(tag) \in {START_GROUP, END_GROUP}, val |-> <<>>, next |-> p]
          /\ r.ok
      BY <2>4 DEF SkipValue
    <3> HIDE DEF r
    <3>2. Wire(tag) \in {START_GROUP, END_GROUP} /\ r.val = <<>>
      BY <3>1
    <3>3. QED  BY <2>4, <3>2
                  DEF VARINT, FIXED64, LENGTH_DELIMITED, START_GROUP, END_GROUP, FIXED32
  <2>5. QED  BY <2>1, <2>2, <2>3, <2>4
<1>4. u.tag = tag /\ u.val = r.val
  OBVIOUS
<1>5. Straying(u)
  BY <1>2 DEF Stray
<1> HIDE DEF u, r
<1>6. Wired(u)
  BY <1>3, <1>4, <1>5 DEF Wired, Straying, VARINT, FIXED64, LENGTH_DELIMITED,
                          START_GROUP, END_GROUP, FIXED32
<1>7. QED  BY <1>2, <1>6 DEF u, r

(* Every step keeps it.                                                    *)
LEMMA StepReread == MInv /\ RereadInv /\ [Next]_vars => RereadInv'
<1> SUFFICES ASSUME MInv, RereadInv, [Next]_vars PROVE RereadInv'
  OBVIOUS
<1>1. SenderInv /\ ReadingInv
  BY DEF MInv
<1>2. ASSUME sender' = sender, reading' = reading, at' = at PROVE RereadInv'
  <2>1. got' = got /\ unknown' = unknown /\ open' = open
    BY <1>2 DEF reading
  <2>2. Read' <=> Read
    BY <1>2 DEF Read
  <2>3. at' \notin {"sender", "sent on"} => Valid(to, name, got')
    BY <1>2, <2>1 DEF RereadInv
  <2>4. \E g : Walk(to, name, g, unknown', open')
    BY <2>1 DEF RereadInv
  <2>5. Read' => open' = <<>>
    BY <2>1, <2>2 DEF RereadInv
  <2>6. QED  BY <1>2, <2>3, <2>4, <2>5, RereadKept
<1>3. ASSUME Reading, sender' = sender, reading' = reading, at' \in {"ok", "done", "fail"},
             Read' => open = <<>>
      PROVE  RereadInv'
  <2>1. got' = got /\ unknown' = unknown /\ open' = open
    BY <1>3 DEF reading
  <2>2. Valid(to, name, got')
    BY <1>3, <2>1 DEF RereadInv, Reading
  <2>3. \E g : Walk(to, name, g, unknown', open')
    BY <2>1 DEF RereadInv
  <2>4. Read' => open' = <<>>
    BY <1>3, <2>1
  <2>5. QED  BY <1>3, <2>2, <2>3, <2>4, RereadKept
<1>4. ASSUME Reading, Fail PROVE RereadInv'
  <2>1. sender' = sender /\ reading' = reading /\ at' = "fail"
    BY <1>4 DEF Fail
  <2>2. ~Read'
    BY <2>1 DEF Read
  <2>3. QED  BY <1>3, <1>4, <2>1, <2>2
<1>5. CASE Write
  BY <1>2, <1>5 DEF Write
<1>6. CASE Deliver
  <2>1. /\ sender' = sender /\ got' = New(to, name) /\ unknown' = <<>> /\ open' = <<>>
    BY <1>6 DEF Deliver
  <2>2. Valid(to, name, got')
    BY <2>1, NewValid
  <2>3. \E g : Walk(to, name, g, unknown', open')
    BY <2>1, NoWalk
  <2>4. QED  BY <2>1, <2>2, <2>3, RereadKept
<1>7. CASE ReadBadTag
  BY <1>4, <1>7 DEF ReadBadTag
<1>8. CASE ReadField
  <2>1. Reading /\ TagRead.ok
    BY <1>8 DEF ReadField
  <2>2. /\ Filled(to, name, got) /\ body \in Seq(Byte) /\ unknown \in Seq(Stray)
    BY <1>1, <2>1, ReadersFields
  <2>3. TagRead.val \in Num /\ TagRead.next \in Nat /\ TagRead.next >= 1
    BY <1>1, <2>1, TagIsRead
  <2> DEFINE T == Types(to, name)
             r(k) == ReadPrimitive(body, TagRead.next, T[k])
  <2>4. PICK k \in DOMAIN got :
           /\ IsField(TagRead.val, k)
           /\ IF ~r(k).ok \/ Refused(T[k], r(k).val) THEN Fail
              ELSE /\ pos' = r(k).next
                   /\ IF Stored(T[k], r(k).val)
                        THEN /\ got' = [got EXCEPT ![k] = r(k).val]
                             /\ UNCHANGED unknown
                        ELSE /\ unknown' = Append(unknown,
                                   [tag |-> TagRead.val, val |-> r(k).val])
                             /\ UNCHANGED got
                   /\ UNCHANGED <<sender, writing, body, open, at>>
    BY <1>8 DEF ReadField
  <2>5. CASE ~r(k).ok \/ Refused(T[k], r(k).val)
    BY <1>4, <2>1, <2>4, <2>5
  <2>6. CASE r(k).ok /\ ~Refused(T[k], r(k).val)
    <3> DEFINE v == r(k).val
               tag == TagRead.val
               u == [tag |-> tag, val |-> v]
    <3>1. sender' = sender /\ open' = open /\ at' = at
      BY <2>4, <2>6
    <3>2. Fitting(T[k], v)
      BY <2>2, <2>3, <2>6, PrimitiveRead
    <3>3. PICK n \in 1 .. 8 : T \in [1 .. n -> FieldTypes]
      BY <1>1, TypesShape DEF SenderInv
    <3>4. got \in [1 .. n -> Value] /\ DOMAIN T = 1 .. n
      BY <2>2, <3>3 DEF Filled
    <3>5. k \in 1 .. n /\ k \in 1 .. 8
      BY <3>4
    <3>6. tag = FieldTagOf(k, T[k]) /\ open = <<>>
      BY <2>4 DEF IsField, FieldTagOf
    <3>7. ~Read'
      BY <2>1, <3>1 DEF Reading, Read
    <3>8. Valid(to, name, got)
      BY <2>1 DEF RereadInv, Reading
    <3>9. CASE Stored(T[k], v)
      <4>1. got' = [got EXCEPT ![k] = v] /\ unknown' = unknown
        BY <2>4, <2>6, <3>9
      <4>2. to = "Plat" => Plat!IsValid(T[k], v)
        BY <3>9 DEF Stored
      <4>3. to = "Plat" => \A j \in 1 .. n : got[j] = Plat!Absent \/ Plat!IsValid(T[j], got[j])
        BY <3>4, <3>8 DEF Valid
      <4> HIDE DEF v, T, r
      <4>4. ASSUME to = "Plat", NEW j \in 1 .. n
            PROVE  got'[j] = Plat!Absent \/ Plat!IsValid(T[j], got'[j])
        <5>1. got'[j] = IF j = k THEN v ELSE got[j]
          BY <3>4, <4>1
        <5>2. QED  BY <4>2, <4>3, <4>4, <5>1
      <4>5. Valid(to, name, got')
        BY <3>4, <4>4 DEF Valid, T
      <4>6. \E g : Walk(to, name, g, unknown', open')
        BY <3>1, <4>1 DEF RereadInv
      <4>7. QED  BY <3>1, <3>7, <4>5, <4>6, RereadKept
    <3>10. CASE ~Stored(T[k], v)
      <4>1. got' = got /\ unknown' = Append(unknown, u)
        BY <2>4, <2>6, <3>10
      <4>2. u = FieldItem(k, T[k], v)
        BY <3>6 DEF FieldItem
      <4>3. ~Keeps(to, T[k], v)
        BY <3>10 DEF Stored, Keeps
      <4> HIDE DEF v
      <4>4. u.tag = tag /\ u.val = v
        OBVIOUS
      <4> HIDE DEF u, T, r, tag
      <4>5. Wired(u)
        BY <3>2, <3>5, <4>2, FieldIsItem
      <4>6. u.tag = FieldTagOf(k, T[k]) /\ Fitting(T[k], u.val) /\ ~Keeps(to, T[k], u.val)
        BY <3>2, <3>6, <4>3, <4>4
      <4>7. Leads(to, name, open, u, open)
        BY <3>4, <3>5, <3>6, <4>5, <4>6 DEF Leads, T
      <4>8. u \in Stray
        <5>1. Straying(u)
          BY <4>5, WiredStrays
        <5>2. QED  BY <4>4, <5>1, StrayField DEF u
      <4>9. PICK w : Walk(to, name, w, unknown, open)
        BY DEF RereadInv
      <4>10. \E h : Walk(to, name, h, Append(unknown, u), open)
        BY <2>2, <4>7, <4>8, <4>9, WalkOn
      <4>11. \E g : Walk(to, name, g, unknown', open')
        BY <3>1, <4>1, <4>10
      <4>12. Valid(to, name, got')
        BY <3>8, <4>1
      <4>13. QED  BY <3>1, <3>7, <4>11, <4>12, RereadKept
    <3>11. QED  BY <3>9, <3>10
  <2>7. QED  BY <2>5, <2>6
<1>9. CASE ReadUnknown
  <2>1. Reading /\ TagRead.ok
    BY <1>9 DEF ReadUnknown
  <2>2. /\ Filled(to, name, got) /\ body \in Seq(Byte) /\ unknown \in Seq(Stray)
    BY <1>1, <2>1, ReadersFields
  <2> DEFINE tag == TagRead.val
             p == TagRead.next
             r == SkipValue(tag, p)
             g == GroupsAfter(tag)
             u == [tag |-> tag, val |-> r.val]
  <2>3. tag \in Num /\ p \in Nat /\ p >= 1 /\ tag = As32(tag)
    BY <1>1, <2>1, TagIsRead, TagCast
  <2>4. /\ Len(tag) > 1 \/ tag[1] >= 8
        /\ \A k \in DOMAIN got : ~IsField(tag, k)
        /\ IF r.ok /\ g[1]
             THEN /\ pos' = r.next
                  /\ open' = g[2]
                  /\ unknown' = Append(unknown, u)
                  /\ UNCHANGED <<sender, writing, body, got, at>>
             ELSE Fail
    BY <1>9 DEF ReadUnknown
  <2>5. CASE ~(r.ok /\ g[1])
    BY <1>4, <2>1, <2>4, <2>5
  <2>6. CASE r.ok /\ g[1]
    <3>1. /\ sender' = sender /\ got' = got /\ at' = at /\ open' = g[2]
          /\ unknown' = Append(unknown, u)
      BY <2>4, <2>6
    <3>2. GroupsFrom(open, tag) = <<TRUE, open'>>
      <4>1. g = GroupsFrom(open, tag)
        BY DEF GroupsAfter, GroupsFrom
      <4>2. \E x, y : GroupsFrom(open, tag) = <<x, y>> /\ x \in BOOLEAN
        BY DEF GroupsFrom
      <4> HIDE DEF g
      <4>3. PICK x, y : GroupsFrom(open, tag) = <<x, y>> /\ x \in BOOLEAN
        BY <4>2
      <4>4. x = TRUE /\ y = open'
        BY <2>6, <3>1, <4>1, <4>3
      <4>5. QED  BY <4>3, <4>4
    <3>3. Wired(u) /\ u \in Stray
      BY <2>2, <2>3, <2>4, <2>6, SkippedWired
    <3>4. DOMAIN got = DOMAIN Types(to, name)
      BY <2>2 DEF Filled
    <3>5. u.tag = tag
      OBVIOUS
    <3>6. open = <<>> => \A k \in DOMAIN Types(to, name) :
                            u.tag # FieldTagOf(k, Types(to, name)[k])
      BY <2>4, <3>4, <3>5 DEF IsField, FieldTagOf
    <3> HIDE DEF u, tag, g, r
    <3>7. Leads(to, name, open, u, open')
      BY <3>2, <3>3, <3>5, <3>6 DEF Leads
    <3>8. PICK w : Walk(to, name, w, unknown, open)
      BY DEF RereadInv
    <3>9. \E h : Walk(to, name, h, Append(unknown, u), open')
      <4> DEFINE q == open'
      <4>1. Leads(to, name, open, u, q)
        BY <3>7
      <4> HIDE DEF q
      <4>2. \E h : Walk(to, name, h, Append(unknown, u), q)
        BY <2>2, <3>3, <3>8, <4>1, WalkOn
      <4>3. QED  BY <4>2 DEF q
    <3>10. \E h : Walk(to, name, h, unknown', open')
      BY <3>1, <3>9
    <3>11. ~Read'
      BY <2>1, <3>1 DEF Reading, Read
    <3>12. Valid(to, name, got')
      BY <2>1, <3>1 DEF RereadInv, Reading
    <3>13. QED  BY <3>1, <3>10, <3>11, <3>12, RereadKept
  <2>7. QED  BY <2>5, <2>6
<1>10. CASE EndOfBody
  <2>1. /\ Reading /\ sender' = sender /\ reading' = reading
        /\ at' \in {"ok", "done", "fail"} /\ (at' # "fail" => open = <<>>)
    BY <1>10 DEF EndOfBody
  <2>2. Read' => open = <<>>
    BY <2>1 DEF Read
  <2>3. QED  BY <1>3, <2>1, <2>2
<1>11. CASE SendOn
  <2>1. /\ at = "ok" /\ from' = to /\ sent' = got /\ kept' = unknown
        /\ at' = "sent on" /\ name' = name /\ to' = to /\ reading' = reading
    BY <1>11 DEF SendOn
  <2>2. unknown' = unknown /\ open' = open /\ open = <<>> /\ Valid(to, name, got)
    BY <2>1 DEF reading, RereadInv, Read
  <2>3. Valid(from', name', sent')
    BY <2>1, <2>2
  <2>4. \E g : Walk(to', name', g, kept', <<>>)
    <3>1. \E g : Walk(to, name, g, unknown, open)
      BY DEF RereadInv
    <3>2. QED  BY <2>1, <2>2, <3>1
  <2>5. \E g : Walk(to', name', g, unknown', open')
    BY <2>1, <2>2 DEF RereadInv
  <2>6. QED  BY <2>1, <2>2, <2>3, <2>4, <2>5 DEF RereadInv, Read
<1>12. CASE UNCHANGED vars
  BY <1>2, <1>12 DEF vars
<1>13. QED
  BY <1>5, <1>6, <1>7, <1>8, <1>9, <1>10, <1>11, <1>12 DEF Next

(* Bytes that are there stay there when others follow.                     *)
LEMMA AgreesLonger ==
    ASSUME NEW b \in Seq(Byte), NEW s \in Seq(Byte), NEW t \in Seq(Byte),
           NEW p \in Nat, p >= 1, Agrees(b, s, p), p + Len(b) <= Len(s) + 1
    PROVE  Agrees(b, s \o t, p)
<1> DEFINE k == Len(b)
           l == Len(s)
           st == s \o t
<1>1. k \in Nat /\ l \in Nat /\ \A i \in 1 .. l : st[i] = s[i]
  <2>1. /\ k \in Nat /\ l \in Nat /\ Len(t) \in Nat
        /\ \A i \in 1 .. Len(s) + Len(t) : st[i] = IF i <= Len(s) THEN s[i] ELSE t[i - Len(s)]
    BY ConcatProperties, LenProperties
  <2>2. ASSUME NEW i \in 1 .. l PROVE st[i] = s[i]
    <3>1. i \in 1 .. Len(s) + Len(t) /\ i <= Len(s)
      BY <2>1
    <3>2. QED  BY <2>1, <3>1
  <2>3. QED  BY <2>1, <2>2
<1>2. \A j \in 1 .. k : p + j - 1 <= l => s[p + j - 1] = b[j]
  BY DEF Agrees
<1> HIDE DEF st, k, l
<1>3. ASSUME NEW j \in 1 .. k PROVE st[p + j - 1] = b[j]
  <2> DEFINE i == p + j - 1
  <2>1. p + k <= l + 1
    BY DEF k, l
  <2>2. i \in 1 .. l /\ i <= l
    <3>1. k \in Nat /\ l \in Nat
      BY <1>1
    <3>2. QED  BY <2>1, <3>1
  <2>3. s[i] = b[j]
    BY <1>2, <2>2
  <2>4. QED  BY <1>1, <2>2, <2>3
<1>4. QED  BY <1>3 DEF Agrees, st, k

(* What is appended stands behind the rest.                                *)
LEMMA AgreesBehind ==
    ASSUME NEW s \in Seq(Byte), NEW t \in Seq(Byte), NEW p, p = Len(s) + 1
    PROVE  Agrees(t, s \o t, p)
<1> DEFINE l == Len(s)
           k == Len(t)
           st == s \o t
<1>1. /\ l \in Nat /\ k \in Nat
      /\ \A i \in 1 .. l + k : st[i] = IF i <= l THEN s[i] ELSE t[i - l]
  BY ConcatProperties, LenProperties
<1>2. p = l + 1
  OBVIOUS
<1> HIDE DEF l, k, st
<1>3. ASSUME NEW j \in 1 .. k PROVE st[p + j - 1] = t[j]
  <2> DEFINE i == p + j - 1
  <2>1. i \in 1 .. l + k /\ ~(i <= l) /\ i - l = j
    <3>1. l \in Nat /\ k \in Nat
      BY <1>1
    <3>2. QED  BY <1>2, <3>1
  <2> HIDE DEF i
  <2>2. st[i] = t[i - l]
    BY <1>1, <2>1
  <2>3. QED  BY <2>1, <2>2 DEF i
<1>4. QED  BY <1>3 DEF Agrees, st, k

(* strlen() finds the bytes before the first zero.                         *)
LEMMA CStringCut ==
    ASSUME NEW s \in Seq(Byte)
    PROVE  /\ CString(s) \in Seq(Byte) /\ Len(CString(s)) \in 0 .. Len(s)
           /\ \A i \in 1 .. Len(CString(s)) : CString(s)[i] = s[i]
           /\ CString(s) # s => /\ Len(CString(s)) < Len(s)
                                /\ s[Len(CString(s)) + 1] = 0
<1> DEFINE zeros == {i \in DOMAIN s : s[i] = 0}
<1>1. DOMAIN s = 1 .. Len(s) /\ Len(s) \in Nat
  OBVIOUS
<1>2. CASE zeros = {}
  BY <1>1, <1>2 DEF CString
<1>3. CASE zeros # {}
  <2>1. zeros \in SUBSET Nat
    BY <1>1
  <2>2. \E i \in zeros : \A j \in zeros : i <= j
    BY <1>3, <2>1, Least
  <2> DEFINE m == CHOOSE i \in zeros : \A j \in zeros : i <= j
             k == m - 1
  <2>3. m \in 1 .. Len(s) /\ s[m] = 0
    BY <1>1, <2>2
  <2>4. CString(s) = SubSeq(s, 1, k)
    BY <1>3 DEF CString
  <2> HIDE DEF m
  <2>5. k \in 0 .. Len(s) /\ k < Len(s) /\ k + 1 = m
    BY <1>1, <2>3
  <2> HIDE DEF k
  <2>6. CString(s) \in Seq(Byte) /\ Len(CString(s)) = k
    BY <2>4, <2>5, CutSeq
  <2>7. \A i \in 1 .. k : CString(s)[i] = s[i]
    <3>1. \A i \in 1 .. k : SubSeq(s, 1, k)[i] = s[i]
      BY <1>1, <2>5
    <3>2. QED  BY <2>4, <3>1
  <2>8. QED  BY <2>3, <2>5, <2>6, <2>7
<1>4. QED  BY <1>2, <1>3

(* What is cut off agrees as far as it goes.                               *)
LEMMA AgreesShorter ==
    ASSUME NEW b \in Seq(Byte), NEW s \in Seq(Byte), NEW r \in Seq(Byte),
           Len(r) \in 0 .. Len(s), \A i \in 1 .. Len(r) : r[i] = s[i],
           NEW p \in Nat, p >= 1, Agrees(b, s, p)
    PROVE  Agrees(b, r, p)
<1> DEFINE k == Len(r)
           l == Len(s)
           n == Len(b)
<1>1. k \in 0 .. l /\ l \in Nat /\ n \in Nat /\ \A i \in 1 .. k : r[i] = s[i]
  BY LenProperties
<1>2. \A j \in 1 .. n : p + j - 1 <= l => s[p + j - 1] = b[j]
  BY DEF Agrees
<1> HIDE DEF k, l, n
<1>3. ASSUME NEW j \in 1 .. n, p + j - 1 <= k PROVE r[p + j - 1] = b[j]
  <2> DEFINE i == p + j - 1
  <2>1. i \in 1 .. k /\ i <= l
    <3>1. k \in 0 .. l /\ l \in Nat /\ n \in Nat
      BY <1>1
    <3>2. QED  BY <1>3, <3>1
  <2>2. s[i] = b[j]
    BY <1>2, <2>1
  <2>3. r[i] = s[i]
    BY <1>1, <2>1
  <2>4. QED  BY <2>2, <2>3
<1>4. QED  BY <1>3 DEF Agrees, k, n

(* No unknown field, and no field, begins with a zero.                     *)
LEMMA WiredBegins ==
    ASSUME NEW u, Wired(u)
    PROVE  Len(UnknownBytes(u)) \in Nat /\ Len(UnknownBytes(u)) >= 1 /\ UnknownBytes(u)[1] # 0
<1> DEFINE w == WriteVarint(u.tag)
           b == AfterTag(u)
           n == Len(u.tag)
<1>1. u.tag \in Num /\ (n > 1 \/ u.tag[1] >= 8)
  BY DEF Wired
<1>2. /\ w \in Seq(Byte) /\ Len(w) = n /\ n \in 1 .. 10
      /\ \A i \in 1 .. n : u.tag[i] \in 0 .. 127
                           /\ w[i] = IF i < n THEN u.tag[i] + 128 ELSE u.tag[i]
  BY <1>1, VarintBytes
<1>3. b \in Seq(Byte) /\ UnknownBytes(u) = w \o b
  BY AfterTagBytes
<1> DEFINE g == u.tag[1]
<1> HIDE DEF w, b, n
<1>4. 1 \in 1 .. n
  BY <1>2
<1>5. g \in 0 .. 127 /\ w[1] = IF 1 < n THEN g + 128 ELSE g
  BY <1>2, <1>4
<1>6. n > 1 \/ g >= 8
  BY <1>1
<1> HIDE DEF g
<1>7. w[1] # 0
  <2>1. n \in 1 .. 10
    BY <1>2
  <2>2. g + 128 # 0 /\ (g >= 8 => g # 0)
    BY <1>5
  <2>3. ~(1 < n) => g >= 8
    BY <1>6, <2>1
  <2>4. QED  BY <1>5, <2>2, <2>3
<1>8. /\ Len(w \o b) = n + Len(b) /\ Len(b) \in Nat /\ (w \o b)[1] = w[1]
  <2>1. /\ Len(w \o b) = Len(w) + Len(b) /\ Len(b) \in Nat
        /\ \A i \in 1 .. Len(w) + Len(b) :
              (w \o b)[i] = IF i <= Len(w) THEN w[i] ELSE b[i - Len(w)]
    BY <1>2, <1>3, ConcatProperties, LenProperties
  <2>2. 1 \in 1 .. Len(w) + Len(b) /\ 1 <= Len(w)
    <3> DEFINE x == Len(w)
               y == Len(b)
    <3>1. x \in 1 .. 10 /\ y \in Nat
      BY <1>2, <2>1
    <3> HIDE DEF x, y
    <3>2. 1 \in 1 .. x + y /\ 1 <= x
      BY <3>1
    <3>3. QED  BY <3>2 DEF x, y
  <2>3. QED  BY <1>2, <2>1, <2>2
<1>9. QED  BY <1>2, <1>3, <1>7, <1>8

-----------------------------------------------------------------------------
(* Where the items of a message stand among the bytes.                     *)
Blank(i) == i <= N /\ ~Written(i)

ItemOf(i) == IF i > N THEN kept[i - N] ELSE FieldItem(i, TypeOf(i), sent[i])

(* An item is blank, or an unknown field by its bytes.                     *)
LEMMA ItemIs ==
    ASSUME SenderInv, ~Foreigner, NEW g, Walk(to, name, g, kept, <<>>),
           NEW i \in 1 .. All
    PROVE  /\ Blank(i) => ItemBytes(i) = <<>>
           /\ ~Blank(i) => Wired(ItemOf(i)) /\ ItemBytes(i) = UnknownBytes(ItemOf(i))
           /\ i <= N /\ ~Blank(i) => Fitting(TypeOf(i), sent[i])
<1>1. /\ N \in 1 .. 8 /\ DOMAIN Types(from, name) = 1 .. N
      /\ Len(kept) \in Nat /\ All = N + Len(kept)
  BY AllNat
<1>2. CASE i > N
  <2>1. i - N \in 1 .. Len(kept) /\ ~(i <= N)
    BY <1>1, <1>2
  <2>2. Wired(kept[i - N])
    BY <2>1 DEF Walk, Leads
  <2>3. QED  BY <1>2, <2>1, <2>2 DEF Blank, ItemOf, ItemBytes
<1>3. CASE ~(i > N) /\ Written(i)
  <2>1. i \in 1 .. N /\ i \in 1 .. 8
    BY <1>1, <1>3
  <2>2. Fitting(TypeOf(i), sent[i])
    BY <1>1, <1>3, <2>1 DEF SenderInv, Filled, Written, TypeOf
  <2>3. ItemBytes(i) = FieldBytes(i, TypeOf(i), sent[i])
    BY <1>3 DEF ItemBytes
  <2>4. ItemOf(i) = FieldItem(i, TypeOf(i), sent[i])
    BY <1>3 DEF ItemOf
  <2>5. Wired(ItemOf(i)) /\ ItemBytes(i) = UnknownBytes(ItemOf(i))
    BY <2>1, <2>2, <2>3, <2>4, FieldIsItem
  <2>6. QED  BY <1>3, <2>2, <2>5 DEF Blank
<1>4. CASE ~(i > N) /\ ~Written(i)
  <2>1. i <= N
    BY <1>1, <1>4
  <2>2. QED  BY <1>4, <2>1 DEF Blank, ItemBytes
<1>5. QED  BY <1>2, <1>3, <1>4

\* The places c of the first n - 1 items in s, where s ends.
Laid(c, n, s) ==
    /\ c \in [1 .. All + 1 -> Nat] /\ c[1] = 1 /\ c[n] = Len(s) + 1
    /\ \A i \in 1 .. All + 1 : i <= n => c[i] >= 1 /\ c[i] <= Len(s) + 1
    /\ \A i \in 1 .. All : i < n => /\ c[i + 1] = c[i] + Len(ItemBytes(i))
                                    /\ Agrees(ItemBytes(i), s, c[i])

(* Before the first item there is nothing.                                 *)
LEMMA NothingLaid ==
    ASSUME SenderInv, ~Foreigner
    PROVE  \E c : Laid(c, 1, <<>>)
<1> DEFINE c == [i \in 1 .. All + 1 |-> 1]
<1>1. All \in Nat
  BY AllNat
<1>2. c \in [1 .. All + 1 -> Nat] /\ \A i \in 1 .. All + 1 : c[i] = 1
  OBVIOUS
<1>3. 1 \in 1 .. All + 1 /\ Len(<<>>) = 0
  BY <1>1
<1> HIDE DEF c
<1>4. \A i \in 1 .. All : ~(i < 1)
  BY <1>1
<1>5. c[1] = 1 /\ 1 = Len(<<>>) + 1
  BY <1>2, <1>3
<1>6. \A i \in 1 .. All + 1 : c[i] >= 1 /\ c[i] <= Len(<<>>) + 1
  BY <1>2, <1>3
<1>7. Laid(c, 1, <<>>)
  BY <1>2, <1>4, <1>5, <1>6 DEF Laid
<1>8. QED  BY <1>7

(* The next item is laid behind the others.                                *)
LEMMA LaidOn ==
    ASSUME SenderInv, ~Foreigner, NEW c, NEW n \in 1 .. All, NEW m, m = n + 1,
           NEW s \in Seq(Byte), Laid(c, n, s)
    PROVE  \E e : Laid(e, m, s \o ItemBytes(n))
<1> DEFINE b == ItemBytes(n)
           k == Len(b)
           l == Len(s)
           t == s \o b
           e == [i \in 1 .. All + 1 |-> IF i = m THEN l + 1 + k ELSE c[i]]
<1>1. All \in Nat /\ \A i \in 1 .. All : ItemBytes(i) \in Seq(Byte)
  BY AllNat, ItemWritten
<1>2. b \in Seq(Byte) /\ k \in Nat /\ l \in Nat
  BY <1>1, LenProperties
<1>3. t \in Seq(Byte) /\ Len(t) = l + k
  BY <1>2, ConcatProperties
<1>4. /\ c \in [1 .. All + 1 -> Nat] /\ c[1] = 1 /\ c[n] = l + 1
      /\ \A i \in 1 .. All + 1 : i <= n => c[i] >= 1 /\ c[i] <= l + 1
      /\ \A i \in 1 .. All : i < n => /\ c[i + 1] = c[i] + Len(ItemBytes(i))
                                      /\ Agrees(ItemBytes(i), s, c[i])
  BY DEF Laid
<1>5. /\ n \in 1 .. All + 1 /\ m \in 1 .. All + 1 /\ 1 \in 1 .. All + 1 /\ 1 # m
      /\ l + 1 + k \in Nat
  BY <1>1, <1>2
<1> DEFINE last == l + 1 + k
<1>6. /\ last \in Nat /\ last = Len(t) + 1 /\ last >= l + 1 /\ last >= 1
  BY <1>2, <1>3
<1>7. /\ e \in [1 .. All + 1 -> Nat] /\ e[m] = last
      /\ \A i \in 1 .. All + 1 : i # m => e[i] = c[i]
  BY <1>4, <1>5
<1> HIDE DEF b, k, t, l, e, last
<1>8. e[1] = 1
  BY <1>4, <1>5, <1>7
<1>9. ASSUME NEW i \in 1 .. All + 1, i <= m PROVE e[i] >= 1 /\ e[i] <= Len(t) + 1
  <2>1. CASE i = m
    BY <1>3, <1>2, <1>6, <1>7, <2>1
  <2>2. CASE i # m
    <3>1. i <= n /\ e[i] = c[i]
      BY <1>5, <1>7, <1>9, <2>2
    <3>2. c[i] >= 1 /\ c[i] <= l + 1 /\ c[i] \in Nat
      BY <1>4, <3>1
    <3>3. c[i] <= last
      BY <1>2, <1>6, <3>2
    <3>4. QED  BY <1>6, <3>1, <3>2, <3>3
  <2>3. QED  BY <2>1, <2>2
<1>10. ASSUME NEW i \in 1 .. All, i < m
       PROVE  e[i + 1] = e[i] + Len(ItemBytes(i)) /\ Agrees(ItemBytes(i), t, e[i])
  <2>1. CASE i = n
    <3>1. e[i] = l + 1 /\ e[i + 1] = last /\ ItemBytes(i) = b
      <4>1. n # m
        BY <1>5
      <4>2. QED  BY <1>4, <1>5, <1>7, <2>1, <4>1 DEF b
    <3>2. Agrees(b, t, l + 1)
      <4> DEFINE p == l + 1
      <4>1. p = Len(s) + 1
        BY DEF l
      <4> HIDE DEF p
      <4>2. Agrees(b, t, p)
        BY <1>2, <4>1, AgreesBehind DEF t
      <4>3. QED  BY <4>2 DEF p
    <3>3. last = l + 1 + Len(b)
      BY DEF last, k
    <3>4. QED  BY <3>1, <3>2, <3>3
  <2>2. CASE i # n
    <3>1. i < n /\ i # m /\ i + 1 # m /\ i + 1 <= n /\ i \in 1 .. All + 1 /\ i + 1 \in 1 .. All + 1
      BY <1>1, <1>5, <1>10, <2>2
    <3>2. e[i] = c[i] /\ e[i + 1] = c[i + 1]
      BY <1>7, <3>1
    <3> DEFINE x == ItemBytes(i)
               p == c[i]
    <3>3. c[i + 1] = p + Len(x) /\ Agrees(x, s, p) /\ c[i + 1] <= l + 1
      BY <1>4, <3>1
    <3>4. x \in Seq(Byte) /\ p \in Nat /\ p >= 1
      BY <1>1, <1>4, <3>1
    <3> HIDE DEF x, p
    <3>5. p + Len(x) <= Len(s) + 1
      BY <3>3 DEF l
    <3>6. Agrees(x, t, p)
      BY <1>2, <3>3, <3>4, <3>5, AgreesLonger DEF t
    <3>7. QED  BY <3>2, <3>3, <3>6 DEF x, p
  <2>3. QED  BY <2>1, <2>2
<1>11. Laid(e, m, t)
  BY <1>6, <1>7, <1>8, <1>9, <1>10 DEF Laid
<1>12. QED  BY <1>11 DEF t, b

-----------------------------------------------------------------------------
(* How far a reader has come: before item i, it has what came before.      *)
ReaderType(k) == Types(to, name)[k]

Holds(i) == [k \in 1 .. N |-> IF k < i /\ Arrives(k) THEN sent[k]
                              ELSE Unset(to, ReaderType(k))]

Found(i) == IF i <= N THEN FlattenSeq([k \in 1 .. i - 1 |-> StrayOf(k)])
            ELSE Strays \o SubSeq(kept, 1, i - 1 - N)

Accepted(i) == \A k \in 1 .. N : k < i /\ Written(k) => ~Refused(ReaderType(k), sent[k])

\* c are the places of the items, g the groups of the unknown fields; the
\* reader is at p and has the fields f, the unknown fields u, the groups o.
At(c, g, i, p, f, u, o) ==
    /\ p = c[i] /\ f = Holds(i) /\ u = Found(i)
    /\ Accepted(i)
    /\ o = IF i <= N THEN <<>> ELSE g[i - N]

(* The numbers of fields, and that both sides have the same ones.          *)
LEMMA SenderNumbers ==
    ASSUME SenderInv, ~Foreigner
    PROVE  /\ N \in 1 .. 8 /\ Len(kept) \in Nat /\ All = N + Len(kept)
           /\ DOMAIN Types(from, name) = 1 .. N /\ DOMAIN Types(to, name) = 1 .. N
           /\ \A k \in 1 .. N : Alike(TypeOf(k), ReaderType(k))
<1>1. /\ N \in 1 .. 8 /\ DOMAIN Types(from, name) = 1 .. N
      /\ Len(kept) \in Nat /\ All = N + Len(kept)
  BY AllNat
<1>2. AlikeFields(Types(from, name), Types(to, name))
  BY GenerationsAlike DEF SenderInv
<1>3. PICK n \in 1 .. 8 :
         /\ DOMAIN Types(from, name) = 1 .. n /\ DOMAIN Types(to, name) = 1 .. n
         /\ \A k \in 1 .. n : Alike(Types(from, name)[k], Types(to, name)[k])
  BY <1>2 DEF AlikeFields
<1>4. n = N
  <2>1. 1 .. n = 1 .. N
    BY <1>1, <1>3
  <2>2. \A a, b \in 1 .. 8 : 1 .. a = 1 .. b => a = b
    <3>1. ASSUME NEW a \in 1 .. 8, NEW b \in 1 .. 8, 1 .. a = 1 .. b PROVE a = b
      <4>1. a \in 1 .. b /\ b \in 1 .. a
        BY <3>1
      <4>2. QED  BY <4>1
    <3>2. QED  BY <3>1
  <2>3. QED  BY <1>1, <2>1, <2>2
<1>5. QED  BY <1>1, <1>3, <1>4 DEF TypeOf, ReaderType

\* Anything that can stray.
Strayed == UNION {[tag : {NumOf(Tag(k, WireType(TypeOf(k))))}, val : {sent[k]}] : k \in 1 .. N}

(* What a field leaves among the unknown ones.                             *)
LEMMA StraysSeq ==
    ASSUME SenderInv, ~Foreigner, NEW S, Strayed \subseteq S
    PROVE  \A k \in 1 .. N : StrayOf(k) \in Seq(S)
<1> SUFFICES ASSUME NEW k \in 1 .. N PROVE StrayOf(k) \in Seq(S)
  OBVIOUS
<1> DEFINE x == [tag |-> NumOf(Tag(k, WireType(TypeOf(k)))), val |-> sent[k]]
<1>1. x \in [tag : {NumOf(Tag(k, WireType(TypeOf(k))))}, val : {sent[k]}]
  OBVIOUS
<1>2. x \in Strayed
  BY <1>1 DEF Strayed
<1>3. StrayOf(k) = <<x>> \/ StrayOf(k) = <<>>
  BY DEF StrayOf
<1> HIDE DEF x
<1>4. x \in S
  BY <1>2
<1>5. <<x>> \in Seq(S) /\ <<>> \in Seq(S)
  BY <1>4
<1>6. QED  BY <1>3, <1>5

(* What is found among the items grows by what each of them leaves.        *)
LEMMA FoundOn ==
    ASSUME SenderInv, ~Foreigner, NEW i \in 1 .. All, NEW j, j = i + 1
    PROVE  /\ i <= N => Found(j) = Found(i) \o StrayOf(i)
           /\ i > N => Found(j) = Append(Found(i), kept[i - N])
<1> DEFINE S == Strayed \cup Stray
           M == Len(kept)
           f(n) == [k \in 1 .. n |-> StrayOf(k)]
<1>1. N \in 1 .. 8 /\ M \in Nat /\ All = N + M /\ kept \in Seq(Stray)
  BY SenderNumbers DEF SenderInv
<1>2. \A k \in 1 .. N : StrayOf(k) \in Seq(S)
  BY StraysSeq
<1>3. kept \in Seq(S) /\ \A k \in 1 .. M : kept[k] \in S
  <2>1. \A k \in 1 .. M : kept[k] \in Stray
    BY <1>1, ElementOfSeq
  <2>2. kept \in [1 .. M -> S]
    BY <1>1, <2>1
  <2>3. QED  BY <1>1, <2>1, <2>2
<1> HIDE DEF S, M
<1>4. ASSUME NEW n \in 0 .. N PROVE f(n) \in Seq(Seq(S)) /\ Len(f(n)) = n
  <2>1. f(n) \in [1 .. n -> Seq(S)]
    BY <1>1, <1>2
  <2>2. n \in Nat
    BY <1>1
  <2> HIDE DEF f
  <2>3. QED  BY <2>1, <2>2, OfLength
<1>5. ASSUME NEW n \in 1 .. N
      PROVE  /\ FlattenSeq(f(n)) = FlattenSeq(f(n - 1)) \o StrayOf(n)
             /\ FlattenSeq(f(n - 1)) \in Seq(S) /\ FlattenSeq(f(n)) \in Seq(S)
  <2> DEFINE m == n - 1
             a == f(m)
             t == StrayOf(n)
  <2>1. m \in 0 .. N /\ n \in 0 .. N /\ n = m + 1 /\ m \in Nat
    BY <1>1
  <2> HIDE DEF m
  <2>2. a \in Seq(Seq(S)) /\ Len(a) = m /\ t \in Seq(S)
    BY <1>2, <1>4, <2>1
  <2>3. f(n) \in Seq(Seq(S)) /\ Len(f(n)) = n
    BY <1>4, <2>1
  <2>4. /\ Append(a, t) \in Seq(Seq(S)) /\ Len(Append(a, t)) = m + 1
        /\ Append(a, t)[m + 1] = t
        /\ \A k \in 1 .. m : Append(a, t)[k] = a[k]
    <3> HIDE DEF a, t
    <3>1. QED  BY <2>2, AppendProperties
  <2>5. f(n) = Append(a, t)
    <3>1. \A k \in 1 .. n : f(n)[k] = StrayOf(k)
      OBVIOUS
    <3>2. \A k \in 1 .. m : a[k] = StrayOf(k)
      OBVIOUS
    <3>3. ASSUME NEW k \in 1 .. n PROVE f(n)[k] = Append(a, t)[k]
      <4>1. k \in 1 .. m \/ k = n
        BY <2>1
      <4> HIDE DEF f, a
      <4>2. CASE k \in 1 .. m
        BY <2>4, <3>1, <3>2, <4>2
      <4>3. CASE k = n
        BY <2>1, <2>4, <3>1, <4>3 DEF t
      <4>4. QED  BY <4>1, <4>2, <4>3
    <3> HIDE DEF f, a, t
    <3>4. QED  BY <2>1, <2>3, <2>4, <3>3, SeqEqual
  <2>6. FlattenSeq(a) \in Seq(S) /\ FlattenSeq(Append(a, t)) = FlattenSeq(a) \o t
    <3> HIDE DEF a, t
    <3>1. QED  BY <2>2, FlattenAppend
  <2>7. FlattenSeq(a) \o t \in Seq(S)
    <3> HIDE DEF a, t
    <3>1. QED  BY <2>2, <2>6, ConcatProperties
  <2> HIDE DEF f
  <2>8. QED  BY <2>5, <2>6, <2>7 DEF a, t, m
<1>6. Strays = FlattenSeq(f(N)) /\ Strays \in Seq(S)
  <2>1. N \in 1 .. N
    BY <1>1
  <2>2. Strays = FlattenSeq(f(N))
    BY DEF Strays
  <2> HIDE DEF f
  <2>3. QED  BY <1>5, <2>1, <2>2
<1>7. CASE i < N
  <2>1. j <= N /\ i <= N /\ ~(i > N) /\ j - 1 = i /\ i \in 1 .. N
    BY <1>1, <1>7
  <2>2. Found(i) = FlattenSeq(f(i - 1)) /\ Found(j) = FlattenSeq(f(j - 1))
    BY <2>1 DEF Found
  <2> HIDE DEF f
  <2>3. Found(j) = FlattenSeq(f(i))
    BY <2>1, <2>2
  <2>4. QED  BY <1>5, <2>1, <2>2, <2>3
<1>8. CASE i = N
  <2>1. ~(j <= N) /\ i <= N /\ ~(i > N) /\ j - 1 - N = 0 /\ i \in 1 .. N
    BY <1>1, <1>8
  <2>2. Found(i) = FlattenSeq(f(i - 1)) /\ Found(j) = Strays \o SubSeq(kept, 1, j - 1 - N)
    BY <2>1 DEF Found
  <2> HIDE DEF f
  <2>3. SubSeq(kept, 1, 0) = <<>>
    BY SubSeqEmpty
  <2>4. Found(j) = Strays
    BY <1>6, <2>1, <2>2, <2>3, ConcatEmptySeq
  <2>5. QED  BY <1>5, <1>6, <1>8, <2>1, <2>2, <2>4
<1>9. CASE i > N
  <2> DEFINE l == i - 1 - N
             m == i - N
             a == SubSeq(kept, 1, l)
             x == kept[m]
  <2>1. ~(j <= N) /\ ~(i <= N) /\ j - 1 - N = m
    BY <1>1, <1>9
  <2>2. /\ l \in Nat /\ l + 1 = m /\ m \in 1 .. M /\ l \in 0 .. M /\ m \in 0 .. M
    BY <1>1, <1>9
  <2>3. Found(i) = Strays \o a /\ Found(j) = Strays \o SubSeq(kept, 1, m)
    BY <2>1 DEF Found
  <2> HIDE DEF l, m
  <2>4. a \in Seq(S) /\ Len(a) = l /\ x \in S
    <3>1. l \in 0 .. Len(kept)
      BY <2>2 DEF M
    <3>2. QED  BY <1>3, <2>2, <3>1, CutSeq
  <2>5. SubSeq(kept, 1, m) = a \o <<x>>
    <3>1. 1 \in 1 .. m /\ m \in 1 .. Len(kept) /\ m - 1 = l
      BY <2>2 DEF M
    <3>2. SubSeq(kept, 1, m) = SubSeq(kept, 1, m - 1) \o <<kept[m]>>
      BY <1>3, <3>1, SubSeqRecursiveSecond
    <3>3. QED  BY <3>1, <3>2
  <2> HIDE DEF a, x
  <2>6. <<x>> \in Seq(S)
    BY <2>4
  <2>7. Grouped(S, Strays, a, <<x>>)
    BY <1>6, <2>4, <2>6, Associates
  <2>8. Strays \o (a \o <<x>>) = (Strays \o a) \o <<x>> /\ Strays \o a \in Seq(S)
    BY <2>7 DEF Grouped
  <2>9. (Strays \o a) \o <<x>> = Append(Strays \o a, x)
    BY <2>4, <2>8, AppendIsConcat
  <2>10. Found(j) = Append(Found(i), x)
    BY <2>3, <2>5, <2>8, <2>9
  <2>11. QED  BY <2>1, <2>10 DEF x, m
<1>10. QED  BY <1>1, <1>7, <1>8, <1>9

(* And so do the fields that a reader holds.                               *)
LEMMA HoldsOn ==
    ASSUME SenderInv, ~Foreigner, NEW i \in 1 .. All, NEW j, j = i + 1
    PROVE  Holds(j) = IF i <= N /\ Arrives(i) THEN [Holds(i) EXCEPT ![i] = sent[i]]
                                              ELSE Holds(i)
<1>1. N \in 1 .. 8 /\ i \in Nat
  BY SenderNumbers, AllNat
<1>2. \A k \in 1 .. N : k < j <=> k < i \/ k = i
  BY <1>1
<1>3. CASE i <= N /\ Arrives(i)
  <2>1. i \in 1 .. N
    BY <1>1, <1>3
  <2> DEFINE h == [Holds(i) EXCEPT ![i] = sent[i]]
  <2>2. /\ DOMAIN Holds(i) = 1 .. N
        /\ \A k \in 1 .. N : Holds(i)[k] = IF k < i /\ Arrives(k) THEN sent[k]
                                           ELSE Unset(to, ReaderType(k))
    BY DEF Holds
  <2>3. h = [k \in 1 .. N |-> IF k = i THEN sent[i] ELSE Holds(i)[k]]
    BY <2>2
  <2> HIDE DEF h
  <2>4. ASSUME NEW k \in 1 .. N
        PROVE  (IF k < j /\ Arrives(k) THEN sent[k] ELSE Unset(to, ReaderType(k)))
               = IF k = i THEN sent[i] ELSE Holds(i)[k]
    <3>1. CASE k = i
      BY <1>2, <1>3, <3>1
    <3>2. CASE k # i
      BY <1>2, <2>2, <3>2
    <3>3. QED  BY <3>1, <3>2
  <2>5. Holds(j) = h
    BY <2>3, <2>4 DEF Holds
  <2>6. QED  BY <1>3, <2>5 DEF h
<1>4. CASE ~(i <= N /\ Arrives(i))
  <2>1. \A k \in 1 .. N : k < j /\ Arrives(k) <=> k < i /\ Arrives(k)
    <3>1. ASSUME NEW k \in 1 .. N PROVE k < j /\ Arrives(k) <=> k < i /\ Arrives(k)
      <4>1. k = i => ~Arrives(k)
        BY <1>1, <1>4
      <4>2. QED  BY <1>2, <4>1
    <3>2. QED  BY <3>1
  <2>2. Holds(j) = Holds(i)
    BY <2>1 DEF Holds
  <2>3. QED  BY <1>4, <2>2
<1>5. QED  BY <1>3, <1>4

(* Past a field: it is held, or left among the unknown ones.               *)
LEMMA PastField ==
    ASSUME SenderInv, ~Foreigner, NEW c, NEW g, g[1] = <<>>, NEW i \in 1 .. N, NEW j, j = i + 1,
           NEW p, NEW f, NEW u, NEW o, At(c, g, i, p, f, u, o),
           NEW q, q = c[j],
           Written(i) => ~Refused(ReaderType(i), sent[i])
    PROVE  At(c, g, j, q, IF Arrives(i) THEN [f EXCEPT ![i] = sent[i]] ELSE f,
              u \o StrayOf(i), o)
<1>1. N \in 1 .. 8 /\ i \in 1 .. All
  <2>1. N \in 1 .. 8 /\ Len(kept) \in Nat /\ All = N + Len(kept)
    BY SenderNumbers
  <2>2. QED  BY <2>1
<1>2. i <= N /\ ~(i > N)
  BY <1>1
<1>3. Holds(j) = IF Arrives(i) THEN [f EXCEPT ![i] = sent[i]] ELSE f
  BY <1>1, <1>2, HoldsOn DEF At
<1>4. Found(j) = u \o StrayOf(i)
  BY <1>1, <1>2, FoundOn DEF At
<1>5. Accepted(j)
  <2>1. \A k \in 1 .. N : k < j => k < i \/ k = i
    BY <1>1
  <2>2. Accepted(i)
    BY DEF At
  <2>3. QED  BY <2>1, <2>2 DEF Accepted
<1>6. o = <<>>
  BY <1>2 DEF At
<1>7. o = IF j <= N THEN <<>> ELSE g[j - N]
  <2>1. ~(j <= N) => j - N = 1
    BY <1>1
  <2>2. QED  BY <1>6, <2>1
<1> DEFINE f2 == IF Arrives(i) THEN [f EXCEPT ![i] = sent[i]] ELSE f
           u2 == u \o StrayOf(i)
<1>8. f2 = Holds(j) /\ u2 = Found(j)
  BY <1>3, <1>4
<1> HIDE DEF f2, u2
<1>9. At(c, g, j, q, f2, u2, o)
  BY <1>5, <1>7, <1>8, Zenon DEF At
<1>10. QED  BY <1>9 DEF f2, u2

(* Past a field that was not written there is nothing to read.             *)
LEMMA PastBlank ==
    ASSUME SenderInv, ReadingInv, ~Foreigner, NEW c, NEW g, Walk(to, name, g, kept, <<>>),
           NEW i \in 1 .. All, NEW j, j = i + 1, Blank(i), Laid(c, All + 1, out),
           At(c, g, i, pos, got, unknown, open)
    PROVE  At(c, g, j, pos, got, unknown, open)
<1>1. /\ i \in 1 .. N /\ ~Written(i) /\ ~Arrives(i) /\ StrayOf(i) = <<>>
  <2>1. N \in 1 .. 8 /\ i <= N /\ ~Written(i)
    BY SenderNumbers DEF Blank
  <2>2. QED  BY <2>1 DEF Arrives, StrayOf
<1>2. pos = c[i] /\ c[i] \in Nat /\ c[j] = c[i] + Len(ItemBytes(i))
  <2>1. All \in Nat /\ i < All + 1 /\ i \in 1 .. All + 1
    BY AllNat
  <2>2. QED  BY <2>1 DEF Laid, At
<1>3. ItemBytes(i) = <<>>
  BY ItemIs
<1>4. c[j] = pos
  BY <1>2, <1>3
<1>5. g[1] = <<>>
  BY DEF Walk
<1> DEFINE f2 == IF Arrives(i) THEN [got EXCEPT ![i] = sent[i]] ELSE got
           u2 == unknown \o StrayOf(i)
<1>6. At(c, g, j, pos, f2, u2, open)
  <2> HIDE DEF f2, u2
  <2>1. At(c, g, j, pos, IF Arrives(i) THEN [got EXCEPT ![i] = sent[i]] ELSE got,
           unknown \o StrayOf(i), open)
    BY <1>1, <1>2, <1>4, <1>5, PastField
  <2>2. QED  BY <2>1 DEF f2, u2
<1>7. f2 = got
  BY <1>1
<1>8. u2 = unknown
  <2>1. unknown \o <<>> = unknown
    BY ConcatEmptySeq DEF ReadingInv
  <2>2. QED  BY <1>1, <2>1
<1>9. QED  BY <1>6, <1>7, <1>8

(* Past an unknown field that was sent along.                              *)
LEMMA PastKept ==
    ASSUME SenderInv, ~Foreigner, NEW c, NEW g, NEW i \in 1 .. All, i > N, NEW j, j = i + 1,
           NEW p, NEW f, NEW u, NEW o, At(c, g, i, p, f, u, o), NEW q, q = c[j]
    PROVE  At(c, g, j, q, f, Append(u, kept[i - N]), g[j - N])
<1>1. N \in 1 .. 8 /\ i \in Int /\ ~(i <= N) /\ ~(j <= N)
  <2>1. N \in 1 .. 8 /\ Len(kept) \in Nat /\ All = N + Len(kept)
    BY SenderNumbers
  <2>2. QED  BY <2>1
<1>2. Holds(j) = f
  BY <1>1, HoldsOn DEF At
<1>3. Found(j) = Append(u, kept[i - N])
  BY FoundOn DEF At
<1>4. Accepted(j)
  <2>1. \A k \in 1 .. N : k < i
    BY <1>1
  <2>2. Accepted(i)
    BY DEF At
  <2>3. QED  BY <2>1, <2>2 DEF Accepted
<1>5. QED  BY <1>1, <1>2, <1>3, <1>4 DEF At

(* A reader begins before the first item, with nothing.                    *)
LEMMA AtFirst ==
    ASSUME SenderInv, ~Foreigner, NEW c, NEW g, g[1] = <<>>, c[1] = 1
    PROVE  At(c, g, 1, 1, New(to, name), <<>>, <<>>)
<1>1. N \in 1 .. 8 /\ DOMAIN Types(to, name) = 1 .. N
  BY SenderNumbers
<1>2. 1 <= N /\ \A k \in 1 .. N : ~(k < 1)
  BY <1>1
<1>3. Holds(1) = New(to, name)
  BY <1>1, <1>2 DEF Holds, New, ReaderType
<1>4. Found(1) = <<>>
  <2> DEFINE f == [k \in 1 .. 0 |-> StrayOf(k)]
  <2>1. f = <<>>
    OBVIOUS
  <2>2. Found(1) = FlattenSeq(f)
    BY <1>2 DEF Found
  <2> HIDE DEF f
  <2>3. QED  BY <2>1, <2>2, FlattenEmpty
<1>5. Accepted(1)
  BY <1>2 DEF Accepted
<1>6. QED  BY <1>2, <1>3, <1>4, <1>5 DEF At

(* The item that a reader is at is not blank.                              *)
LEMMA ReaderStands ==
    ASSUME SenderInv, ReadingInv, ~Foreigner, NEW c, NEW g, Walk(to, name, g, kept, <<>>),
           Laid(c, All + 1, out),
           NEW l \in 1 .. All + 1, At(c, g, l, pos, got, unknown, open)
    PROVE  \E i \in 1 .. All + 1 : /\ At(c, g, i, pos, got, unknown, open)
                                   /\ (i = All + 1) \/ (i \in 1 .. All /\ ~Blank(i))
<1> DEFINE M == All + 1
           Here(i) == At(c, g, i, pos, got, unknown, open)
           T == {i \in 1 .. M : Here(i)}
<1>1. All \in Nat /\ M \in Nat
  BY AllNat
<1>2. \E x \in T : \A y \in T : y <= x
  <2>1. l \in T
    OBVIOUS
  <2> HIDE DEF M, Here
  <2>2. T \in SUBSET (1 .. M) /\ T # {}
    BY <2>1
  <2> HIDE DEF T
  <2>3. QED  BY <1>1, <2>2, Largest
<1>3. PICK i \in 1 .. M : Here(i) /\ \A y \in T : y <= i
  BY <1>2
<1>4. CASE i = M
  <2>1. i \in 1 .. All + 1 /\ i = All + 1 /\ At(c, g, i, pos, got, unknown, open)
    BY <1>3, <1>4
  <2>2. QED  BY <2>1
<1>5. CASE i # M
  <2>1. i \in 1 .. All
    BY <1>1, <1>5
  <2>2. ASSUME Blank(i) PROVE FALSE
    <3> DEFINE j == i + 1
    <3>1. j \in 1 .. M /\ ~(j <= i)
      BY <1>1, <2>1
    <3>2. j = i + 1
      OBVIOUS
    <3> HIDE DEF j
    <3>3. Here(j)
      BY <1>3, <2>1, <2>2, <3>2, PastBlank
    <3>4. j \in T
      BY <3>1, <3>3
    <3>5. QED  BY <1>3, <3>1, <3>4
  <2>3. i \in 1 .. All + 1 /\ At(c, g, i, pos, got, unknown, open)
    BY <1>3
  <2>4. QED  BY <2>1, <2>2, <2>3
<1>6. QED  BY <1>4, <1>5

(* An item that a reader stands at begins in the body; its tag is read     *)
(* back, and what is cut off of it is its end.                             *)
LEMMA AtItem ==
    ASSUME MInv, Reading, ~Foreigner, NEW c, NEW g, Walk(to, name, g, kept, <<>>),
           Laid(c, All + 1, out), NEW i \in 1 .. All, ~Blank(i), NEW j, j = i + 1,
           pos = c[i], pos <= Len(body) + 1, NEW u, u = ItemOf(i),
           NEW q, q = pos + Len(u.tag)
    PROVE  /\ Wired(u) /\ q \in Nat /\ q > pos /\ pos <= Len(body)
           /\ Reads(TagRead, u.tag, q, Len(body))
           /\ Agrees(AfterTag(u), body, q) /\ c[j] = q + Len(AfterTag(u))
           /\ body = out => c[j] <= Len(body) + 1
<1>1. SenderInv /\ ReadingInv /\ WritingInv /\ SentInv
  BY DEF MInv
<1>2. /\ body \in Seq(Byte) /\ pos \in Nat /\ pos >= 1 /\ out \in Seq(Byte)
      /\ body = CString(out)
  BY <1>1 DEF ReadingInv, WritingInv, SentInv, Sent, Reading
<1>3. Wired(u) /\ ItemBytes(i) = UnknownBytes(u)
  BY <1>1, ItemIs
<1> DEFINE b == UnknownBytes(u)
<1>4. b \in Seq(Byte) /\ Len(b) \in Nat /\ Len(b) >= 1 /\ b[1] # 0
  BY <1>1, <1>3, ItemWritten, WiredBegins
<1>5. c[j] = pos + Len(b) /\ Agrees(b, out, pos) /\ c[j] <= Len(out) + 1
  <2>1. All \in Nat
    BY <1>1, AllNat
  <2>2. i < All + 1 /\ j \in 1 .. All + 1 /\ j <= All + 1
    BY <2>1
  <2>3. QED  BY <1>3, <2>2 DEF Laid
<1>6. /\ Len(body) \in 0 .. Len(out) /\ Len(out) \in Nat
      /\ \A k \in 1 .. Len(body) : body[k] = out[k]
      /\ body # out => Len(body) < Len(out) /\ out[Len(body) + 1] = 0
  BY <1>2, CStringCut, LenProperties
<1>7. Agrees(b, body, pos)
  <2> HIDE DEF b
  <2>1. QED  BY <1>2, <1>4, <1>5, <1>6, AgreesShorter
<1>8. /\ q \in Nat /\ q > pos /\ Agrees(AfterTag(u), body, q)
      /\ pos + Len(b) = q + Len(AfterTag(u))
      /\ Reads(TagRead, u.tag, q, Len(body))
  BY <1>2, <1>3, <1>7, TagBack
<1> HIDE DEF b
<1>9. pos <= Len(body)
  <2> SUFFICES ASSUME ~(pos <= Len(body)) PROVE FALSE
    OBVIOUS
  <2> DEFINE L == Len(body)
             M == Len(out)
             n == Len(b)
  <2>1. /\ L \in Nat /\ M \in Nat /\ n \in Nat /\ n >= 1 /\ pos \in Nat
        /\ pos <= L + 1 /\ ~(pos <= L) /\ pos + n <= M + 1
    BY <1>2, <1>4, <1>5, <1>6
  <2> HIDE DEF L, M, n
  <2>2. pos = L + 1 /\ L # M /\ 1 \in 1 .. n /\ pos + 1 - 1 <= M /\ pos + 1 - 1 = pos
    BY <2>1
  <2>3. out[pos] = b[1]
    <3>1. \A k \in 1 .. n : pos + k - 1 <= M => out[pos + k - 1] = b[k]
      BY <1>5 DEF Agrees, n, M
    <3>2. out[pos + 1 - 1] = b[1]
      BY <2>2, <3>1
    <3>3. QED  BY <2>2, <3>2
  <2>4. body # out
    BY <2>2 DEF L, M
  <2>5. out[pos] = 0
    BY <1>6, <2>2, <2>4 DEF L
  <2>6. QED  BY <1>4, <2>3, <2>5
<1>10. QED  BY <1>3, <1>5, <1>8, <1>9

(* What depends on the sender alone stays while the sender does.           *)
LEMMA SenderSame ==
    ASSUME sender' = sender
    PROVE  /\ name' = name /\ to' = to /\ kept' = kept /\ sent' = sent
           /\ N' = N /\ All' = All /\ (Foreigner' <=> Foreigner)
           /\ Strays' = Strays
           /\ \A i : /\ Holds(i)' = Holds(i) /\ Found(i)' = Found(i)
                     /\ (Accepted(i)' <=> Accepted(i)) /\ ItemBytes(i)' = ItemBytes(i)
                     /\ (Written(i)' <=> Written(i))
                     /\ (Refused(ReaderType(i), sent[i])' <=> Refused(ReaderType(i), sent[i]))
<1>1. /\ name' = name /\ from' = from /\ sent' = sent /\ kept' = kept /\ to' = to
  BY DEF sender
<1>2. N' = N /\ All' = All /\ (Foreigner' <=> Foreigner)
  BY <1>1 DEF N, All, Foreigner
<1>3. \A i : (Written(i)' <=> Written(i)) /\ TypeOf(i)' = TypeOf(i)
             /\ ReaderType(i)' = ReaderType(i)
             /\ (Refused(ReaderType(i), sent[i])' <=> Refused(ReaderType(i), sent[i]))
  BY <1>1 DEF Written, TypeOf, ReaderType, Refused
<1>4. \A i : Arrives(i)' <=> Arrives(i)
  BY <1>1, <1>3 DEF Arrives, Stored
<1>5. \A i : StrayOf(i)' = StrayOf(i)
  BY <1>1, <1>3, <1>4 DEF StrayOf
<1>6. Strays' = Strays
  BY <1>2, <1>5 DEF Strays
<1>7. \A i : Holds(i)' = Holds(i)
  BY <1>1, <1>2, <1>3, <1>4 DEF Holds
<1>8. \A i : Found(i)' = Found(i)
  BY <1>1, <1>2, <1>5, <1>6 DEF Found
<1>9. \A i : Accepted(i)' <=> Accepted(i)
  BY <1>2, <1>3 DEF Accepted
<1>10. \A i : ItemBytes(i)' = ItemBytes(i)
  BY <1>1, <1>2, <1>3 DEF ItemBytes
<1>11. QED  BY <1>1, <1>2, <1>3, <1>6, <1>7, <1>8, <1>9, <1>10

(* The items that lie there stay there.                                    *)
LEMMA LaidKept ==
    ASSUME sender' = sender, NEW c, Laid(c, next', out')
    PROVE  Laid(c, next, out)'
<1>1. All' = All /\ \A i : ItemBytes(i)' = ItemBytes(i)
  BY SenderSame
<1>2. QED  BY <1>1 DEF Laid, Agrees

(* The same of all items.                                                  *)
LEMMA LaidAllKept ==
    ASSUME sender' = sender, NEW c, Laid(c, All + 1, out')
    PROVE  Laid(c, All + 1, out)'
<1>1. All' = All /\ \A i : ItemBytes(i)' = ItemBytes(i)
  BY SenderSame
<1>2. QED  BY <1>1 DEF Laid, Agrees

(* A reader keeps its place among the items of the same sender.            *)
LEMMA AtKept ==
    ASSUME sender' = sender, NEW c, NEW g, NEW i, At(c, g, i, pos', got', unknown', open')
    PROVE  At(c, g, i, pos, got, unknown, open)'
<1>1. N' = N /\ Holds(i)' = Holds(i) /\ Found(i)' = Found(i) /\ (Accepted(i)' <=> Accepted(i))
  BY SenderSame
<1>2. QED  BY <1>1 DEF At

-----------------------------------------------------------------------------
(* The invariant of a message on its way.                                  *)
\* The items that are written lie one behind the other.
Laying == ~Foreigner => \E c : Laid(c, next, out)

\* A reader stands before one of the items, and has what came before it.
Standing(c, g) == /\ Laid(c, All + 1, out) /\ Walk(to, name, g, kept, <<>>)
                  /\ \E i \in 1 .. All + 1 : At(c, g, i, pos, got, unknown, open)

Coming == Reading /\ ~Foreigner => pos <= Len(body) + 1 /\ \E c, g : Standing(c, g)

\* It has come past all of them.
Came == Read /\ ~Foreigner => /\ body = out /\ got = Holds(All + 1)
                              /\ unknown = Strays \o kept /\ Accepted(All + 1)
                              /\ Initialized

\* Why a reader fails at a message that is whole.
Faulty == \/ \E k \in 1 .. N : Written(k) /\ Refused(ReaderType(k), sent[k])
          \/ to = "Plat" /\ name = "LoginSubGameRequest" /\ ~Written(2)

Refusal == at = "fail" /\ ~Foreigner /\ body = out => Faulty

FaithfulInv == Laying /\ Coming /\ Came /\ Refusal

LEMMA FaultyKept == ASSUME sender' = sender PROVE Faulty' <=> Faulty
<1>1. /\ N' = N /\ to' = to /\ name' = name
      /\ \A k : (Written(k)' <=> Written(k))
                /\ (Refused(ReaderType(k), sent[k])' <=> Refused(ReaderType(k), sent[k]))
  BY SenderSame
<1>2. QED  BY <1>1 DEF Faulty

LEMMA LayingKept ==
    ASSUME Laying, sender' = sender, writing' = writing
    PROVE  Laying'
<1>1. next' = next /\ out' = out /\ (Foreigner' <=> Foreigner)
  BY SenderSame DEF writing
<1>2. ~Foreigner => \E c : Laid(c, next', out')
  BY <1>1 DEF Laying
<1>3. QED  BY <1>1, <1>2, LaidKept DEF Laying

(* A reader that comes to stand before another item.                       *)
LEMMA ComesOn ==
    ASSUME FaithfulInv, Reading, sender' = sender, writing' = writing, at' = at, NEW c, NEW g,
           Laid(c, All + 1, out), Walk(to, name, g, kept, <<>>), NEW i \in 1 .. All + 1,
           At(c, g, i, pos', got', unknown', open'), pos' <= Len(body') + 1
    PROVE  FaithfulInv'
<1>1. Laying'
  BY LayingKept DEF FaithfulInv
<1>2. out' = out /\ name' = name /\ to' = to /\ kept' = kept /\ All' = All
  BY SenderSame DEF writing
<1>3. Laid(c, All + 1, out)'
  BY <1>2, LaidAllKept
<1>4. Walk(to, name, g, kept, <<>>)'
  BY <1>2
<1>5. At(c, g, i, pos, got, unknown, open)'
  BY AtKept
<1>6. Standing(c, g)'
  BY <1>2, <1>3, <1>4, <1>5 DEF Standing
<1>7. Coming'
  BY <1>6 DEF Coming
<1>8. at' \in {"reader", "again"}
  BY DEF Reading
<1>9. Came' /\ Refusal'
  BY <1>8 DEF Came, Refusal, Read
<1>10. QED  BY <1>1, <1>7, <1>9 DEF FaithfulInv

(* A reader that fails, at a message that is cut or faulty.                *)
LEMMA Fails ==
    ASSUME FaithfulInv, Fail, ~Foreigner /\ body = out => Faulty
    PROVE  FaithfulInv'
<1>1. sender' = sender /\ writing' = writing /\ reading' = reading /\ at' = "fail"
  BY DEF Fail
<1>2. Laying'
  BY <1>1, LayingKept DEF FaithfulInv
<1>3. body' = body /\ out' = out /\ (Foreigner' <=> Foreigner)
  BY <1>1, SenderSame DEF writing, reading
<1>4. Refusal'
  BY <1>1, <1>3, FaultyKept DEF Refusal
<1>5. Coming' /\ Came'
  BY <1>1 DEF Coming, Came, Reading, Read
<1>6. QED  BY <1>2, <1>4, <1>5 DEF FaithfulInv

(* Nothing is known of a message of another version.                       *)
LEMMA ForeignFaithful ==
    ASSUME Foreigner' PROVE FaithfulInv'
BY DEF FaithfulInv, Laying, Coming, Came, Refusal

(* So a reader stands at an item that is not blank, or behind them all.    *)
LEMMA StandsAtItem ==
    ASSUME MInv, FaithfulInv, Reading, ~Foreigner
    PROVE  \E c, g : /\ Laid(c, All + 1, out) /\ Walk(to, name, g, kept, <<>>)
                     /\ \E i \in 1 .. All + 1 :
                           /\ At(c, g, i, pos, got, unknown, open)
                           /\ (i = All + 1) \/ (i \in 1 .. All /\ ~Blank(i))
<1>1. SenderInv /\ ReadingInv
  BY DEF MInv
<1>2. PICK c, g : Standing(c, g)
  BY DEF FaithfulInv, Coming
<1>3. PICK l \in 1 .. All + 1 : At(c, g, l, pos, got, unknown, open)
  BY <1>2 DEF Standing
<1>4. Laid(c, All + 1, out) /\ Walk(to, name, g, kept, <<>>)
  BY <1>2 DEF Standing
<1>5. \E i \in 1 .. All + 1 : /\ At(c, g, i, pos, got, unknown, open)
                              /\ (i = All + 1) \/ (i \in 1 .. All /\ ~Blank(i))
  BY <1>1, <1>3, <1>4, ReaderStands
<1>6. QED  BY <1>4, <1>5, Zenon

-----------------------------------------------------------------------------
(* A reader that has bytes left stands at an item.                         *)
LEMMA InItem ==
    ASSUME MInv, FaithfulInv, Reading, ~Foreigner, pos <= Len(body)
    PROVE  \E c, g : /\ Laid(c, All + 1, out) /\ Walk(to, name, g, kept, <<>>)
                     /\ \E i \in 1 .. All :
                           At(c, g, i, pos, got, unknown, open) /\ ~Blank(i)
<1>1. PICK c, g : /\ Laid(c, All + 1, out) /\ Walk(to, name, g, kept, <<>>)
                  /\ \E i \in 1 .. All + 1 :
                        /\ At(c, g, i, pos, got, unknown, open)
                        /\ (i = All + 1) \/ (i \in 1 .. All /\ ~Blank(i))
  BY StandsAtItem, Zenon
<1>2. PICK i \in 1 .. All + 1 : /\ At(c, g, i, pos, got, unknown, open)
                                /\ (i = All + 1) \/ (i \in 1 .. All /\ ~Blank(i))
  BY <1>1
<1>3. i # All + 1
  <2> SUFFICES ASSUME i = All + 1 PROVE FALSE
    OBVIOUS
  <2>1. pos = c[All + 1]
    BY <1>2 DEF At
  <2>2. c[All + 1] = Len(out) + 1
    BY <1>1 DEF Laid
  <2>3. out \in Seq(Byte) /\ body = CString(out)
    BY DEF MInv, WritingInv, SentInv, Sent, Reading
  <2>4. Len(body) \in 0 .. Len(out) /\ Len(out) \in Nat
    BY <2>3, CStringCut, LenProperties
  <2>5. QED  BY <2>1, <2>2, <2>4
<1>4. i \in 1 .. All /\ ~Blank(i) /\ At(c, g, i, pos, got, unknown, open)
  BY <1>2, <1>3
<1>5. \E l \in 1 .. All : At(c, g, l, pos, got, unknown, open) /\ ~Blank(l)
  BY <1>4
<1>6. QED  BY <1>1, <1>5, Zenon

(* A bad tag is met only where the body was cut.                           *)
LEMMA BadTagFaithful ==
    ASSUME MInv, FaithfulInv, ReadBadTag PROVE FaithfulInv'
<1>1. Reading /\ pos <= Len(body) /\ Fail
      /\ (~TagRead.ok \/ (Len(TagRead.val) = 1 /\ TagRead.val[1] < 8))
  BY DEF ReadBadTag
<1>2. ASSUME ~Foreigner PROVE body # out
  <2>1. PICK c, g : /\ Laid(c, All + 1, out) /\ Walk(to, name, g, kept, <<>>)
                    /\ \E i \in 1 .. All :
                          At(c, g, i, pos, got, unknown, open) /\ ~Blank(i)
    BY <1>1, <1>2, InItem, Zenon
  <2>2. PICK i \in 1 .. All : At(c, g, i, pos, got, unknown, open) /\ ~Blank(i)
    BY <2>1
  <2> DEFINE j == i + 1
             u == ItemOf(i)
             q == pos + Len(u.tag)
  <2>3. pos = c[i] /\ pos <= Len(body) + 1
    <3>1. pos \in Nat /\ Len(body) \in Nat
      BY LenProperties DEF MInv, ReadingInv
    <3>2. QED  BY <1>1, <2>2, <3>1 DEF At
  <2>4. j = i + 1 /\ u = ItemOf(i) /\ q = pos + Len(u.tag)
    OBVIOUS
  <2> HIDE DEF j, u, q
  <2>5. /\ Wired(u) /\ q \in Nat /\ Reads(TagRead, u.tag, q, Len(body))
        /\ c[j] = q + Len(AfterTag(u))
        /\ body = out => c[j] <= Len(body) + 1
    BY <1>1, <1>2, <2>1, <2>2, <2>3, <2>4, AtItem
  <2>6. ~(q <= Len(body) + 1)
    <3>1. u.tag \in Num /\ (Len(u.tag) > 1 \/ u.tag[1] >= 8)
      BY <2>5 DEF Wired
    <3>2. Len(u.tag) \in Nat /\ (Len(u.tag) = 1 => u.tag[1] \in 0 .. 127)
      BY <3>1, VarintBytes
    <3>3. ~(Len(u.tag) = 1 /\ u.tag[1] < 8)
      <4> DEFINE n == Len(u.tag)
                 t == u.tag[1]
      <4>1. (n > 1 \/ t >= 8) /\ n \in Nat /\ (n = 1 => t \in 0 .. 127)
        BY <3>1, <3>2
      <4> HIDE DEF n, t
      <4>2. ~(n = 1 /\ t < 8)
        BY <4>1
      <4>3. QED  BY <4>2 DEF n, t
    <3>4. QED  BY <1>1, <2>5, <3>3 DEF Reads
  <2>7. Len(AfterTag(u)) \in Nat /\ Len(body) \in Nat
    BY <2>5, AfterTagBytes, LenProperties DEF MInv, ReadingInv
  <2>8. ~(c[j] <= Len(body) + 1)
    BY <2>5, <2>6, <2>7
  <2>9. QED  BY <2>5, <2>8
<1>3. ~Foreigner /\ body = out => Faulty
  BY <1>2
<1>4. QED  BY <1>1, <1>3, Fails

\* The tag that is read is the one of item i, where the reader stands.
TagAt(c, g, i) ==
    /\ At(c, g, i, pos, got, unknown, open) /\ ~Blank(i)
    /\ Wired(ItemOf(i)) /\ TagRead.val = ItemOf(i).tag
    /\ TagRead.next \in Nat /\ TagRead.next >= 1 /\ TagRead.next <= Len(body) + 1
    /\ Agrees(AfterTag(ItemOf(i)), body, TagRead.next)
    /\ c[i + 1] = TagRead.next + Len(AfterTag(ItemOf(i)))
    /\ body = out => c[i + 1] <= Len(body) + 1

(* A tag that can be read at all is that of an item.                       *)
LEMMA TagOfItem ==
    ASSUME MInv, FaithfulInv, Reading, ~Foreigner, pos <= Len(body), TagRead.ok
    PROVE  \E c, g : /\ Laid(c, All + 1, out) /\ Walk(to, name, g, kept, <<>>)
                     /\ \E i \in 1 .. All : TagAt(c, g, i)
<1>1. PICK c, g : /\ Laid(c, All + 1, out) /\ Walk(to, name, g, kept, <<>>)
                  /\ \E i \in 1 .. All :
                        At(c, g, i, pos, got, unknown, open) /\ ~Blank(i)
  BY InItem, Zenon
<1>2. PICK i \in 1 .. All : At(c, g, i, pos, got, unknown, open) /\ ~Blank(i)
  BY <1>1
<1> DEFINE j == i + 1
           u == ItemOf(i)
           q == pos + Len(u.tag)
<1>3. pos = c[i] /\ pos <= Len(body) + 1 /\ pos \in Nat /\ pos >= 1
  <2>1. pos \in Nat /\ pos >= 1 /\ Len(body) \in Nat
    BY LenProperties DEF MInv, ReadingInv
  <2>2. QED  BY <1>2, <2>1 DEF At
<1>4. j = i + 1 /\ u = ItemOf(i) /\ q = pos + Len(u.tag)
  OBVIOUS
<1> HIDE DEF j, u, q
<1>5. /\ Wired(u) /\ q \in Nat /\ q > pos /\ Reads(TagRead, u.tag, q, Len(body))
      /\ Agrees(AfterTag(u), body, q) /\ c[j] = q + Len(AfterTag(u))
      /\ body = out => c[j] <= Len(body) + 1
  BY <1>1, <1>2, <1>3, <1>4, AtItem
<1>6. q <= Len(body) + 1 /\ TagRead.val = u.tag /\ TagRead.next = q
  BY <1>5 DEF Reads
<1>7. q >= 1
  BY <1>3, <1>5
<1>8. TagAt(c, g, i)
  BY <1>2, <1>4, <1>5, <1>6, <1>7 DEF TagAt
<1>9. \E l \in 1 .. All : TagAt(c, g, l)
  BY <1>8
<1>10. QED  BY <1>1, <1>9, Zenon

(* A tag that belongs to a known field is either the tag of that field, or *)
(* of a number sent along that the field refused before.                   *)
LEMMA FieldAtItem ==
    ASSUME MInv, Reading, ~Foreigner, NEW c, NEW g, Walk(to, name, g, kept, <<>>),
           NEW i \in 1 .. All, TagAt(c, g, i), NEW k \in DOMAIN got, IsField(TagRead.val, k)
    PROVE  /\ i <= N => /\ k = i /\ Written(i) /\ Fitting(ReaderType(k), sent[i])
                        /\ AfterTag(ItemOf(i)) = ValueBytes(ReaderType(k), sent[i])
           /\ i > N => /\ Fitting(ReaderType(k), kept[i - N].val)
                       /\ ~Keeps(to, ReaderType(k), kept[i - N].val)
                       /\ AfterTag(ItemOf(i)) = ValueBytes(ReaderType(k), kept[i - N].val)
                       /\ open = <<>> /\ g[i + 1 - N] = <<>>
<1>1. SenderInv /\ ReadingInv
  BY DEF MInv
<1>2. /\ N \in 1 .. 8 /\ Len(kept) \in Nat /\ All = N + Len(kept)
      /\ DOMAIN Types(to, name) = 1 .. N
      /\ \A l \in 1 .. N : Alike(TypeOf(l), ReaderType(l))
  BY <1>1, SenderNumbers
<1>3. DOMAIN got = DOMAIN Types(to, name)
  BY <1>1, ReadersFields DEF Filled
<1>4. k \in 1 .. N /\ k \in 1 .. 8
  BY <1>2, <1>3
<1>5. open = <<>> /\ TagRead.val = FieldTagOf(k, ReaderType(k))
  BY DEF IsField, FieldTagOf, ReaderType
<1>6. ItemOf(i).tag = FieldTagOf(k, ReaderType(k)) /\ ~Blank(i)
  BY <1>5 DEF TagAt
<1>7. CASE i <= N
  <2>1. i \in 1 .. N /\ i \in 1 .. 8 /\ ~(i > N)
    BY <1>2, <1>7
  <2>2. Written(i)
    BY <1>6, <1>7 DEF Blank
  <2>3. ItemOf(i) = FieldItem(i, TypeOf(i), sent[i])
    BY <2>1 DEF ItemOf
  <2>4. FieldTagOf(i, TypeOf(i)) = FieldTagOf(k, ReaderType(k))
    BY <1>6, <2>3 DEF FieldItem
  <2>5. k = i
    BY <1>4, <2>1, <2>4, TagsDiffer
  <2>6. Fitting(TypeOf(i), sent[i])
    BY <1>1, <1>6, <1>7, ItemIs
  <2>7. AfterTag(ItemOf(i)) = ValueBytes(TypeOf(i), sent[i])
    BY <2>1, <2>3, <2>6, FieldIsItem
  <2>8. Alike(TypeOf(i), ReaderType(i))
    BY <1>2, <2>1
  <2>9. Fitting(ReaderType(i), sent[i]) /\ ValueBytes(TypeOf(i), sent[i]) = ValueBytes(ReaderType(i), sent[i])
    BY <2>6, <2>8, AlikeKinds
  <2>10. QED  BY <2>1, <2>2, <2>5, <2>7, <2>9
<1>8. CASE i > N
  <2> DEFINE m == i - N
             u == kept[m]
             o == g[m + 1]
  <2>1. m \in 1 .. Len(kept) /\ ~(i <= N) /\ m + 1 = i + 1 - N
    BY <1>2, <1>8
  <2>2. open = g[m] /\ ItemOf(i) = u
    BY <1>8, <2>1 DEF TagAt, At, ItemOf
  <2>3. Leads(to, name, <<>>, u, o)
    BY <1>5, <2>1, <2>2 DEF Walk
  <2>4. u.tag = FieldTagOf(k, ReaderType(k))
    BY <1>6, <2>2
  <2> HIDE DEF u, o
  <2>5. /\ o = <<>>
        /\ \E l \in DOMAIN Types(to, name) : /\ u.tag = FieldTagOf(l, ReaderType(l))
                                             /\ Fitting(ReaderType(l), u.val)
                                             /\ ~Keeps(to, ReaderType(l), u.val)
    BY <1>2, <1>4, <2>3, <2>4 DEF Leads, ReaderType
  <2>6. PICK l \in 1 .. N : /\ u.tag = FieldTagOf(l, ReaderType(l))
                            /\ Fitting(ReaderType(l), u.val)
                            /\ ~Keeps(to, ReaderType(l), u.val)
    BY <1>2, <2>5
  <2>7. l \in 1 .. 8
    BY <1>2
  <2>8. l = k
    BY <1>4, <2>4, <2>6, <2>7, TagsDiffer
  <2> DEFINE f == FieldItem(k, ReaderType(k), u.val)
  <2>9. f.tag = u.tag /\ f.val = u.val
    BY <2>4 DEF FieldItem
  <2>10. AfterTag(f) = ValueBytes(ReaderType(k), u.val)
    BY <1>4, <2>6, <2>8, FieldIsItem
  <2> HIDE DEF f
  <2>11. AfterTag(u) = AfterTag(f)
    BY <2>9 DEF AfterTag
  <2>12. /\ Fitting(ReaderType(k), u.val) /\ ~Keeps(to, ReaderType(k), u.val)
         /\ AfterTag(ItemOf(i)) = ValueBytes(ReaderType(k), u.val)
         /\ open = <<>> /\ g[i + 1 - N] = <<>>
    BY <1>5, <2>1, <2>2, <2>5, <2>6, <2>8, <2>10, <2>11 DEF o
  <2>13. QED  BY <2>1, <2>12 DEF u
<1>9. i <= N \/ i > N
  BY <1>2
<1>10. QED  BY <1>7, <1>8, <1>9

(* A field: it is stored, left among the unknown ones, refused, or cut.    *)
LEMMA ReadFieldFaithful ==
    ASSUME MInv, RereadInv, FaithfulInv, ReadField, ~Foreigner PROVE FaithfulInv'
<1>1. SenderInv /\ ReadingInv
  BY DEF MInv
<1>2. Reading /\ pos <= Len(body) /\ TagRead.ok
  BY DEF ReadField
<1>3. PICK c, g : /\ Laid(c, All + 1, out) /\ Walk(to, name, g, kept, <<>>)
                  /\ \E i \in 1 .. All : TagAt(c, g, i)
  BY <1>2, TagOfItem, Zenon
<1>4. PICK i \in 1 .. All : TagAt(c, g, i)
  BY <1>3
<1>5. /\ N \in 1 .. 8 /\ Len(kept) \in Nat /\ All = N + Len(kept) /\ All \in Nat
  BY <1>1, AllNat
<1> DEFINE r(k) == ReadPrimitive(body, TagRead.next, ReaderType(k))
<1>6. PICK k \in DOMAIN got :
         /\ IsField(TagRead.val, k)
         /\ IF ~r(k).ok \/ Refused(ReaderType(k), r(k).val) THEN Fail
            ELSE /\ pos' = r(k).next
                 /\ IF Stored(ReaderType(k), r(k).val)
                      THEN /\ got' = [got EXCEPT ![k] = r(k).val]
                           /\ UNCHANGED unknown
                      ELSE /\ unknown' = Append(unknown,
                                 [tag |-> TagRead.val, val |-> r(k).val])
                           /\ UNCHANGED got
                 /\ UNCHANGED <<sender, writing, body, open, at>>
  BY DEF ReadField, ReaderType
<1> DEFINE T == ReaderType(k)
           j == i + 1
           p == TagRead.next
           L == Len(body)
           x == r(k)
<1>7. /\ At(c, g, i, pos, got, unknown, open) /\ TagRead.val = ItemOf(i).tag
      /\ p \in Nat /\ p >= 1 /\ Agrees(AfterTag(ItemOf(i)), body, p)
      /\ c[j] = p + Len(AfterTag(ItemOf(i))) /\ (body = out => c[j] <= L + 1)
  BY <1>4 DEF TagAt
<1>8. body \in Seq(Byte) /\ L \in Nat /\ c[j] \in Nat
  <2>1. j \in 1 .. All + 1
    BY <1>5
  <2>2. QED  BY <1>1, <1>3, <2>1, LenProperties DEF ReadingInv, Laid
<1>9. /\ i <= N => /\ k = i /\ Written(i) /\ Fitting(T, sent[i])
                   /\ AfterTag(ItemOf(i)) = ValueBytes(T, sent[i])
      /\ i > N => /\ Fitting(T, kept[i - N].val) /\ ~Keeps(to, T, kept[i - N].val)
                  /\ AfterTag(ItemOf(i)) = ValueBytes(T, kept[i - N].val)
                  /\ open = <<>> /\ g[i + 1 - N] = <<>>
  BY <1>2, <1>3, <1>4, <1>6, FieldAtItem
<1>10. g[1] = <<>>
  BY <1>3 DEF Walk
<1>11. x = ReadPrimitive(body, p, T)
  OBVIOUS
<1>12. IF ~x.ok \/ Refused(T, x.val) THEN Fail
       ELSE /\ pos' = x.next
            /\ IF Stored(T, x.val)
                 THEN got' = [got EXCEPT ![k] = x.val] /\ unknown' = unknown
                 ELSE /\ unknown' = Append(unknown, [tag |-> TagRead.val, val |-> x.val])
                      /\ got' = got
            /\ sender' = sender /\ writing' = writing /\ body' = body /\ open' = open
            /\ at' = at
  BY <1>6
<1>13. j = i + 1 /\ j \in 1 .. All + 1
  BY <1>5
<1> HIDE DEF T, j, p, L, x, r
<1>14. ASSUME NEW v, Fitting(T, v), AfterTag(ItemOf(i)) = ValueBytes(T, v)
       PROVE  Reads(x, v, c[j], L)
  <2>1. Agrees(ValueBytes(T, v), body, p) /\ c[j] = p + Len(ValueBytes(T, v))
    BY <1>7, <1>14
  <2>2. QED  BY <1>7, <1>8, <1>11, <1>14, <2>1, PrimitiveBack DEF L
<1>15. ASSUME ~x.ok, NEW v, Reads(x, v, c[j], L) PROVE FaithfulInv'
  <2>1. body # out
    BY <1>7, <1>15 DEF Reads
  <2>2. QED  BY <1>12, <1>15, <2>1, Fails
<1>16. CASE i <= N
  <2>1. Reads(x, sent[i], c[j], L)
    BY <1>9, <1>14, <1>16
  <2>2. i \in 1 .. N
    BY <1>5, <1>16
  <2>3. CASE ~x.ok
    BY <1>15, <2>1, <2>3
  <2>4. CASE x.ok
    <3>1. x.val = sent[i] /\ x.next = c[j] /\ c[j] <= L + 1
      BY <2>1, <2>4 DEF Reads
    <3>2. k = i /\ Written(i) /\ T = ReaderType(i)
      BY <1>9, <1>16 DEF T
    <3>3. CASE Refused(T, sent[i])
      <4>1. Faulty
        BY <2>2, <3>2, <3>3 DEF Faulty
      <4>2. Fail
        BY <1>12, <3>1, <3>3
      <4>3. QED  BY <4>1, <4>2, Fails
    <3>4. CASE ~Refused(T, sent[i])
      <4>1. /\ pos' = c[j] /\ sender' = sender /\ writing' = writing /\ body' = body
            /\ open' = open /\ at' = at
            /\ IF Stored(T, sent[i])
                 THEN got' = [got EXCEPT ![i] = sent[i]] /\ unknown' = unknown
                 ELSE /\ unknown' = Append(unknown, [tag |-> TagRead.val, val |-> sent[i]])
                      /\ got' = got
        BY <1>12, <2>4, <3>1, <3>2, <3>4
      <4>2. Arrives(i) <=> Stored(T, sent[i])
        BY <3>2 DEF Arrives, ReaderType
      <4> DEFINE f2 == IF Arrives(i) THEN [got EXCEPT ![i] = sent[i]] ELSE got
                 u2 == unknown \o StrayOf(i)
                 q == c[j]
      <4>3. At(c, g, j, q, f2, u2, open)
        <5>1. q = c[j]
          OBVIOUS
        <5> HIDE DEF q
        <5>2. At(c, g, j, q, IF Arrives(i) THEN [got EXCEPT ![i] = sent[i]] ELSE got,
                 unknown \o StrayOf(i), open)
          BY <1>1, <1>7, <1>10, <1>13, <2>2, <3>2, <3>4, <5>1, PastField
        <5>3. QED  BY <5>2
      <4>4. f2 = got'
        BY <4>1, <4>2
      <4>5. unknown \in Seq(Stray)
        BY <1>1 DEF ReadingInv
      <4>6. u2 = unknown'
        <5>1. CASE Arrives(i)
          <6>1. StrayOf(i) = <<>> /\ unknown' = unknown
            BY <4>1, <4>2, <5>1 DEF StrayOf
          <6>2. unknown \o <<>> = unknown
            BY <4>5, ConcatEmptySeq
          <6>3. QED  BY <6>1, <6>2
        <5>2. CASE ~Arrives(i)
          <6> DEFINE s == [tag |-> TagRead.val, val |-> sent[i]]
          <6>1. TagRead.val = FieldTagOf(i, TypeOf(i))
            <7>1. ~(i > N)
              BY <1>5, <1>16
            <7>2. QED  BY <1>7, <7>1 DEF ItemOf, FieldItem
          <6>2. StrayOf(i) = <<s>>
            BY <3>2, <5>2, <6>1 DEF StrayOf, FieldTagOf
          <6>3. unknown' = Append(unknown, s)
            BY <4>1, <4>2, <5>2
          <6> HIDE DEF s
          <6>4. Append(unknown, s) = unknown \o <<s>>
            BY <4>5
          <6>5. QED  BY <6>2, <6>3, <6>4
        <5>3. QED  BY <5>1, <5>2
      <4> HIDE DEF f2, u2, q
      <4>7. At(c, g, j, pos', got', unknown', open')
        BY <4>1, <4>3, <4>4, <4>6 DEF q
      <4>8. pos' <= Len(body') + 1
        BY <3>1, <4>1 DEF L
      <4>9. QED  BY <1>2, <1>3, <1>13, <4>1, <4>7, <4>8, ComesOn
    <3>5. QED  BY <3>3, <3>4
  <2>5. QED  BY <2>3, <2>4
<1>17. CASE i > N
  <2> DEFINE m == i - N
             u == kept[m]
  <2>1. m \in 1 .. Len(kept) /\ j - N = i + 1 - N
    BY <1>5, <1>13, <1>17
  <2>2. u \in Stray
    BY <1>1, <2>1, ElementOfSeq DEF SenderInv
  <2>3. ItemOf(i) = u
    BY <1>17 DEF ItemOf
  <2>4. /\ Fitting(T, u.val) /\ ~Keeps(to, T, u.val) /\ open = <<>> /\ g[j - N] = <<>>
        /\ AfterTag(ItemOf(i)) = ValueBytes(T, u.val)
    BY <1>9, <1>17, <2>1
  <2>5. u = [tag |-> TagRead.val, val |-> u.val]
    <3> HIDE DEF u
    <3>1. u \in [tag : Num, val : Num \cup Seq(Byte)]
      BY <2>2 DEF Stray
    <3>2. u = [tag |-> u.tag, val |-> u.val]
      BY <3>1
    <3>3. QED  BY <1>7, <2>3, <3>2
  <2> HIDE DEF u
  <2>6. Reads(x, u.val, c[j], L)
    BY <1>14, <2>4
  <2>7. CASE ~x.ok
    BY <1>15, <2>6, <2>7
  <2>8. CASE x.ok
    <3>1. x.val = u.val /\ x.next = c[j] /\ c[j] <= L + 1
      BY <2>6, <2>8 DEF Reads
    <3>2. ~Refused(T, x.val) /\ ~Stored(T, x.val)
      BY <2>4, <3>1 DEF Keeps, Refused, Stored
    <3>3. /\ pos' = c[j] /\ sender' = sender /\ writing' = writing /\ body' = body
          /\ open' = open /\ at' = at /\ got' = got /\ unknown' = Append(unknown, u)
      BY <1>12, <2>5, <2>8, <3>1, <3>2
    <3>4. At(c, g, j, pos', got, Append(unknown, kept[i - N]), g[j - N])
      <4> DEFINE q == c[j]
      <4>1. q = c[j] /\ pos' = q
        BY <3>3
      <4> HIDE DEF q
      <4>2. At(c, g, j, q, got, Append(unknown, kept[i - N]), g[j - N])
        BY <1>1, <1>7, <1>13, <1>17, <4>1, PastKept
      <4>3. QED  BY <4>1, <4>2
    <3>5. At(c, g, j, pos', got', unknown', open')
      BY <2>4, <3>3, <3>4 DEF u
    <3>6. pos' <= Len(body') + 1
      BY <3>1, <3>3 DEF L
    <3>7. QED  BY <1>2, <1>3, <1>13, <3>3, <3>5, <3>6, ComesOn
  <2>9. QED  BY <2>7, <2>8
<1>18. i <= N \/ i > N
  BY <1>5
<1>19. QED  BY <1>16, <1>17, <1>18

(* An unknown field: it is kept, or cut.                                   *)
LEMMA ReadUnknownFaithful ==
    ASSUME MInv, RereadInv, FaithfulInv, ReadUnknown, ~Foreigner PROVE FaithfulInv'
<1>1. SenderInv /\ ReadingInv
  BY DEF MInv
<1>2. Reading /\ pos <= Len(body) /\ TagRead.ok
  BY DEF ReadUnknown
<1>3. PICK c, g : /\ Laid(c, All + 1, out) /\ Walk(to, name, g, kept, <<>>)
                  /\ \E i \in 1 .. All : TagAt(c, g, i)
  BY <1>2, TagOfItem, Zenon
<1>4. PICK i \in 1 .. All : TagAt(c, g, i)
  BY <1>3
<1>5. /\ N \in 1 .. 8 /\ Len(kept) \in Nat /\ All = N + Len(kept) /\ All \in Nat
      /\ DOMAIN Types(to, name) = 1 .. N
      /\ \A l \in 1 .. N : Alike(TypeOf(l), ReaderType(l))
  BY <1>1, AllNat, SenderNumbers
<1>6. DOMAIN got = DOMAIN Types(to, name)
  BY <1>1, <1>2, ReadersFields DEF Filled
<1> DEFINE tag == TagRead.val
           p == TagRead.next
           r == SkipValue(tag, p)
           gr == GroupsAfter(tag)
           j == i + 1
           m == i - N
           u == kept[m]
           L == Len(body)
<1>7. /\ \A k \in DOMAIN got : ~IsField(tag, k)
      /\ IF r.ok /\ gr[1]
           THEN /\ pos' = r.next /\ open' = gr[2]
                /\ unknown' = Append(unknown, [tag |-> tag, val |-> r.val])
                /\ sender' = sender /\ writing' = writing /\ body' = body
                /\ got' = got /\ at' = at
           ELSE Fail
  BY DEF ReadUnknown
<1>8. /\ At(c, g, i, pos, got, unknown, open) /\ ~Blank(i) /\ tag = ItemOf(i).tag
      /\ Wired(ItemOf(i)) /\ p \in Nat /\ p >= 1 /\ p <= L + 1
      /\ Agrees(AfterTag(ItemOf(i)), body, p)
      /\ c[j] = p + Len(AfterTag(ItemOf(i)))
      /\ body = out => c[j] <= L + 1
  BY <1>4 DEF TagAt
<1>9. ~(i <= N)
  <2> SUFFICES ASSUME i <= N PROVE FALSE
    OBVIOUS
  <2>1. i \in 1 .. N /\ ~(i > N)
    BY <1>5
  <2>2. open = <<>>
    BY <1>8 DEF At
  <2>3. tag = FieldTagOf(i, TypeOf(i))
    BY <1>8, <2>1 DEF ItemOf, FieldItem
  <2>4. WireType(TypeOf(i)) = WireType(ReaderType(i))
    BY <1>5, <2>1, AlikeKinds
  <2>5. IsField(tag, i)
    BY <1>5, <1>6, <2>1, <2>2, <2>3, <2>4 DEF IsField, FieldTagOf, ReaderType
  <2>6. QED  BY <1>5, <1>6, <1>7, <2>1, <2>5
<1>10. /\ i > N /\ m \in 1 .. Len(kept) /\ m + 1 = j - N
       /\ j = i + 1 /\ j \in 1 .. All + 1
  BY <1>5, <1>9
<1>11. ItemOf(i) = u /\ open = g[m] /\ u \in Stray
  BY <1>1, <1>8, <1>9, <1>10, ElementOfSeq DEF ItemOf, At, SenderInv
<1>12. Leads(to, name, open, u, g[m + 1])
  BY <1>3, <1>10, <1>11 DEF Walk
<1>13. GroupsFrom(open, tag) = <<TRUE, g[j - N]>>
  <2>1. open = <<>> => \A k \in DOMAIN Types(to, name) :
                          tag # FieldTagOf(k, Types(to, name)[k])
    BY <1>6, <1>7 DEF IsField, FieldTagOf
  <2>2. tag = u.tag /\ m + 1 = j - N
    BY <1>8, <1>10, <1>11
  <2> HIDE DEF tag, u, j, m
  <2>3. QED  BY <1>12, <2>1, <2>2 DEF Leads
<1>14. gr[1] = TRUE /\ gr[2] = g[j - N]
  <2>1. gr = GroupsFrom(open, tag)
    BY DEF GroupsAfter, GroupsFrom
  <2> HIDE DEF gr
  <2>2. QED  BY <1>13, <2>1
<1>15. body \in Seq(Byte) /\ L \in Nat
  BY <1>1, LenProperties DEF ReadingInv
<1>16. Reads(r, u.val, c[j], L)
  <2> DEFINE q == c[j]
  <2>1. /\ Wired(u) /\ Agrees(AfterTag(u), body, p) /\ q = p + Len(AfterTag(u))
        /\ p \in Nat /\ p >= 1 /\ p <= Len(body) + 1 /\ tag = u.tag
    BY <1>8, <1>11
  <2> HIDE DEF q, u, p, tag
  <2>2. Reads(SkipValue(u.tag, p), u.val, q, Len(body))
    BY <1>15, <2>1, SkippedBack
  <2>3. QED  BY <2>1, <2>2 DEF q
<1> HIDE DEF tag, p, r, gr, j, m, u, L
<1>17. CASE ~r.ok
  <2>1. body # out
    BY <1>8, <1>16, <1>17 DEF Reads
  <2>2. QED  BY <1>7, <1>17, <2>1, Fails
<1>18. CASE r.ok
  <2>1. r.val = u.val /\ r.next = c[j] /\ c[j] <= L + 1
    BY <1>16, <1>18 DEF Reads
  <2>2. u = [tag |-> tag, val |-> u.val]
    <3>1. u \in [tag : Num, val : Num \cup Seq(Byte)]
      BY <1>11 DEF Stray
    <3>2. u = [tag |-> u.tag, val |-> u.val]
      BY <3>1
    <3>3. QED  BY <1>8, <1>11, <3>2
  <2>3. /\ pos' = c[j] /\ open' = g[j - N] /\ unknown' = Append(unknown, u)
        /\ sender' = sender /\ writing' = writing /\ body' = body
        /\ got' = got /\ at' = at
    BY <1>7, <1>14, <1>18, <2>1, <2>2
  <2>4. At(c, g, j, pos', got, Append(unknown, kept[i - N]), g[j - N])
    <3> DEFINE q == c[j]
    <3>1. q = c[j] /\ pos' = q
      BY <2>3
    <3> HIDE DEF q
    <3>2. At(c, g, j, q, got, Append(unknown, kept[i - N]), g[j - N])
      BY <1>1, <1>8, <1>10, <3>1, PastKept
    <3>3. QED  BY <3>1, <3>2
  <2>5. At(c, g, j, pos', got', unknown', open')
    BY <2>3, <2>4 DEF u, m
  <2>6. pos' <= Len(body') + 1
    BY <2>1, <2>3 DEF L
  <2>7. QED  BY <1>2, <1>3, <1>10, <2>3, <2>5, <2>6, ComesOn
<1>19. QED  BY <1>17, <1>18

(* At the end: what was written has been read, whole.                      *)
LEMMA AtEnd ==
    ASSUME MInv, FaithfulInv, Reading, ~Foreigner, pos > Len(body)
    PROVE  /\ body = out /\ got = Holds(All + 1) /\ unknown = Strays \o kept
           /\ Accepted(All + 1) /\ open = <<>>
<1>1. SenderInv /\ ReadingInv /\ WritingInv /\ SentInv
  BY DEF MInv
<1>2. PICK c, g : /\ Laid(c, All + 1, out) /\ Walk(to, name, g, kept, <<>>)
                  /\ \E i \in 1 .. All + 1 :
                        /\ At(c, g, i, pos, got, unknown, open)
                        /\ (i = All + 1) \/ (i \in 1 .. All /\ ~Blank(i))
  BY StandsAtItem, Zenon
<1>3. PICK i \in 1 .. All + 1 : /\ At(c, g, i, pos, got, unknown, open)
                                /\ (i = All + 1) \/ (i \in 1 .. All /\ ~Blank(i))
  BY <1>2
<1>4. pos <= Len(body) + 1 /\ pos \in Nat /\ Len(body) \in Nat
  BY <1>1, LenProperties DEF FaithfulInv, Coming, ReadingInv
<1>5. i = All + 1
  <2> SUFFICES ASSUME i \in 1 .. All, ~Blank(i) PROVE FALSE
    BY <1>3
  <2> DEFINE j == i + 1
             u == ItemOf(i)
             q == pos + Len(u.tag)
  <2>1. j = i + 1 /\ u = ItemOf(i) /\ q = pos + Len(u.tag) /\ pos = c[i]
    BY <1>3 DEF At
  <2> HIDE DEF j, u, q
  <2>2. pos <= Len(body)
    BY <1>2, <1>4, <2>1, AtItem
  <2>3. QED  BY <1>4, <2>2
<1>6. /\ N \in 1 .. 8 /\ Len(kept) \in Nat /\ All = N + Len(kept)
  BY <1>1, AllNat
<1>7. body = out
  <2>1. out \in Seq(Byte) /\ body = CString(out)
    BY <1>1 DEF WritingInv, SentInv, Sent, Reading
  <2>2. body # out => Len(body) < Len(out)
    BY <2>1, CStringCut
  <2>3. pos = Len(out) + 1
    BY <1>2, <1>3, <1>5 DEF At, Laid
  <2>4. Len(out) \in Nat
    BY <2>1, LenProperties
  <2>5. QED  BY <1>4, <2>2, <2>3, <2>4
<1>8. got = Holds(All + 1) /\ unknown = Found(All + 1) /\ Accepted(All + 1)
  BY <1>3, <1>5 DEF At
<1>9. ~(i <= N) /\ i - N = Len(kept) + 1 /\ i - 1 - N = Len(kept)
  BY <1>5, <1>6
<1>10. open = <<>>
  <2>1. open = g[i - N]
    BY <1>3, <1>9 DEF At
  <2>2. QED  BY <1>2, <1>9, <2>1 DEF Walk
<1>11. unknown = Strays \o kept
  <2>1. unknown = Strays \o SubSeq(kept, 1, Len(kept))
    <3>1. unknown = Found(i)
      BY <1>3 DEF At
    <3>2. QED  BY <1>9, <3>1 DEF Found
  <2>2. SubSeq(kept, 1, Len(kept)) = kept
    BY <1>1, SubSeqFull DEF SenderInv
  <2>3. QED  BY <2>1, <2>2
<1>12. QED  BY <1>7, <1>8, <1>10, <1>11

(* What is required is there exactly when it was written.                  *)
LEMMA InitializedAt ==
    ASSUME SenderInv, ~Foreigner, got = Holds(All + 1)
    PROVE  Initialized <=> (to = "Plat" /\ name = "LoginSubGameRequest" => Written(2))
<1>1. CASE ~(to = "Plat" /\ name = "LoginSubGameRequest")
  BY <1>1 DEF Initialized, Plat!IsInitialized
<1>2. CASE to = "Plat" /\ name = "LoginSubGameRequest"
  <2>1. /\ N \in 1 .. 8 /\ Len(kept) \in Nat /\ All = N + Len(kept)
        /\ DOMAIN Types(from, name) = 1 .. N /\ DOMAIN Types(to, name) = 1 .. N
        /\ \A k \in 1 .. N : Alike(TypeOf(k), ReaderType(k))
    BY SenderNumbers
  <2>2. Types(to, name) = Plat!LoginSubGameRequest
    BY <1>2 DEF Types, Plat!Fields
  <2>3. 2 \in 1 .. N /\ ReaderType(2) = "int64"
    BY <2>1, <2>2 DEF ReaderType, Plat!LoginSubGameRequest
  <2>4. Initialized <=> got[2] # Plat!Absent
    BY <1>2 DEF Initialized, Plat!IsInitialized
  <2>5. Arrives(2) <=> Written(2)
    BY <2>3 DEF Arrives, Stored, Plat!IsValid, ReaderType
  <2>6. got[2] = IF Written(2) THEN sent[2] ELSE Plat!Absent
    <3>1. 2 < All + 1
      BY <2>1, <2>3
    <3>2. Unset(to, ReaderType(2)) = Plat!Absent
      BY <1>2 DEF Unset
    <3>3. QED  BY <2>3, <2>5, <3>1, <3>2 DEF Holds
  <2>7. Written(2) => sent[2] # Plat!Absent
    <3> SUFFICES ASSUME Written(2) PROVE sent[2] # Plat!Absent
      OBVIOUS
    <3>1. Fitting(TypeOf(2), sent[2])
      BY <2>1, <2>3 DEF SenderInv, Filled, Written, TypeOf
    <3>2. Fitting("int64", sent[2])
      BY <2>1, <2>3, <3>1, AlikeKinds
    <3>3. sent[2] \in Num
      BY <3>2 DEF Fitting, IsText
    <3>4. sent[2][1] \in 0 .. 127
      <4>1. Len(sent[2]) \in 1 .. 10
            /\ \A l \in 1 .. Len(sent[2]) : sent[2][l] \in 0 .. 127
        BY <3>3, VarintBytes
      <4>2. \A n \in 1 .. 10 : 1 \in 1 .. n
        OBVIOUS
      <4>3. QED  BY <4>1, <4>2, Zenon
    <3>5. Plat!Absent[1] = -1
      BY DEF Plat!Absent
    <3>6. QED  BY <3>4, <3>5
  <2>8. QED  BY <1>2, <2>4, <2>6, <2>7
<1>3. QED  BY <1>1, <1>2

(* At the end all has been read; only what is required may be missing.     *)
LEMMA EndOfBodyFaithful ==
    ASSUME MInv, RereadInv, FaithfulInv, EndOfBody, ~Foreigner PROVE FaithfulInv'
<1>1. /\ Reading /\ pos > Len(body) /\ sender' = sender /\ writing' = writing
      /\ reading' = reading
      /\ at' = IF open = <<>> /\ Initialized
                 THEN IF at = "reader" THEN "ok" ELSE "done"
                 ELSE "fail"
  BY DEF EndOfBody
<1>2. /\ body = out /\ got = Holds(All + 1) /\ unknown = Strays \o kept
      /\ Accepted(All + 1) /\ open = <<>>
  BY <1>1, AtEnd
<1>3. Laying'
  BY <1>1, LayingKept DEF FaithfulInv
<1>4. body' = body /\ got' = got /\ unknown' = unknown /\ out' = out
  BY <1>1 DEF reading, writing
<1>5. /\ N' = N /\ All' = All /\ to' = to /\ name' = name /\ kept' = kept
      /\ Strays' = Strays /\ Holds(All + 1)' = Holds(All + 1)
      /\ (Accepted(All + 1)' <=> Accepted(All + 1)) /\ (Foreigner' <=> Foreigner)
  <2>1. All' = All
    BY <1>1, SenderSame
  <2> DEFINE M == All + 1
  <2>2. M' = M
    BY <2>1
  <2>3. \A i : Holds(i)' = Holds(i) /\ (Accepted(i)' <=> Accepted(i))
    BY <1>1, SenderSame
  <2>4. Holds(M)' = Holds(M) /\ (Accepted(M)' <=> Accepted(M))
    <3>1. N' = N /\ \A k : (Arrives(k)' <=> Arrives(k)) /\ (Written(k)' <=> Written(k))
      BY <1>1 DEF sender, N, Arrives, Written, Stored, TypeOf
    <3>2. to' = to /\ name' = name /\ sent' = sent
      BY <1>1 DEF sender
    <3>3. \A k : ReaderType(k)' = ReaderType(k)
      BY <3>2 DEF ReaderType
    <3>4. QED  BY <2>2, <3>1, <3>2, <3>3 DEF Holds, Accepted, Refused
  <2>5. QED  BY <1>1, <2>1, <2>4, SenderSame
<1>6. Initialized' <=> Initialized
  BY <1>4, <1>5 DEF Initialized
<1>7. Came'
  <2>1. Read' => Initialized
    BY <1>1 DEF Read
  <2>2. QED  BY <1>2, <1>4, <1>5, <1>6, <2>1 DEF Came
<1>8. Refusal'
  <2>1. at' = "fail" => ~Initialized
    BY <1>1, <1>2
  <2>2. at' = "fail" => Faulty
    <3>1. SenderInv
      BY DEF MInv
    <3>2. QED  BY <1>2, <2>1, <3>1, InitializedAt DEF Faulty
  <2>3. QED  BY <1>1, <2>2, FaultyKept DEF Refusal
<1>9. Coming'
  BY <1>1 DEF Coming, Reading
<1>10. QED  BY <1>3, <1>7, <1>8, <1>9 DEF FaithfulInv

-----------------------------------------------------------------------------
LEMMA InitFaithful == Init => FaithfulInv
<1> SUFFICES ASSUME Init PROVE FaithfulInv
  OBVIOUS
<1>1. at = "sender" /\ next = 1 /\ (~Foreigner => out = <<>>)
  BY DEF Init, Foreigner
<1>2. SenderInv
  BY InitMInv DEF MInv
<1>3. Laying
  BY <1>1, <1>2, NothingLaid DEF Laying
<1>4. Coming /\ Came /\ Refusal
  BY <1>1 DEF Coming, Came, Refusal, Reading, Read
<1>5. QED  BY <1>3, <1>4 DEF FaithfulInv

(* The sender lays one more item.                                          *)
LEMMA WriteFaithful ==
    ASSUME MInv, FaithfulInv, Write PROVE FaithfulInv'
<1>1. /\ ~Foreigner /\ next <= All /\ at \in {"sender", "sent on"}
      /\ out' = out \o ItemBytes(next) /\ next' = next + 1 /\ sender' = sender
      /\ at' = at
  BY DEF Write
<1>2. SenderInv /\ out \in Seq(Byte) /\ next \in 1 .. All + 1
  BY <1>1 DEF MInv, WritingInv
<1>3. next \in 1 .. All
  <2>1. All \in Nat
    BY <1>1, <1>2, AllNat
  <2>2. next <= All
    BY <1>1
  <2>3. QED  BY <1>2, <2>1, <2>2
<1>4. PICK c : Laid(c, next, out)
  BY <1>1 DEF FaithfulInv, Laying
<1>5. \E e : Laid(e, next', out')
  <2> DEFINE m == next'
             s == out'
  <2>1. m = next + 1 /\ s = out \o ItemBytes(next)
    BY <1>1
  <2> HIDE DEF m, s
  <2>2. \E e : Laid(e, m, out \o ItemBytes(next))
    BY <1>1, <1>2, <1>3, <1>4, <2>1, LaidOn
  <2>3. QED  BY <2>1, <2>2 DEF m, s
<1>6. Laying'
  BY <1>1, <1>5, LaidKept DEF Laying
<1>7. Coming' /\ Came' /\ Refusal'
  BY <1>1 DEF Coming, Came, Refusal, Reading, Read
<1>8. QED  BY <1>6, <1>7 DEF FaithfulInv

(* A reader begins to read.                                                *)
LEMMA DeliverFaithful ==
    ASSUME MInv, RereadInv, FaithfulInv, Deliver, ~Foreigner PROVE FaithfulInv'
<1>1. /\ next > All /\ body' = CString(out) /\ pos' = 1 /\ got' = New(to, name)
      /\ unknown' = <<>> /\ open' = <<>> /\ sender' = sender /\ writing' = writing
      /\ at' \in {"reader", "again"}
  BY DEF Deliver, MakePocket
<1>2. SenderInv /\ out \in Seq(Byte) /\ next \in 1 .. All + 1
  BY DEF MInv, WritingInv
<1>3. All \in Nat
  BY <1>2, AllNat
<1>4. next = All + 1
  BY <1>1, <1>2, <1>3
<1>5. PICK c : Laid(c, All + 1, out)
  BY <1>4 DEF FaithfulInv, Laying
<1>6. PICK g : Walk(to, name, g, kept, <<>>)
  BY DEF RereadInv
<1>7. g[1] = <<>> /\ c[1] = 1
  BY <1>5, <1>6 DEF Walk, Laid
<1>8. At(c, g, 1, 1, New(to, name), <<>>, <<>>)
  BY <1>2, <1>7, AtFirst
<1>9. At(c, g, 1, pos', got', unknown', open')
  BY <1>1, <1>8
<1>10. At(c, g, 1, pos, got, unknown, open)'
  BY <1>1, <1>9, AtKept
<1>11. out' = out /\ to' = to /\ name' = name /\ kept' = kept /\ All' = All
  BY <1>1, SenderSame DEF writing
<1>12. Laid(c, All + 1, out)'
  BY <1>1, <1>5, <1>11, LaidAllKept
<1>13. 1 \in 1 .. All' + 1
  BY <1>3, <1>11
<1>14. Walk(to, name, g, kept, <<>>)'
  BY <1>6, <1>11
<1>15. Standing(c, g)'
  BY <1>10, <1>12, <1>13, <1>14 DEF Standing
<1>16. pos' <= Len(body') + 1
  <2>1. body' \in Seq(Byte)
    BY <1>1, <1>2, CStringCut
  <2>2. Len(body') \in Nat
    BY <2>1, LenProperties
  <2>3. QED  BY <1>1, <2>2
<1>17. Coming'
  BY <1>15, <1>16 DEF Coming
<1>18. Laying'
  BY <1>1, LayingKept DEF FaithfulInv
<1>19. Came' /\ Refusal'
  BY <1>1 DEF Came, Refusal, Read
<1>20. QED  BY <1>17, <1>18, <1>19 DEF FaithfulInv

(* A message that is sent on is laid out anew.                             *)
LEMMA LaidFirst == SenderInv /\ ~Foreigner => \E c : Laid(c, 1, <<>>)
BY NothingLaid

LEMMA SendOnFaithful ==
    ASSUME MInv, SendOn PROVE FaithfulInv'
<1>1. next' = 1 /\ out' = <<>> /\ at' = "sent on"
  BY DEF SendOn
<1>2. SenderInv'
  BY SendOnMInv DEF MInv
<1>3. (SenderInv /\ ~Foreigner => \E c : Laid(c, 1, <<>>))'
  BY LaidFirst, PTL
<1>4. Laying'
  BY <1>1, <1>2, <1>3 DEF Laying
<1>5. Coming' /\ Came' /\ Refusal'
  BY <1>1 DEF Coming, Came, Refusal, Reading, Read
<1>6. QED  BY <1>4, <1>5 DEF FaithfulInv

(* Every step keeps it.                                                    *)
LEMMA StepFaithful == MInv /\ RereadInv /\ FaithfulInv /\ [Next]_vars => FaithfulInv'
<1> SUFFICES ASSUME MInv, RereadInv, FaithfulInv, [Next]_vars PROVE FaithfulInv'
  OBVIOUS
<1>1. ASSUME Foreigner, sender' = sender PROVE FaithfulInv'
  BY <1>1, SenderSame, ForeignFaithful
<1>2. CASE Write
  BY <1>2, WriteFaithful
<1>3. CASE Deliver
  <2>1. sender' = sender
    BY <1>3 DEF Deliver
  <2>2. QED  BY <1>1, <1>3, <2>1, DeliverFaithful
<1>4. CASE ReadBadTag
  BY <1>4, BadTagFaithful
<1>5. CASE ReadField
  <2>1. sender' = sender
    BY <1>5 DEF ReadField, Fail
  <2>2. QED  BY <1>1, <1>5, <2>1, ReadFieldFaithful
<1>6. CASE ReadUnknown
  <2>1. sender' = sender
    BY <1>6 DEF ReadUnknown, Fail
  <2>2. QED  BY <1>1, <1>6, <2>1, ReadUnknownFaithful
<1>7. CASE EndOfBody
  <2>1. sender' = sender
    BY <1>7 DEF EndOfBody
  <2>2. QED  BY <1>1, <1>7, <2>1, EndOfBodyFaithful
<1>8. CASE SendOn
  BY <1>8, SendOnFaithful
<1>9. CASE UNCHANGED vars
  <2>1. sender' = sender /\ writing' = writing /\ reading' = reading /\ at' = at
    BY <1>9 DEF vars
  <2>2. /\ name' = name /\ from' = from /\ sent' = sent /\ kept' = kept /\ to' = to
        /\ next' = next /\ out' = out /\ body' = body /\ pos' = pos /\ got' = got
        /\ unknown' = unknown /\ open' = open
    BY <2>1 DEF sender, writing, reading
  <2>3. Laying'
    BY <2>1, LayingKept DEF FaithfulInv
  <2>4. CASE Foreigner
    BY <1>1, <2>1, <2>4
  <2>5. CASE ~Foreigner
    <3>1. CASE Reading
      <4>1. PICK c, g : Standing(c, g)
        BY <2>5, <3>1 DEF FaithfulInv, Coming
      <4>2. PICK i \in 1 .. All + 1 : At(c, g, i, pos, got, unknown, open)
        BY <4>1 DEF Standing
      <4>3. At(c, g, i, pos', got', unknown', open')
        BY <2>2, <4>2
      <4>4. pos' <= Len(body') + 1
        BY <2>2, <2>5, <3>1 DEF FaithfulInv, Coming
      <4>5. Laid(c, All + 1, out) /\ Walk(to, name, g, kept, <<>>)
        BY <4>1 DEF Standing
      <4>6. QED  BY <2>1, <3>1, <4>3, <4>4, <4>5, ComesOn
    <3>2. CASE ~Reading
      <4>1. Coming'
        BY <2>1, <3>2 DEF Coming, Reading
      <4>2. Faulty' <=> Faulty
        BY <2>1, FaultyKept
      <4>3. Refusal'
        BY <2>1, <2>2, <2>5, <4>2 DEF FaithfulInv, Refusal
      <4>4. Came'
        <5>1. /\ N' = N /\ to' = to /\ name' = name /\ sent' = sent
              /\ \A k : (Arrives(k)' <=> Arrives(k)) /\ (Written(k)' <=> Written(k))
          BY <2>2 DEF N, Arrives, Written, Stored, TypeOf
        <5>2. \A k : ReaderType(k)' = ReaderType(k)
          BY <2>2 DEF ReaderType
        <5>3. All' = All /\ Strays' = Strays /\ (Initialized' <=> Initialized)
          BY <2>1, <2>2, SenderSame DEF Initialized
        <5>4. Holds(All + 1)' = Holds(All + 1) /\ (Accepted(All + 1)' <=> Accepted(All + 1))
          BY <5>1, <5>2, <5>3 DEF Holds, Accepted, Refused
        <5>5. Read' <=> Read
          BY <2>1 DEF Read
        <5>6. QED  BY <2>2, <2>5, <5>3, <5>4, <5>5 DEF FaithfulInv, Came
      <4>5. QED  BY <2>3, <4>1, <4>3, <4>4 DEF FaithfulInv
    <3>3. QED  BY <3>1, <3>2
  <2>6. QED  BY <2>4, <2>5
<1>10. QED
  BY <1>2, <1>3, <1>4, <1>5, <1>6, <1>7, <1>8, <1>9 DEF Next

LEMMA FaithfulAlways == Spec => [](MInv /\ RereadInv /\ FaithfulInv)
<1>1. Init => MInv /\ RereadInv /\ FaithfulInv
  BY InitMInv, InitReread, InitFaithful
<1>2. MInv /\ RereadInv /\ FaithfulInv /\ [Next]_vars => MInv' /\ RereadInv' /\ FaithfulInv'
  BY NextMInv, StepReread, StepFaithful
<1>3. QED  BY <1>1, <1>2, PTL DEF Spec

(* CutIsRefused: a reader that accepts a body has read all that was        *)
(* written, whatever it was and wherever strlen() in MakePocket() cut it.  *)
THEOREM CutsAreRefused == Spec => []CutIsRefused
<1>1. FaithfulInv => CutIsRefused
  BY DEF FaithfulInv, Came, CutIsRefused, Sent
<1>2. QED  BY <1>1, FaithfulAlways, PTL

(* Understood: whatever either generation wrote, either one reads: which   *)
(* messages it refuses, what it finds in the fields and what it keeps as   *)
(* unknown, for all values and all unknown fields that are sent along.     *)
THEOREM MessagesUnderstood == Spec => []Understood
<1>1. MInv /\ FaithfulInv => Understood
  <2> SUFFICES ASSUME MInv, FaithfulInv, Sent, body = out, Read \/ at = "fail"
               PROVE  /\ Read <=> /\ \A k \in 1 .. N : Written(k) =>
                                        ~Refused(Types(to, name)[k], sent[k])
                                  /\ to = "Plat" /\ name = "LoginSubGameRequest" => Written(2)
                      /\ Read => /\ got = [k \in 1 .. N |->
                                              IF Arrives(k) THEN sent[k]
                                              ELSE Unset(to, Types(to, name)[k])]
                                 /\ unknown = Strays \o kept
    BY DEF Understood
  <2>1. SenderInv /\ ~Foreigner
    BY DEF MInv, Sent
  <2>2. N \in 1 .. 8 /\ Len(kept) \in Nat /\ All = N + Len(kept)
    BY <2>1, AllNat
  <2>3. \A k \in 1 .. N : k < All + 1
    BY <2>2
  <2>4. CASE Read
    <3>1. got = Holds(All + 1) /\ unknown = Strays \o kept /\ Accepted(All + 1) /\ Initialized
      BY <2>1, <2>4 DEF FaithfulInv, Came
    <3>2. got = [k \in 1 .. N |-> IF Arrives(k) THEN sent[k]
                                  ELSE Unset(to, Types(to, name)[k])]
      BY <2>3, <3>1 DEF Holds, ReaderType
    <3>3. \A k \in 1 .. N : Written(k) => ~Refused(Types(to, name)[k], sent[k])
      BY <2>3, <3>1 DEF Accepted, ReaderType
    <3>4. to = "Plat" /\ name = "LoginSubGameRequest" => Written(2)
      BY <2>1, <3>1, InitializedAt
    <3>5. QED  BY <2>4, <3>1, <3>2, <3>3, <3>4
  <2>5. CASE ~Read
    <3>1. Faulty
      BY <2>1, <2>5 DEF FaithfulInv, Refusal
    <3>2. QED  BY <2>5, <3>1 DEF Faulty, ReaderType
  <2>6. QED  BY <2>4, <2>5
<1>2. QED  BY <1>1, FaithfulAlways, PTL

(* The names of the error codes, number by number.                         *)
LEMMA CodeNames ==
    /\ CodeName("Data", Zero) = "HallNotFind" /\ CodeName("Data", <<1>>) = "GameNotFind"
    /\ CodeName("Data", <<2>>) = "ConectReset"
    /\ \A v : v \notin {Zero, <<1>>, <<2>>} => CodeName("Data", v) = "none"
    /\ CodeName("Plat", <<1>>) = "HallNotFind" /\ CodeName("Plat", <<2>>) = "GameNotFind"
    /\ CodeName("Plat", <<3>>) = "ConectReset"
    /\ \A v : v \notin {<<1>>, <<2>>, <<3>>} => CodeName("Plat", v) = "none"
<1>1. NumOf(2) = <<2>> /\ NumOf(3) = <<3>>
  BY NumOfSmall
<1> DEFINE names == <<"HallNotFind", "GameNotFind", "ConectReset">>
           Of(codes, v) == IF \E i \in 1 .. 3 : codes[i] = v
                             THEN names[CHOOSE i \in 1 .. 3 : codes[i] = v] ELSE "none"
           data == << <<0>>, <<1>>, <<2>> >>
           plat == << <<1>>, <<2>>, <<3>> >>
<1>2. \A v : CodeName("Data", v) = Of(data, v) /\ CodeName("Plat", v) = Of(plat, v)
  BY <1>1 DEF CodeName, Zero, One
<1>3. /\ data[1] = <<0>> /\ data[2] = <<1>> /\ data[3] = <<2>>
      /\ plat[1] = <<1>> /\ plat[2] = <<2>> /\ plat[3] = <<3>>
      /\ names[1] = "HallNotFind" /\ names[2] = "GameNotFind" /\ names[3] = "ConectReset"
  OBVIOUS
<1>4. \A a, b \in Nat : a # b => <<a>> # <<b>>
  <2>1. ASSUME NEW a \in Nat, NEW b \in Nat, <<a>> = <<b>> PROVE a = b
    <3>1. <<a>>[1] = <<b>>[1]
      BY <2>1
    <3>2. QED  BY <3>1
  <2>2. QED  BY <2>1
<1>5. <<0>> # <<1>> /\ <<0>> # <<2>> /\ <<1>> # <<2>> /\ <<1>> # <<3>> /\ <<2>> # <<3>>
  BY <1>4
<1>6. \A i \in 1 .. 3 : i = 1 \/ i = 2 \/ i = 3
  OBVIOUS
<1>7. 1 \in 1 .. 3 /\ 2 \in 1 .. 3 /\ 3 \in 1 .. 3
  OBVIOUS
<1> DEFINE a0 == <<0>>
           a1 == <<1>>
           a2 == <<2>>
           a3 == <<3>>
<1> HIDE DEF data, plat, names
<1>8. ASSUME NEW codes, NEW i \in 1 .. 3, \A j \in 1 .. 3 : j # i => codes[j] # codes[i]
      PROVE  Of(codes, codes[i]) = names[i]
  BY <1>8
<1>9. ASSUME NEW codes, NEW v, \A j \in 1 .. 3 : codes[j] # v
      PROVE  Of(codes, v) = "none"
  BY <1>9
<1> HIDE DEF Of
<1>10. /\ Of(data, data[1]) = names[1] /\ Of(data, data[2]) = names[2]
       /\ Of(data, data[3]) = names[3]
  BY <1>3, <1>5, <1>6, <1>7, <1>8
<1>11. /\ Of(plat, plat[1]) = names[1] /\ Of(plat, plat[2]) = names[2]
       /\ Of(plat, plat[3]) = names[3]
  BY <1>3, <1>5, <1>6, <1>7, <1>8
<1>12. \A v : v \notin {Zero, <<1>>, <<2>>} => Of(data, v) = "none"
  BY <1>3, <1>6, <1>9 DEF Zero
<1>13. \A v : v \notin {<<1>>, <<2>>, <<3>>} => Of(plat, v) = "none"
  BY <1>3, <1>6, <1>9
<1>14. QED  BY <1>2, <1>3, <1>10, <1>11, <1>12, <1>13, Zenon DEF Zero

(* CodesShift: the error codes of the two generations never mean the same, *)
(* whichever one is sent: only a code that is not sent keeps its name.     *)
THEOREM CodesAlwaysShift == Spec => []CodesShift
<1>1. MInv /\ RereadInv /\ FaithfulInv => CodesShift
  <2> SUFFICES ASSUME MInv, RereadInv, FaithfulInv, Sent, Read, name = "SystemErrorResponse"
               PROVE  CodeName(from, Seen(from, 2, sent[2]))
                         = CodeName(to, Seen(to, 2, got[2]))
                      <=> from = to \/ ~Written(2)
    BY DEF CodesShift
  <2>1. SenderInv /\ ~Foreigner /\ from \in Generations /\ to \in Generations
    BY DEF MInv, Sent, SenderInv
  <2>2. N \in 1 .. 8 /\ Len(kept) \in Nat /\ All = N + Len(kept)
        /\ DOMAIN Types(from, name) = 1 .. N /\ DOMAIN Types(to, name) = 1 .. N
    BY <2>1, AllNat, SenderNumbers
  <2>3. \A gen \in Generations : 2 \in DOMAIN Types(gen, name)
                                 /\ Types(gen, name)[2] = "SystemErrorCode"
    BY DEF Generations, Types, Data!Fields, Plat!Fields,
       Data!SystemErrorResponse,
           Plat!SystemErrorResponse
  <2>4. 2 \in 1 .. N /\ TypeOf(2) = "SystemErrorCode" /\ ReaderType(2) = "SystemErrorCode"
    BY <2>1, <2>2, <2>3 DEF TypeOf, ReaderType
  <2>5. \A v : Plat!IsValid("SystemErrorCode", v) <=> v \in {<<1>>, <<2>>, <<3>>}
    <3>1. NumOf(2) = <<2>> /\ NumOf(3) = <<3>>
      BY NumOfSmall
    <3>2. Plat!NumOf(2) = NumOf(2) /\ Plat!NumOf(3) = NumOf(3) /\ Plat!One = <<1>>
      BY DEF NumOf, Plat!NumOf, Weights, Plat!Weights, Trimmed, Plat!Trimmed,
         Zero,
             Plat!Zero, Plat!One
    <3>3. QED  BY <3>1, <3>2 DEF Plat!IsValid, Plat!SystemErrorCode_IsValid
  <2>6. got[2] = IF Arrives(2) THEN sent[2] ELSE Unset(to, "SystemErrorCode")
    <3>1. got = Holds(All + 1) /\ 2 < All + 1
      BY <2>1, <2>2, <2>4 DEF FaithfulInv, Came
    <3>2. QED  BY <2>4, <3>1 DEF Holds
  <2>7. Written(2) <=> sent[2] # Unset(from, "SystemErrorCode")
    BY <2>4 DEF Written
  <2>8. Unset("Data", "SystemErrorCode") = Zero /\ Unset("Plat", "SystemErrorCode") = Plat!Absent
    BY DEF Unset, Data!Unset, Data!IsText, Data!Zero, Zero
  <2>9. Arrives(2) <=> Written(2) /\ (to = "Plat" => sent[2] \in {<<1>>, <<2>>, <<3>>})
    BY <2>4, <2>5 DEF Arrives, Stored, ReaderType
  <2>10. from = "Plat" => sent[2] \in {Plat!Absent, <<1>>, <<2>>, <<3>>}
    <3> SUFFICES ASSUME from = "Plat" PROVE sent[2] \in {Plat!Absent, <<1>>, <<2>>, <<3>>}
      OBVIOUS
    <3>1. sent[2] = Plat!Absent \/ Plat!IsValid("SystemErrorCode", sent[2])
      BY <2>1, <2>2, <2>4 DEF RereadInv, Valid, TypeOf
    <3>2. QED  BY <2>5, <3>1
  <2>11. /\ Plat!Absent = <<-1>> /\ Zero = <<0>>
         /\ \A gen, v : Seen(gen, 2, v) = IF v = Plat!Absent THEN <<1>> ELSE v
    <3>1. Plat!Default("SystemErrorResponse", "SystemErrorCode") = One
      BY DEF Plat!Default, Plat!One, One
    <3>2. Plat!Fields[name][2] = "SystemErrorCode"
      BY <2>3 DEF Types, Generations
    <3>3. QED  BY <3>1, <3>2 DEF Seen, Plat!Absent, Zero, One
  <2>12. /\ <<0>> # <<-1>> /\ <<1>> # <<-1>> /\ <<2>> # <<-1>> /\ <<3>> # <<-1>>
         /\ <<0>> # <<1>> /\ <<0>> # <<2>> /\ <<0>> # <<3>> /\ <<1>> # <<2>> /\ <<1>> # <<3>> /\ <<2>> # <<3>>
    <3>1. \A a, b \in Int : a # b => <<a>> # <<b>>
      <4>1. ASSUME NEW a \in Int, NEW b \in Int, <<a>> = <<b>> PROVE a = b
        <5>1. <<a>>[1] = <<b>>[1]
          BY <4>1
        <5>2. QED  BY <5>1
      <4>2. QED  BY <4>1
    <3>2. QED  BY <3>1
  <2> DEFINE v == sent[2]
             w == got[2]
             X == <<-1>>
             Y == <<0>>
             a1 == <<1>>
             a2 == <<2>>
             a3 == <<3>>
  <2>13. ~(v = X) \/ from = "Data" \/ from = "Plat"
    BY <2>1 DEF Generations
  <2>14. CASE from = to
    <3>1. w = v
      BY <2>1, <2>6, <2>7, <2>8, <2>9, <2>10, <2>14 DEF Generations
    <3>2. QED  BY <2>14, <3>1
  <2>15. CASE from # to /\ ~Written(2)
    <3>1. CodeName("Data", Seen("Data", 2, Zero)) = "HallNotFind"
          /\ CodeName("Plat", Seen("Plat", 2, Plat!Absent)) = "HallNotFind"
      BY <2>11, <2>12, CodeNames
    <3>2. QED  BY <2>1, <2>6, <2>7, <2>8, <2>9, <2>15, <3>1 DEF Generations
  <2>16. CASE from = "Data" /\ to = "Plat" /\ Written(2)
    <3>1. v # Zero
      BY <2>7, <2>8, <2>16
    <3>2. v # Plat!Absent
      <4>1. Fitting("SystemErrorCode", v)
        BY <2>1, <2>2, <2>4, <2>16 DEF SenderInv, Filled, Written, TypeOf
      <4>2. v \in Num
        BY <4>1 DEF Fitting, IsText
      <4>3. Len(v) \in 1 .. 10 /\ \A l \in 1 .. Len(v) : v[l] \in 0 .. 127
        BY <4>2, VarintBytes
      <4> HIDE DEF v
      <4>4. \A n \in 1 .. 10 : 1 \in 1 .. n
        OBVIOUS
      <4>5. v[1] \in 0 .. 127
        BY <4>3, <4>4, Zenon
      <4>6. Plat!Absent[1] = -1
        BY <2>11
      <4>7. QED  BY <4>5, <4>6
    <3>3. w = IF v \in {<<1>>, <<2>>, <<3>>} THEN v ELSE Plat!Absent
      BY <2>6, <2>8, <2>9, <2>16
    <3>4. Seen("Data", 2, v) = v
      BY <2>11, <3>2
    <3>5. CASE v \in {<<1>>, <<2>>, <<3>>}
      <4>1. w = v /\ Seen("Plat", 2, w) = v
        BY <2>11, <3>2, <3>3, <3>5
      <4>2. CodeName("Data", v) # CodeName("Plat", v)
        <5>1. <<3>> \notin {Zero, <<1>>, <<2>>}
          BY <2>11, <2>12
        <5>2. CodeName("Data", <<3>>) = "none"
          BY <5>1, CodeNames
        <5>3. QED  BY <3>5, <5>2, CodeNames
      <4>3. QED  BY <2>16, <3>4, <4>1, <4>2
    <3>6. CASE v \notin {<<1>>, <<2>>, <<3>>}
      <4>1. Seen("Plat", 2, w) = <<1>>
        BY <2>11, <3>3, <3>6
      <4>2. CodeName("Data", v) = "none" /\ CodeName("Plat", <<1>>) = "HallNotFind"
        BY <3>1, <3>6, CodeNames
      <4>3. QED  BY <2>16, <3>4, <4>1, <4>2
    <3>7. QED  BY <3>5, <3>6
  <2>17. CASE from = "Plat" /\ to = "Data" /\ Written(2)
    <3>1. v \in {<<1>>, <<2>>, <<3>>} /\ w = v
      BY <2>6, <2>7, <2>8, <2>9, <2>10, <2>17
    <3>2. Seen("Plat", 2, v) = v /\ Seen("Data", 2, w) = v
      BY <2>11, <2>12, <3>1
    <3>3. CodeName("Data", v) # CodeName("Plat", v)
      <4>1. <<3>> \notin {Zero, <<1>>, <<2>>}
        BY <2>11, <2>12
      <4>2. CodeName("Data", <<3>>) = "none"
        BY <4>1, CodeNames
      <4>3. QED  BY <3>1, <4>2, CodeNames
    <3>4. QED  BY <2>17, <3>2, <3>3
  <2>18. QED  BY <2>1, <2>14, <2>15, <2>16, <2>17 DEF Generations
<1>2. QED  BY <1>1, FaithfulAlways, PTL
=============================================================================
