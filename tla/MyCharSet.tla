------------------------------ MODULE MyCharSet ------------------------------
(***************************************************************************)
(* The conversions of Classes/Utils/MyCharSet.cpp, and split_text() of     *)
(* CursorTextField.cpp, over texts as sequences of bytes.  CursorTextField *)
(* counts the characters of its text with the one and takes its input      *)
(* apart with the other.                                                   *)
(***************************************************************************)
EXTENDS Platform, Integers, Sequences

Trail(b) == 128 + (b % 64)

(* UTF-8, the reference that the conversions are compared with.            *)
Utf8(u) ==
    IF u < 128 THEN << u >>
    ELSE IF u < 2048 THEN << 192 + u \div 64, Trail(u) >>
    ELSE IF u < 65536 THEN << 224 + u \div 4096, Trail(u \div 64), Trail(u) >>
    ELSE << 240 + u \div 262144, Trail(u \div 4096), Trail(u \div 64), Trail(u) >>

-----------------------------------------------------------------------------
\* Mutant of unicode_to_utf8: the border between two and three bytes.
unicode_to_utf8_border(u) ==
    IF u <= 127 THEN << u >>
    ELSE IF u <= 2048 THEN << 192 + u \div 64, Trail(u) >>
    ELSE << 224 + u \div 4096, 128 + ((u \div 64) % 128), Trail(u) >>

(* unicode_to_utf8() of one character of 16 bits.  The mask of the middle  *)
(* byte, 0xff, leaves one bit too many under the 0x80.                     *)
unicode_to_utf8(u) ==
    IF u <= 127 THEN << u >>
    ELSE IF u <= 2047 THEN << 192 + u \div 64, Trail(u) >>
    ELSE << 224 + u \div 4096, 128 + ((u \div 64) % 128), Trail(u) >>

\* Mutant of utf8_to_unicode: every byte with the high bit starts a character.
utf8_to_unicode_heads(in) ==
    LET from[p \in 1 .. Len(in) + 3] ==
           IF p > Len(in) THEN 0
           ELSE CASE in[p] \in 224 .. 239 -> 1 + from[p + 3]
                  [] in[p] \in 192 .. 223 -> 1 + from[p + 2]
                  [] OTHER -> 1 + from[p + 1]
    IN  from[1]

(* utf8_to_unicode(): the number it returns.  What it converts is not      *)
(* handed to the caller.  Four-byte heads, and bytes that start nothing,   *)
(* are passed over.                                                        *)
utf8_to_unicode(in) ==
    LET from[p \in 1 .. Len(in) + 3] ==
           IF p > Len(in) THEN 0
           ELSE CASE in[p] \in 0 .. 127   -> 1 + from[p + 1]
                  [] in[p] \in 192 .. 223 -> 1 + from[p + 2]
                  [] in[p] \in 224 .. 239 -> 1 + from[p + 3]
                  [] OTHER                -> from[p + 1]
    IN  from[1]

\* Mutant of split_text: the loop that is commented out, two bytes too few.
split_text_short(name, start) ==
    IF CharSigned /\ name[start] >= 128
      THEN SubSeq(name, start, IF start < Len(name) THEN start + 1 ELSE Len(name))
      ELSE SubSeq(name, start, start)

(* split_text(): one byte, or three, or what is left, where char is        *)
(* signed and negative.                                                    *)
split_text(name, start) ==
    IF CharSigned /\ name[start] >= 128
      THEN SubSeq(name, start, IF start + 2 <= Len(name) THEN start + 2
                                                         ELSE Len(name))
      ELSE SubSeq(name, start, start)

\* The pieces that onTextFieldInsertText() inserts one after the other.
Pieces(text) ==
    LET from[j \in 1 .. Len(text) + 1] ==
           IF j > Len(text) THEN <<>>
           ELSE LET ss == split_text(text, j) IN <<ss>> \o from[j + Len(ss)]
    IN  from[1]

-----------------------------------------------------------------------------
(* unicode_to_utf8() is right exactly where bit 12 is clear or the result  *)
(* has fewer than three bytes.                                             *)
EncodedRight(u) ==
    unicode_to_utf8(u) = Utf8(u) <=> u < 2048 \/ (u \div 4096) % 2 = 0
=============================================================================
