--------------------------- MODULE CursorTextField ---------------------------
(***************************************************************************)
(* The input box of Classes/Utils/CursorTextField.cpp.  It keeps the whole *)
(* text, and shows as much of its end as fits the width of the box.  What  *)
(* is cut off at the left is counted twice, in bytes (nLenCount) and in    *)
(* characters (startCur), over a list of the bytes of each character.      *)
(*                                                                         *)
(* Everything runs on the thread of the engine; the loops of the handlers  *)
(* are modelled one round to a step so that one which does not end can be  *)
(* seen.  A text is a sequence of characters, of one byte (ASCII) or three *)
(* (the rest of the plane that the code is written for), with the width    *)
(* that the font gives each.  Where the cursor stands is layout, and left  *)
(* out.                                                                    *)
(*                                                                         *)
(* From the base class, TextFieldTTF of cocos2d-x, come the text that is   *)
(* displayed (setString) and the bytes that a deletion reports, those of   *)
(* the last character displayed; it reports none if nothing is displayed.  *)
(***************************************************************************)
EXTENDS Integers, FiniteSetsExt, SequencesExt

CONSTANTS Chars,           \* the characters that are typed
          NewLine,         \* "\n"
          Bytes,           \* bytes of each character
          Fonts,           \* the widths of the characters in each font
          Frames(_),       \* the widths of a box with each font
          InputMaxLength,  \* inputMaxLength
          Inputs,          \* texts the keyboard hands over at once
          Texts,           \* texts the program sets
          MaxBox           \* bound on inpuText, which a deletion does not shorten

ASSUME CharsAssumption == /\ Bytes \in [Chars -> {1, 3}]
                          /\ Fonts \subseteq [Chars -> Nat \ {0}]
                          /\ NewLine \notin Chars
ASSUME FramesAssumption ==
    \A f \in Fonts : \A w \in Frames(f) : w \in Nat /\ \A c \in Chars : w >= f[c]
ASSUME LengthAssumption == InputMaxLength \in 1 .. 49 /\ MaxBox \in Nat
ASSUME InputsAssumption == /\ Inputs \subseteq Seq(Chars \cup {NewLine}) \ {<<>>}
                           /\ Texts \subseteq Seq(Chars)

VARIABLES
    m_pInputText,   \* the whole text
    inpuText,       \* the text of the box
    shown,          \* what TextFieldTTF displays
    font,           \* its font
    inputFrameWidth,
    nLenCount,      \* bytes cut off at the left
    startCur,       \* characters cut off at the left
    codeNumType,    \* bytes of each character, in an array from 0
    codeCur,        \* the number of them
    open,           \* the keyboard is open
    pc,             \* the handler under way
    rest,           \* the part of the input that is not handled
    nLen            \* bytes of the character under way

box == <<font, inputFrameWidth>>
vars == <<m_pInputText, inpuText, shown, box, nLenCount, startCur,
          codeNumType, codeCur, open, pc, rest, nLen>>

CodeNums == 0 .. 49

TypeOK ==
    /\ m_pInputText \in Seq(Chars) /\ Len(m_pInputText) <= InputMaxLength
    /\ inpuText \in Seq(Chars) /\ shown \in Seq(Chars)
    /\ font \in Fonts /\ inputFrameWidth \in Frames(font)
    /\ nLenCount \in Nat /\ startCur \in Nat
    /\ codeNumType \in [CodeNums -> {0, 1, 3}] /\ codeCur \in CodeNums
    /\ open \in BOOLEAN
    /\ pc \in {"idle", "insert", "trim", "widen", "torn", "aborted"}
    /\ rest \in Seq(Chars \cup {NewLine})
    /\ nLen \in {0, 1, 3}

Init ==
    /\ m_pInputText = <<>> /\ inpuText = <<>> /\ shown = <<>>
    /\ font \in Fonts /\ inputFrameWidth \in Frames(font)
    /\ nLenCount = 0 /\ startCur = 0
    /\ codeNumType = [i \in CodeNums |-> 0] /\ codeCur = 0
    /\ open = FALSE
    /\ pc = "idle" /\ rest = <<>> /\ nLen = 0

-----------------------------------------------------------------------------
\* What f gives for the characters of s, added up.
SumOf(f, s) ==
    LET sum[n \in 0 .. Len(s)] == IF n = 0 THEN 0 ELSE sum[n - 1] + f[s[n]]
    IN  sum[Len(s)]

Size(s) == SumOf(Bytes, s)
WidthOf(s) == SumOf(font, s)

Fits(s) == WidthOf(s) <= inputFrameWidth

\* Mutant of AtMaxLength: one too many.
BeyondMaxLength == Len(m_pInputText) > InputMaxLength
AtMaxLength == Len(m_pInputText) >= InputMaxLength

\* n bytes of s are whole characters, and what is left of s after them.
Whole(s, n) == \E k \in 0 .. Len(s) : Size(SubSeq(s, 1, k)) = n
After(s, n) == CHOOSE t \in Suffixes(s) : Size(t) = Size(s) - n

(* The end of one round of the loops that cut the text: n bytes are taken  *)
(* off and the rest is displayed.  substr() throws if there are fewer.     *)
CutTo(n, again, done) ==
    /\ nLenCount' = n
    /\ IF Whole(m_pInputText, n)
         THEN /\ inpuText' = After(m_pInputText, n)
              /\ shown' = inpuText'
              /\ pc' = IF Fits(inpuText') THEN done ELSE again
         ELSE /\ pc' = IF n > Size(m_pInputText) THEN "aborted" ELSE "torn"
              /\ UNCHANGED <<inpuText, shown>>

\* The bytes of a character as the loops take them from the list.
Known(code) == IF code \in {1, 3} THEN code ELSE nLen

Uncut == nLenCount' = 0 /\ startCur' = 0

-----------------------------------------------------------------------------
(* onTextFieldInsertText(): the input is handled a character at a time.    *)
Insert ==
    /\ pc = "idle" /\ open
    /\ rest' \in Inputs
    /\ Len(inpuText) + Len(rest') <= MaxBox
    /\ pc' = "insert"
    /\ UNCHANGED <<m_pInputText, inpuText, shown, box, nLenCount,
                   startCur, codeNumType, codeCur, open, nLen>>

InsertEnds ==
    /\ pc = "insert"
    /\ rest = <<>> \/ AtMaxLength
    /\ pc' = "idle" /\ rest' = <<>>
    /\ UNCHANGED <<m_pInputText, inpuText, shown, box, nLenCount,
                   startCur, codeNumType, codeCur, open, nLen>>

InsertNewLine ==
    /\ pc = "insert" /\ rest # <<>> /\ ~AtMaxLength
    /\ Head(rest) = NewLine
    /\ rest' = Tail(rest)
    /\ UNCHANGED <<m_pInputText, inpuText, shown, box, nLenCount,
                   startCur, codeNumType, codeCur, open, pc, nLen>>

\* Mutant of InsertChar: what was cut off is not forgotten when all fits.
InsertCharStale ==
    /\ pc = "insert" /\ rest # <<>> /\ ~AtMaxLength
    /\ LET ss == Head(rest)
       IN  /\ ss # NewLine
           /\ rest' = Tail(rest)
           /\ nLen' = Bytes[ss]
           /\ m_pInputText' = Append(m_pInputText, ss)
           /\ inpuText' = Append(inpuText, ss)
           /\ codeNumType' = [codeNumType EXCEPT ![codeCur] = Bytes[ss]]
           /\ codeCur' = codeCur + 1
    /\ IF Fits(m_pInputText')
         THEN shown' = m_pInputText' /\ pc' = "insert"
         ELSE shown' = inpuText' /\ pc' = IF Fits(inpuText') THEN "insert"
                                                             ELSE "trim"
    /\ UNCHANGED <<box, nLenCount, startCur, open>>

InsertChar ==
    /\ pc = "insert" /\ rest # <<>> /\ ~AtMaxLength
    /\ LET ss == Head(rest)
       IN  /\ ss # NewLine
           /\ rest' = Tail(rest)
           /\ nLen' = Bytes[ss]
           /\ m_pInputText' = Append(m_pInputText, ss)
           /\ inpuText' = Append(inpuText, ss)
           /\ codeNumType' = [codeNumType EXCEPT ![codeCur] = Bytes[ss]]
           /\ codeCur' = codeCur + 1
    /\ IF Fits(m_pInputText')
         THEN shown' = m_pInputText' /\ Uncut /\ pc' = "insert"
         ELSE /\ shown' = inpuText'
              /\ pc' = IF Fits(inpuText') THEN "insert" ELSE "trim"
              /\ UNCHANGED <<nLenCount, startCur>>
    /\ UNCHANGED <<box, open>>

\* Mutant of Trim: the bytes of the new character are cut off, whatever the
\* first one has.
TrimByLast ==
    /\ pc = "trim"
    /\ startCur' = startCur + 1
    /\ CutTo(nLenCount + nLen, "trim", "insert")
    /\ UNCHANGED <<m_pInputText, box, codeNumType, codeCur, open,
                   rest, nLen>>

(* One more character is cut off at the left.                              *)
Trim ==
    /\ pc = "trim"
    /\ startCur' = startCur + 1
    /\ CutTo(nLenCount + Known(codeNumType[startCur]), "trim", "insert")
    /\ UNCHANGED <<m_pInputText, box, codeNumType, codeCur, open,
                   rest, nLen>>

-----------------------------------------------------------------------------
(* onTextFieldDeleteBackward(): the text loses the bytes of the last       *)
(* character displayed, or resize() throws because it has fewer.           *)
DeleteThrows ==
    /\ pc = "idle" /\ open /\ shown # <<>>
    /\ Size(m_pInputText) < Bytes[Last(shown)]
    /\ pc' = "aborted"
    /\ UNCHANGED <<m_pInputText, inpuText, shown, box, nLenCount,
                   startCur, codeNumType, codeCur, open, rest, nLen>>

Delete ==
    /\ pc = "idle" /\ open /\ shown # <<>>
    /\ nLen' = Bytes[Last(shown)]
    /\ Size(m_pInputText) >= nLen'
    /\ codeNumType' = [codeNumType EXCEPT ![codeCur] = 0]
    /\ codeCur' = codeCur - 1
    /\ IF Whole(m_pInputText, Size(m_pInputText) - nLen')
         THEN /\ m_pInputText' = CHOOSE t \in Prefixes(m_pInputText) :
                                    Size(t) = Size(m_pInputText) - nLen'
              /\ shown' = m_pInputText'
              /\ IF Fits(m_pInputText')
                   THEN Uncut /\ pc' = "idle"
                   ELSE UNCHANGED <<nLenCount, startCur>> /\ pc' = "widen"
         ELSE /\ pc' = "torn"
              /\ UNCHANGED <<m_pInputText, shown, nLenCount, startCur>>
    /\ UNCHANGED <<inpuText, box, open, rest>>

\* Mutant of Widen: the bytes of the deleted character come back.
WidenByLast ==
    /\ pc = "widen"
    /\ CutTo(Max({0, nLenCount - nLen}), "widen", "idle")
    /\ startCur' = Max({0, startCur - 1})
    /\ UNCHANGED <<m_pInputText, box, codeNumType, codeCur, open,
                   rest, nLen>>

(* One character less is cut off.  With startCur = 0 the code reads        *)
(* codeNumType[-1], which is the member before the array, nLenCount.       *)
Widen ==
    /\ pc = "widen"
    /\ LET code == IF startCur = 0 THEN nLenCount ELSE codeNumType[startCur - 1]
       IN  CutTo(Max({0, nLenCount - Known(code)}), "widen", "idle")
    /\ startCur' = Max({0, startCur - 1})
    /\ UNCHANGED <<m_pInputText, box, codeNumType, codeCur, open,
                   rest, nLen>>

Handler == \/ InsertEnds \/ InsertNewLine \/ InsertChar \/ Trim \/ Widen

-----------------------------------------------------------------------------
\* Mutant of SetInpuntText: codeCur keeps counting from the old text.
SetInpuntTextPartly ==
    /\ pc = "idle"
    /\ shown' \in Texts
    /\ m_pInputText' = <<>> /\ inpuText' = <<>>
    /\ codeNumType' = [i \in CodeNums |-> 0] /\ startCur' = 0
    /\ UNCHANGED <<box, nLenCount, codeCur, open, pc, rest, nLen>>

(* setInpuntText(): the text is displayed but not kept.                    *)
SetInpuntText ==
    /\ pc = "idle"
    /\ shown' \in Texts
    /\ m_pInputText' = <<>> /\ inpuText' = <<>>
    /\ codeNumType' = [i \in CodeNums |-> 0] /\ codeCur' = 0 /\ startCur' = 0
    /\ UNCHANGED <<box, nLenCount, open, pc, rest, nLen>>

SetInputWidth ==
    /\ pc = "idle"
    /\ inputFrameWidth' \in Frames(font)
    /\ UNCHANGED <<m_pInputText, inpuText, shown, font, nLenCount, startCur,
                   codeNumType, codeCur, open, pc, rest, nLen>>

(* A touch inside the box opens the keyboard and displays the whole text,  *)
(* one outside closes it.                                                  *)
OpenIME ==
    /\ pc = "idle"
    /\ shown' = m_pInputText
    /\ open' = TRUE
    /\ UNCHANGED <<m_pInputText, inpuText, box, nLenCount, startCur,
                   codeNumType, codeCur, pc, rest, nLen>>

CloseIME ==
    /\ pc = "idle"
    /\ open' = FALSE
    /\ UNCHANGED <<m_pInputText, inpuText, shown, box, nLenCount,
                   startCur, codeNumType, codeCur, pc, rest, nLen>>

Next == \/ Insert \/ Handler \/ DeleteThrows \/ Delete
        \/ SetInpuntText \/ SetInputWidth \/ OpenIME \/ CloseIME

Spec == Init /\ [][Next]_vars

(* A handler that was called runs on.                                      *)
FairSpec == Spec /\ WF_vars(Handler)

-----------------------------------------------------------------------------
(* What the two counts of the cut-off part and the list of bytes say of    *)
(* the text stays true through insertions, deletions, resets and changes   *)
(* of the width, although deleting takes back codeCur after it clears the  *)
(* entry one too far, and setInpuntText() forgets nLenCount.               *)
CountsKept ==
    /\ codeCur = Len(m_pInputText)
    /\ \A i \in 1 .. codeCur : codeNumType[i - 1] = Bytes[m_pInputText[i]]
    /\ m_pInputText # <<>> =>
          nLenCount = Size(SubSeq(m_pInputText, 1, startCur))

(* No insertion, deletion or cut ever splits a character, although the     *)
(* bytes of a deletion are those of the last character displayed, and the  *)
(* displayed text is not always the end of the whole one.                  *)
WholeCharacters == pc # "torn"

(* Deleting throws in no other case than after setInpuntText(), whose text *)
(* can be deleted from but is not there: what is typed later is safe.      *)
ThrowsOnlyUnkept == pc = "aborted" => m_pInputText = <<>>

\* The longest end of s that fits the box.
LongestFit(s) == CHOOSE t \in Suffixes(s) :
                    Fits(t) /\ \A u \in Suffixes(s) : Fits(u) => Len(u) <= Len(t)

\* All characters are alike, and the width of the box does not change.
OneWidth == /\ \A c, d \in Chars : font[c] = font[d]
            /\ Frames(font) = {inputFrameWidth}

(* In a font of one width, when a character has been inserted or deleted   *)
(* the box shows as much of the end of the text as fits, neither more nor  *)
(* less: a window that was left from before a deletion is never seen.      *)
LongestShown ==
    [][/\ OneWidth
       /\ pc' \in {"idle", "insert"}
       /\ m_pInputText' \notin {m_pInputText, <<>>} \/ pc \in {"trim", "widen"}
       => shown' = LongestFit(m_pInputText')]_vars

(* The comment of the loop of a deletion, "cut the string until it is      *)
(* shorter than the width": the loop, like the others, ends.               *)
HandlersEnd == pc \in {"insert", "trim", "widen"} ~> pc \in {"idle", "torn", "aborted"}

(* In a font of one width they do end.                                     *)
OneWidthEnds ==
    OneWidth /\ pc \in {"insert", "trim", "widen"} ~> pc \in {"idle", "torn", "aborted"}
=============================================================================
