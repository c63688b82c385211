------------------------- MODULE MCCursorTextField -------------------------
(* Instances of CursorTextField for TLC: an ASCII character and one of     *)
(* three bytes, and a font in which they are alike and one in which the    *)
(* second is twice as wide.                                                *)
EXTENDS CursorTextField

CONSTANTS i, zi

MCBytes == [c \in {i, zi} |-> IF c = zi THEN 3 ELSE 1]
OneFont == [c \in {i, zi} |-> 2]
WideFont == [c \in {i, zi} |-> IF c = zi THEN 2 ELSE 1]
MCFonts == {OneFont, WideFont}
HangFonts == {WideFont}
MCFrames(f) == IF f = OneFont THEN {6} ELSE {3, 4}
HangFrames(f) == {3}

MCInputs == {<<i>>, <<zi>>, <<zi, NewLine, i>>}
MCTexts == {<<>>, <<zi, i>>}
=============================================================================
