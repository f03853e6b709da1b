---------------------------- MODULE SpliceUTF16 ----------------------------
(***************************************************************************)
(* A text on both sides of the bridge.  JavaScript indexes a text by UTF-16 *)
(* code units; Go keeps the same text as UTF-8, that is, as characters, and *)
(* resolves the offsets of an edit by walking over them.  "H" is a high     *)
(* surrogate, "L" and "M" are low ones, "a" stands for the other units.     *)
(* A text of Go's is written down as the units of its characters: there no  *)
(* surrogate is without its other half, and "R" is U+FFFD, the character    *)
(* that Go has for one that was sent without.                               *)
(***************************************************************************)
EXTENDS Integers, Sequences, SequencesExt

Lows == {"L", "M"}
Surrogates == {"H"} \union Lows
Units == {"a"} \union Surrogates
GoUnits == Units \union {"R"}

\* The unit at i and the next are one character.
PairAt(t, i) == i \in 1..Len(t) - 1 /\ t[i] = "H" /\ t[i + 1] \in Lows

\* The offsets in t that are between two characters.
Boundaries(t) == {i \in 0..Len(t) : ~PairAt(t, i)}

\* The unit at i is a surrogate on its own.
Lone(t, i) == t[i] \in Surrogates /\ ~PairAt(t, i) /\ ~PairAt(t, i - 1)

WellFormed(t) == \A i \in DOMAIN t : ~Lone(t, i)

\* Mutant: a lone surrogate is kept as it is.
Chars_Lone(t) == t

\* What Go has of a text that the client sent.
Chars(t) == [i \in DOMAIN t |-> IF Lone(t, i) THEN "R" ELSE t[i]]

\* The client's splice, on units.  slice stops at the end of a text that is
\* shorter than the edit expects.
JsSplice(t, e) ==
    SubSeq(t, 1, Min({e.start, Len(t)})) \o e.insertText
        \o SubSeq(t, e.start + e.deleteLength + 1, Len(t))

Beyond == -1          \* the text has fewer units

\* Mutant: every character counts as one unit.
Offset_Characters(text, units) ==
    LET reached == {b \in Boundaries(text) :
                        Cardinality({c \in Boundaries(text) : c < b}) = units}
    IN  IF reached = {} THEN Beyond ELSE Min(reached)

\* utf16UnitOffsetToByteOffset: the walk over the characters of text stops at the
\* first that begins at or after units.  Only at the end of the text does the
\* number have to be exact.
Offset(text, units) ==
    LET reached == {b \in Boundaries(text) : b >= units /\ (b < Len(text) \/ units = Len(text))}
    IN  IF reached = {} THEN Beyond ELSE Min(reached)

NoSplice == <<"?">>   \* no text: the edit is out of range

\* spliceUTF16: Go's splice of one edit, the deletion measured from the start.
Splice(text, e) ==
    LET start == Offset(text, e.start)
        rest  == SubSeq(text, start + 1, Len(text))
        end   == Offset(rest, e.deleteLength)
    IN  IF start = Beyond \/ end = Beyond THEN NoSplice
        ELSE SubSeq(text, 1, start) \o Chars(e.insertText) \o SubSeq(rest, end + 1, Len(rest))

\* applyOverlayEdits of either side: the text before the edits and after each of them.
JsTexts(text, edits) ==
    LET after[i \in 0..Len(edits)] ==
            IF i = 0 THEN text ELSE JsSplice(after[i - 1], edits[i])
    IN  after

GoTexts(text, edits) ==
    LET after[i \in 0..Len(edits)] ==
            IF i = 0 THEN text
            ELSE IF after[i - 1] = NoSplice THEN NoSplice ELSE Splice(after[i - 1], edits[i])
    IN  after

\* An edit that cuts no character of t, and inserts none that is cut.
Whole(t, e) ==
    /\ WellFormed(t) /\ WellFormed(e.insertText)
    /\ {e.start, e.start + e.deleteLength} \subseteq Boundaries(t)
=============================================================================
