--------------------------- MODULE MCOverlayEdits ---------------------------
(* Two tabs: t, whose client edits whole characters, and s, whose client     *)
(* sends the smallest difference in units, and so may cut an emoji.           *)
EXTENDS OverlayEdits

MCFile == {"t", "s"}
MCTexts ==
    [f \in MCFile |->
        IF f = "t" THEN {<<"H", "L", "a">>, <<"H", "L", "H", "L", "a">>}
                   ELSE {<<"H", "M">>, <<"H">>}]
MCDisk == [f \in MCFile |-> <<"a">>]
MCInserts == {<<>>, <<"M">>, <<"H", "L">>}
=============================================================================
