---------------------------- MODULE MCOverlaySync ----------------------------
(* Small instances of OverlaySync for TLC. *)
EXTENDS OverlaySync

CONSTANTS a, b

\* Two contents; an edit toggles the file or empties it, so that the order of
\* edits and the base they apply to both show in the result.
MCText == {0, 1}
MCEdit == {"toggle", "empty"}
MCToggle == {"toggle"}
MCVirtual == [t \in MCText |-> 1 - t]
MCSplice == [p \in Text \X Edit |-> IF p[2] = "toggle" THEN 1 - p[1] ELSE 0]

\* Root a imports b: always, or only while its text is 1.
MCAlways == [p \in File \X Text |-> IF p[1] = a THEN {b} \intersect File ELSE {}]
MCSometimes == [p \in File \X Text |-> IF p = <<a, 1>> THEN {b} \intersect File ELSE {}]
=============================================================================
