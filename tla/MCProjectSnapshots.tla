-------------------------- MODULE MCProjectSnapshots --------------------------
(* Small instances of ProjectSnapshots for TLC: two projects, one file of     *)
(* each and a shared one.                                                     *)
EXTENDS ProjectSnapshots

CONSTANTS A, B, a, s

MCFilesOf == [c \in Configs |-> IF c = A THEN {a, s} ELSE {s}]
=============================================================================
