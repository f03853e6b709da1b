---------------------------- MODULE MCCheckerCaches ----------------------------
(* A small instance of CheckerCaches for TLC: two hosts on one tsconfig, and  *)
(* another tsconfig that shares its file with it.                             *)
EXTENDS CheckerCaches, TLC

CONSTANTS A, B, s, p1, p2, q, s1, s2

MCConfigOf == [p \in Programs |-> IF p = q THEN B ELSE A]
MCFilesOf == [c \in Configs |-> {s}]

\* The two hosts are alike, and so are the parameters of a send.
Alike == Permutations({p1, p2}) \cup Permutations({s1, s2})
=============================================================================
