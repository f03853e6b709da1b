---------------------------- MODULE MCSemanticPass ----------------------------
(* Small instances of SemanticPass for TLC: the cfg gives the constants.      *)
EXTENDS SemanticPass
=============================================================================
