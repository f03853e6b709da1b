--------------------------- MODULE MCBridgeSessions ---------------------------
(* Small instances of BridgeSessions for TLC: the cfg gives the constants.    *)
EXTENDS BridgeSessions
=============================================================================
