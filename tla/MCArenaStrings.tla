---------------------------- MODULE MCArenaStrings ----------------------------
(* Small instance of ArenaStrings for TLC.                                    *)
EXTENDS ArenaStrings

CONSTANTS x, y, z, MaxFields, Room

Fields == Strings \cup {Empty}
MCRecords == UNION {[1..n -> Fields] : n \in 0..MaxFields}

\* A number takes one place, an announced string two.
MCFits(numbers, news) == Len(numbers) + 2 * Len(news) <= Room
===============================================================================
