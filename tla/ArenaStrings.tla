---------------------------- MODULE ArenaStrings ----------------------------
(* The string tables of the arena transport.                                  *)
(*                                                                            *)
(* A hot query leaves its answer in a buffer both sides share.  Strings in it *)
(* are numbers: Go gives each string of a session a number the first time it  *)
(* crosses, and announces the new strings behind the records; the client      *)
(* appends them to a table of its own, where their numbers are implicit.  An  *)
(* answer that does not fit is given up after its strings were numbered and   *)
(* crosses as JSON instead.                                                   *)
(*                                                                            *)
(* The client is blocked in the call while Go works.  The buffer keeps the    *)
(* last answer until another one is finished in it.                           *)
EXTENDS Naturals, Sequences

CONSTANTS
    Strings,        \* the strings of the answers, without the empty one
    Empty,          \* the empty string, which is no string of the table
    Undefined,      \* what the client's table says of a number it does not have
    Records,        \* what the handlers return: the string fields of their records
    Fits(_, _)      \* whether records with these numbers, and a block of these
                    \* strings, fit the buffer

ASSUME StringAssumption ==
    /\ Empty \notin Strings
    /\ Undefined \notin Strings \cup {Empty}
    /\ Records \subseteq Seq(Strings \cup {Empty})
    /\ Fits(<<>>, <<>>)

VARIABLES
    strTab, strs,   \* arena.strTab, arena.strs
    newStrs,        \* arena.newStrs
    ids,            \* the numbers written for the records being encoded
    resp,           \* the finished answer in the buffer
    table,          \* ArenaClient.strTab, without its entry 0
    stage,          \* of the call: "idle", "encode", "answered", "escaped"
    want,           \* what the handler returned
    got             \* what the client's caller received

goVars == <<strTab, strs, newStrs, ids, resp>>
vars == <<goVars, table, stage, want, got>>

Answer(kind, fields) == [kind |-> kind, fields |-> fields]
Null == Answer("null", <<>>)
Error == Answer("error", <<>>)
Answers == {Answer("record", r) : r \in Records} \cup {Null, Error}

TypeOK ==
    /\ strs \in Seq(Strings)
    /\ newStrs \in Seq(Strings)
    /\ table \in Seq(Strings)
    /\ DOMAIN strTab \subseteq Strings
    /\ \A s \in DOMAIN strTab : strTab[s] \in Nat \ {0}
    /\ ids \in Seq(Nat)
    /\ resp \in [kind : {"record", "null", "error"}, ids : Seq(Nat), news : Seq(Strings)]
    /\ stage \in {"idle", "encode", "answered", "escaped"}
    /\ want \in Answers

Init ==
    /\ strTab = [s \in {} |-> 0]
    /\ strs = <<>>
    /\ newStrs = <<>>
    /\ ids = <<>>
    /\ resp = [kind |-> "null", ids |-> <<>>, news |-> <<>>]
    /\ table = <<>>
    /\ stage = "idle"
    /\ want = Null
    /\ got = Null
-----------------------------------------------------------------------------
(* Go                                                                         *)

\* ArenaClient.request; begin and the handler.  An error of the handler is
\* finished by FinishError.
Request(answer) ==
    /\ stage = "idle"
    /\ stage' = "encode"
    /\ want' = answer
    /\ newStrs' = <<>>
    /\ ids' = <<>>
    /\ UNCHANGED <<strTab, strs, resp, table, got>>

Rest == Len(want.fields) > Len(ids)
Field == want.fields[Len(ids) + 1]

NextId == Len(strs) + 1
Known(s) == s \in DOMAIN strTab

\* intern: of a string that has a number, of the empty one, and of a new one.
InternKnown ==
    /\ stage = "encode"
    /\ Rest
    /\ Field = Empty \/ Known(Field)
    /\ ids' = Append(ids, IF Field = Empty THEN 0 ELSE strTab[Field])
    /\ UNCHANGED <<strTab, strs, newStrs, resp, table, stage, want, got>>

InternNew ==
    /\ stage = "encode"
    /\ Rest
    /\ Field # Empty /\ ~Known(Field)
    /\ strTab' = [s \in DOMAIN strTab \cup {Field} |-> IF s = Field THEN NextId ELSE strTab[s]]
    /\ strs' = Append(strs, Field)
    /\ newStrs' = Append(newStrs, Field)
    /\ ids' = Append(ids, NextId)
    /\ UNCHANGED <<resp, table, stage, want, got>>

\* finish.
Finish ==
    /\ stage = "encode"
    /\ want.kind # "error"
    /\ ~Rest
    /\ Fits(ids, newStrs)
    /\ resp' = [kind |-> want.kind, ids |-> ids, news |-> newStrs]
    /\ stage' = "answered"
    /\ UNCHANGED <<strTab, strs, newStrs, ids, table, want, got>>

\* Mutants: the numbers stay in the map; the strings stay in the list.
RewindStrings_KeepMap ==
    /\ strs' = SubSeq(strs, 1, Len(strs) - Len(newStrs))
    /\ newStrs' = <<>>
    /\ UNCHANGED strTab
RewindStrings_KeepList ==
    /\ strTab' = [s \in {x \in DOMAIN strTab : \A i \in DOMAIN newStrs : newStrs[i] # x} |->
                    strTab[s]]
    /\ newStrs' = <<>>
    /\ UNCHANGED strs

\* rewindStrings.
RewindStrings ==
    /\ strTab' = [s \in {x \in DOMAIN strTab : \A i \in DOMAIN newStrs : newStrs[i] # x} |->
                    strTab[s]]
    /\ strs' = SubSeq(strs, 1, Len(strs) - Len(newStrs))
    /\ newStrs' = <<>>

\* HandleArenaRequest: the records do not fit, and cross as JSON.
Escape ==
    /\ stage = "encode"
    /\ want.kind = "record"
    /\ ~Rest
    /\ ~Fits(ids, newStrs)
    /\ RewindStrings
    /\ stage' = "escaped"
    /\ UNCHANGED <<ids, resp, table, want, got>>

\* finishError, for an error of the handler and for records that do not fit and
\* cannot be marshalled.  A message always fits.
FinishError ==
    /\ stage = "encode"
    /\ \/ want.kind = "error"
       \/ want.kind = "record" /\ ~Rest /\ ~Fits(ids, newStrs)
    /\ RewindStrings
    /\ ids' = <<>>
    /\ resp' = [kind |-> "error", ids |-> <<>>, news |-> <<>>]
    /\ want' = Error
    /\ stage' = "answered"
    /\ UNCHANGED <<table, got>>
-----------------------------------------------------------------------------
(* The client                                                                 *)

Str(t, id) ==
    IF id = 0 THEN Empty ELSE IF id \in DOMAIN t THEN t[id] ELSE Undefined

\* response: the table grows whatever the kind of the answer.
Synced == table \o resp.news

Response ==
    /\ stage = "answered"
    /\ table' = Synced
    /\ got' = Answer(resp.kind, [i \in DOMAIN resp.ids |-> Str(Synced, resp.ids[i])])
    /\ stage' = "idle"
    /\ UNCHANGED <<goVars, want>>

\* request's end, with the JSON document.
ReadDocument ==
    /\ stage = "escaped"
    /\ got' = want
    /\ stage' = "idle"
    /\ UNCHANGED <<goVars, table, want>>

Next ==
    \/ \E answer \in Answers : Request(answer)
    \/ InternKnown
    \/ InternNew
    \/ Finish
    \/ Escape
    \/ FinishError
    \/ Response
    \/ ReadDocument

Spec == Init /\ [][Next]_vars
-----------------------------------------------------------------------------
(* What must hold                                                             *)

\* Between two calls both sides have the same strings under the same numbers,
\* also after answers that were given up.
Lockstep == stage = "idle" => table = strs

\* The caller receives what the handler returned.
AnswerExact == stage = "idle" => got = want

\* "Strings are interned once per session": none is announced twice.
AnnouncedOnce == \A i, j \in DOMAIN table : table[i] = table[j] => i = j
=============================================================================
