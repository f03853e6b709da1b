------------------------ MODULE BridgeSessionsProofs ------------------------
(***************************************************************************)
(* For any number of threads, sessions and arenas, and for any number of   *)
(* failed allocations: a session is worked in by its owner alone, its       *)
(* answers are not torn, and no environment leaves one behind.             *)
(*                                                                         *)
(* The argument is ownership.  A call that got past the lookup with its     *)
(* owner's identity holds a session of the registry, because only that      *)
(* owner could remove it and the owner is busy with the call.              *)
(***************************************************************************)
EXTENDS BridgeSessions, TLAPS

\* Handles not given out yet have neither arena nor owner, given ones have one.
Fresh ==
    /\ \A s \in Handle : s > nextID => arenaPtr[s] = NoBuffer /\ owner[s] = NoThread
    /\ \A s \in 1..nextID : owner[s] \in Thread

\* What a thread that is not in JS code is busy with.
Busy(t) ==
    /\ call[t].stage # "js" => t \in alive
    /\ At(t, "found") => call[t].on \in Known
    /\ At(t, "found") /\ call[t].op = "setArena" => call[t].offered # NoBuffer
    /\ At(t, "found") /\ ~foreignThread(t) => call[t].on \in sessions
    /\ call[t].stage \in Inside => call[t].on \in sessions /\ ~foreignThread(t)
    /\ At(t, "closing") => call[t].on \in Known \ sessions /\ ~foreignThread(t)

\* An environment tracks sessions of its own, all in the registry.
Lists ==
    \A t \in Thread : \A s \in tracked[t] : s \in sessions \ lost /\ owner[s] = t

\* Arena references belong to sessions of the environment that holds them, and
\* no arena was ever set on a lost session.
Refs ==
    /\ \A t \in Thread, s \in Handle : arenas[t][s] # NoBuffer => s \in 1..nextID /\ owner[s] = t
    /\ \A s \in lost : arenaPtr[s] = NoBuffer

IInv ==
    /\ TypeOK
    /\ Fresh /\ Lists /\ Refs /\ \A t \in Thread : Busy(t)
    /\ OwnAnswer /\ NoOrphan /\ ArenaRooted /\ NoArenaLeak

USE SentinelAssumption, LimitAssumption

-----------------------------------------------------------------------------
(* The initial state, and the calls that only move on. *)

LEMMA NoCallType == NoCall \in Call
  BY DEF NoCall, Call, Stage, Op

LEMMA HandleFacts ==
    ASSUME IInv
    PROVE  /\ 1..nextID \subseteq Handle /\ lost \subseteq 1..nextID
           /\ \A s \in sessions : s \in 1..nextID /\ owner[s] \in Thread
  <1>1. nextID \in 0..MaxSessions /\ sessions \subseteq 1..nextID /\ lost \subseteq 1..nextID
    BY DEF IInv, TypeOK
  <1> QED  BY <1>1 DEF IInv, Fresh, Handle

\* A thread inside a call owns the session, and the registry has it.
LEMMA HolderOwns ==
    ASSUME IInv, NEW t \in Thread, call[t].stage \in Inside
    PROVE  call[t].on \in sessions /\ call[t].on \in Handle /\ owner[call[t].on] = t /\ t \in alive
  <1>1. Busy(t)
    BY DEF IInv
  <1>2. call[t].on \in sessions /\ owner[call[t].on] = t /\ t \in alive
    BY <1>1 DEF Busy, Inside, foreignThread
  <1> QED  BY <1>2, HandleFacts

LEMMA InitInv == Init => IInv
  <1> SUFFICES ASSUME Init PROVE IInv
    OBVIOUS
  <1>1. TypeOK
    BY NoCallType DEF Init, TypeOK, NoArenas, Handle
  <1>2. Fresh /\ Lists /\ Refs
    BY DEF Init, Fresh, Lists, Refs, NoArenas, Handle
  <1>3. \A t \in Thread : Busy(t)
    BY DEF Init, Busy, NoCall, At, Inside
  <1>4. OwnAnswer /\ NoOrphan /\ ArenaRooted /\ NoArenaLeak
    BY DEF Init, OwnAnswer, NoOrphan, ArenaRooted, NoArenaLeak, NoCall, At, NoArenas
  <1> QED  BY <1>1, <1>2, <1>3, <1>4 DEF IInv

\* A thread that moves on to where it is allowed to be, changing nothing else.
LEMMA MoveKeeps ==
    ASSUME IInv, NEW t \in Thread, NEW c \in Call,
           UNCHANGED <<goVars, shimVars, faultVars>>,
           alive \subseteq alive', alive' \subseteq Thread,
           call' = [call EXCEPT ![t] = c],
           c.stage # "js" => t \in alive',
           c.stage = "found" => c.on \in sessions \ lost,
           c.stage = "found" /\ c.op = "setArena" => c.offered # NoBuffer,
           c.stage \in Inside => c.on \in sessions /\ owner[c.on] = t,
           c.stage = "closing" => FALSE,
           c.stage = "returned" => buf[c.on] = t,
           call[t].stage # "finalizing"
    PROVE  IInv'
  <1> USE DEF IInv, goVars, shimVars, faultVars
  <1>1. TypeOK'
    BY DEF TypeOK
  <1>2. Fresh' /\ Lists' /\ Refs'
    BY DEF Fresh, Lists, Refs
  <1>3. \A u \in Thread : call'[u] = IF u = t THEN c ELSE call[u]
    BY DEF TypeOK
  <1>4. \A u \in Thread : Busy(u)'
    BY <1>3 DEF Busy, At, foreignThread, Known, Inside, TypeOK
  <1>5. OwnAnswer' /\ NoOrphan' /\ ArenaRooted' /\ NoArenaLeak'
    BY <1>3 DEF OwnAnswer, NoOrphan, ArenaRooted, NoArenaLeak, At
  <1> QED  BY <1>1, <1>2, <1>4, <1>5

LEMMA Moves ==
    ASSUME IInv, NEW t \in Thread,
           \/ StartEnv(t) \/ Exit(t) \/ Refuse(t) \/ Enter(t) \/ AnswerInPlace(t) \/ ReadText(t)
           \/ \E s \in Known, o \in Op, b \in Buffer : Lookup(t, o, s, b)
    PROVE  IInv'
  <1>0. call[t] \in Call /\ Busy(t) /\ call \in [Thread -> Call]
    BY DEF IInv, TypeOK
  <1>1. CASE StartEnv(t)
    <2>1. call' = [call EXCEPT ![t] = call[t]]
      BY <1>1, <1>0 DEF StartEnv
    <2>2. call[t].stage = "js"
      BY <1>1, <1>0 DEF StartEnv, Busy
    <2> QED  BY <1>1, <1>0, <2>1, <2>2, MoveKeeps DEF StartEnv, Inside, IInv, TypeOK
  <1>2. CASE Exit(t) \/ Enter(t)
    <2>1. CASE Exit(t)
      <3> DEFINE c == [call[t] EXCEPT !.stage = "finalizing"]
      <3>1. c \in Call /\ c.stage = "finalizing" /\ call' = [call EXCEPT ![t] = c]
        BY <2>1, <1>0 DEF Exit, GoesTo, Call, Stage
      <3> QED  BY <2>1, <3>1, MoveKeeps DEF Exit, InJS, At, Inside, IInv, TypeOK
    <2>2. CASE Enter(t)
      <3> DEFINE c == [call[t] EXCEPT !.stage = "handling"]
      <3>1. c \in Call /\ c.stage = "handling" /\ c.on = call[t].on /\ call' = [call EXCEPT ![t] = c]
        BY <2>2, <1>0 DEF Enter, GoesTo, Call, Stage
      <3>2. c.on \in sessions /\ owner[c.on] = t /\ t \in alive
        BY <2>2, <1>0, <3>1 DEF Enter, Busy, At, foreignThread
      <3> QED  BY <2>2, <3>1, <3>2, MoveKeeps DEF Enter, At, Inside, IInv, TypeOK
    <2> QED  BY <1>2, <2>1, <2>2
  <1>3. CASE Refuse(t) \/ AnswerInPlace(t) \/ ReadText(t)
    <2>1. call' = [call EXCEPT ![t] = NoCall] /\ UNCHANGED <<alive, goVars, shimVars, faultVars>>
      BY <1>3 DEF Refuse, AnswerInPlace, ReadText, Returns
    <2>2. call[t].stage # "finalizing"
      BY <1>3 DEF Refuse, AnswerInPlace, ReadText, At
    <2>3. NoCall.stage = "js"
      BY DEF NoCall
    <2> QED  BY <2>1, <2>2, <2>3, NoCallType, MoveKeeps DEF Inside, IInv, TypeOK
  <1>4. ASSUME NEW s \in Known, NEW o \in Op, NEW b \in Buffer, Lookup(t, o, s, b)
        PROVE  IInv'
    <2> DEFINE c == [stage |-> "found", op |-> o, on |-> s,
                     offered |-> IF o = "setArena" THEN b ELSE NoBuffer]
    <2>1. c \in Call /\ c.stage = "found" /\ c.on = s /\ call' = [call EXCEPT ![t] = c]
      BY <1>4 DEF Lookup, Call, Stage, Known, IInv, TypeOK
    <2> QED  BY <1>4, <2>1, MoveKeeps DEF Lookup, InJS, At, Known, Inside, IInv, TypeOK
  <1> QED  BY <1>1, <1>2, <1>3, <1>4

-----------------------------------------------------------------------------
(* Sessions come and go. *)

LEMMA NewSessionKeeps ==
    ASSUME IInv, NEW t \in Thread, NewSession(t)
    PROVE  IInv'
  <1> USE DEF IInv
  <1> DEFINE n == nextID + 1
  <1>1. n \in Handle /\ n \notin 1..nextID /\ nextID' = n /\ n \notin sessions
    BY DEF NewSession, NewHandle, TypeOK, Handle
  <1>2. \A s \in Handle : owner'[s] = IF s = n THEN t ELSE owner[s]
    BY <1>1 DEF NewSession, TypeOK
  <1>3. \/ lost' = lost /\ tracked' = [tracked EXCEPT ![t] = @ \union {n}]
        \/ lost' = lost \union {n} /\ tracked' = tracked
    BY <1>1 DEF NewSession, Registered
  <1>4. 1..nextID \subseteq Handle /\ 1..n = (1..nextID) \union {n}
    BY <1>1 DEF TypeOK, Handle
  <1>5. TypeOK'
    <2>1. lost' \subseteq 1..n /\ unrooted' \subseteq 1..n /\ sessions' \subseteq 1..n
      BY <1>1, <1>3, <1>4 DEF NewSession, TypeOK
    <2>2. owner' \in [Handle -> Thread \union {NoThread}]
      BY <1>1 DEF NewSession, TypeOK
    <2>3. tracked' \in [Thread -> SUBSET (1..n)]
      BY <1>3, <1>4 DEF TypeOK
    <2>4. faults' \in 0..MaxFaults /\ n \in 0..MaxSessions
      BY <1>1 DEF NewSession, TypeOK, Handle
    <2> QED  BY <1>1, <2>1, <2>2, <2>3, <2>4 DEF NewSession, TypeOK
  <1>6. Fresh'
    BY <1>1, <1>2, <1>4 DEF NewSession, Fresh, TypeOK, Handle
  <1>7. Lists' /\ NoOrphan'
    <2>1. sessions' = sessions \union {n} /\ alive' = alive /\ t \in alive /\ n \notin lost
      BY <1>1, HandleFacts DEF NewSession, InJS
    <2>2. \A s \in sessions : s \in Handle /\ owner'[s] = owner[s] /\ owner[s] \in Thread
      BY <1>1, <1>2, HandleFacts
    <2>3. \A u \in Thread : tracked[u] \subseteq tracked'[u] /\ tracked'[u] \subseteq tracked[u] \union {n}
                             /\ (n \in tracked'[u] => u = t /\ n \notin lost')
                             /\ (n \notin lost' => n \in tracked'[t])
      BY <1>1, <1>3, <2>1 DEF Lists, TypeOK
    <2>4. lost \subseteq lost' /\ lost' \subseteq lost \union {n}
      BY <1>3
    <2>5. Lists'
      BY <1>1, <1>2, <2>1, <2>2, <2>3, <2>4 DEF Lists
    <2>6. NoOrphan'
      BY <1>1, <1>2, <2>1, <2>2, <2>3, <2>4 DEF NoOrphan
    <2> QED  BY <2>5, <2>6
  <1>8. Refs' /\ ArenaRooted' /\ NoArenaLeak'
    <2>1. arenaPtr[n] = NoBuffer
      BY <1>1 DEF Fresh, TypeOK, Handle
    <2>2. Refs'
      BY <1>1, <1>2, <1>3, <1>4, <2>1 DEF NewSession, Refs
    <2>3. NoArenaLeak'
      BY <1>1, <1>2, <1>4, <2>1 DEF NewSession, NoArenaLeak, TypeOK, At
    <2>4. n \in Handle /\ n \notin 1..nextID /\ arenas[t][n] = NoBuffer
      BY <1>1 DEF Refs, NewSession, NewHandle, TypeOK, Handle
    <2>5. \A x \in sessions : owner'[x] = owner[x]
      BY <1>1, <2>4 DEF TypeOK, NewSession
    <2>6. ArenaRooted'
      BY <1>1, <1>2, <1>4, <2>1, <2>4, <2>5 DEF NewSession, ArenaRooted, TypeOK
    <2> QED  BY <2>2, <2>3, <2>6
  <1>9. \A u \in Thread : Busy(u)' /\ OwnAnswer'
    <2> SUFFICES ASSUME NEW u \in Thread PROVE Busy(u)' /\ OwnAnswer'
      OBVIOUS
    <2>1. call' = call /\ alive' = alive /\ buf' = buf /\ sessions' = sessions \union {n}
      BY <1>1 DEF NewSession
    <2>2. Known' \intersect 1..nextID = Known /\ Known \subseteq 1..nextID
      BY <1>1, <1>3, <1>4 DEF Known
    <2>3. call[u].on \in 1..nextID => call[u].on # n /\ owner'[call[u].on] = owner[call[u].on]
      BY <1>1, <1>2, <1>4
    <2>4. Busy(u) /\ sessions \subseteq 1..nextID
      BY DEF TypeOK
    <2> QED  BY <2>1, <2>2, <2>3, <2>4 DEF Busy, At, foreignThread, Inside, OwnAnswer
  <1> QED  BY <1>5, <1>6, <1>7, <1>8, <1>9

\* A foreign or a missing session survives, and the environment that disposes
\* it holds nothing of it.
LEMMA DisposeNothing ==
    ASSUME IInv, NEW t \in Thread, NEW s \in Known, Dispose(t, s), Removed(t, s) = {}
    PROVE  UNCHANGED vars
  <1>1. s \in Handle /\ ~(s \in sessions /\ owner[s] = t)
    BY DEF Removed, Known, IInv, TypeOK, Handle
  <1>2. s \notin tracked[t]
    BY <1>1 DEF IInv, Lists
  <1>3. arenas[t][s] = NoBuffer
    BY <1>1 DEF IInv, Refs, NoArenaLeak, Dispose, InJS, At
  <1>4. arenas' = arenas
    BY <1>1, <1>3 DEF Dispose, RefDropped, IInv, TypeOK
  <1>5. tracked' = tracked
    BY <1>2 DEF Dispose, Unregistered, IInv, TypeOK
  <1> QED  BY <1>4, <1>5 DEF Dispose, vars, goVars, shimVars, faultVars

\* What closing or disposing leaves of the invariant: a session of thread t has
\* left the registry together with the list entry, while t is busy with it.
LEMMA RemovalKeeps ==
    ASSUME IInv, NEW t \in Thread, NEW s \in sessions \ lost, owner[s] = t,
           sessions' = sessions \ {s},
           tracked' = [tracked EXCEPT ![t] = @ \ {s}],
           UNCHANGED <<alive, nextID, owner, faultVars>>,
           arenaPtr' = arenaPtr \/ arenaPtr' = [arenaPtr EXCEPT ![s] = NoBuffer],
           arenas' = arenas \/ arenas' = [arenas EXCEPT ![t][s] = NoBuffer]
    PROVE  Fresh' /\ Lists' /\ NoOrphan' /\ Refs' /\ ArenaRooted'
  <1> USE DEF IInv, faultVars
  <1>1. s \in Handle
    BY DEF TypeOK, Handle
  <1>2. Fresh' /\ Lists' /\ NoOrphan'
    BY <1>1 DEF Fresh, Lists, NoOrphan, TypeOK
  <1>3. \A x \in Handle : x # s => arenaPtr'[x] = arenaPtr[x]
    BY <1>1 DEF TypeOK
  <1>4. \A u \in Thread, x \in Handle :
            /\ x # s => arenas'[u][x] = arenas[u][x]
            /\ arenas'[u][x] # NoBuffer => arenas[u][x] # NoBuffer
    BY <1>1 DEF TypeOK
  <1>5. Refs'
    <2>1. \A x \in lost : x \in Handle /\ x # s
      BY DEF TypeOK, Handle
    <2> QED  BY <1>3, <1>4, <2>1 DEF Refs
  <1>6. ArenaRooted'
    <2>1. \A x \in sessions : x \in Handle /\ owner[x] \in Thread
      BY DEF TypeOK, Handle, Fresh
    <2> QED  BY <1>3, <1>4, <2>1 DEF ArenaRooted
  <1> QED  BY <1>2, <1>5, <1>6

LEMMA DisposeKeeps ==
    ASSUME IInv, NEW t \in Thread, NEW s \in Known, Dispose(t, s), Removed(t, s) # {}
    PROVE  IInv'
  <1> USE DEF IInv
  <1>1. s \in sessions \ lost /\ owner[s] = t /\ Removed(t, s) = {s} /\ s \in Handle
    BY DEF Removed, Known, TypeOK, Handle
  <1>2. sessions' = sessions \ {s} /\ UNCHANGED <<alive, nextID, owner, buf, arenaPtr, faultVars>>
    BY <1>1 DEF Dispose
  <1>3. Fresh' /\ Lists' /\ NoOrphan' /\ Refs' /\ ArenaRooted'
    BY <1>1, <1>2, RemovalKeeps DEF Dispose, RefDropped, Unregistered
  <1> DEFINE c == [stage |-> "closing", op |-> call[t].op, on |-> s, offered |-> call[t].offered]
  <1>4. c \in Call /\ c.stage = "closing" /\ c.on = s /\ call' = [call EXCEPT ![t] = c]
    <2>1. call[t] \in Call /\ s \in 0..MaxSessions
      BY <1>1 DEF TypeOK, Handle
    <2> QED  BY <1>1, <2>1 DEF Dispose, Call, Stage, TypeOK
  <1>5. \A u \in Thread : call'[u] = IF u = t THEN c ELSE call[u]
    BY <1>4 DEF TypeOK
  <1>6. TypeOK'
    BY <1>1, <1>2, <1>4 DEF Dispose, RefDropped, Unregistered, TypeOK, faultVars
  <1>7. \A u \in Thread : Busy(u)'
    <2> SUFFICES ASSUME NEW u \in Thread PROVE Busy(u)'
      OBVIOUS
    <2>1. CASE u = t
      BY <1>1, <1>2, <1>5, <2>1 DEF Busy, At, foreignThread, Known, Inside, Dispose, InJS, faultVars
    <2>2. CASE u # t
      BY <1>1, <1>2, <1>5, <2>2 DEF Busy, At, foreignThread, Known, Inside, faultVars
    <2> QED  BY <2>1, <2>2
  <1>8. OwnAnswer'
    BY <1>2, <1>4, <1>5 DEF OwnAnswer, At
  <1>9. NoArenaLeak'
    <2>1. \A u \in Thread, x \in Handle : arenas'[u][x] = IF u = t /\ x = s THEN NoBuffer ELSE arenas[u][x]
      BY <1>1 DEF Dispose, RefDropped, TypeOK
    <2>2. ~At(t, "finalizing")
      BY DEF Dispose, InJS, At
    <2> QED  BY <1>1, <1>2, <1>4, <1>5, <2>1, <2>2 DEF NoArenaLeak, At, Refs
  <1> QED  BY <1>3, <1>6, <1>7, <1>8, <1>9

LEMMA FinalizeOneKeeps ==
    ASSUME IInv, NEW t \in Thread, NEW s \in Handle, FinalizeOne(t, s)
    PROVE  IInv'
  <1> USE DEF IInv
  <1>1. s \in sessions \ lost /\ owner[s] = t /\ At(t, "finalizing")
    BY DEF FinalizeOne, Lists
  <1>2. Removed(t, s) = {s}
    BY <1>1 DEF Removed
  <1>3. /\ sessions' = sessions \ {s}
        /\ arenaPtr' = [arenaPtr EXCEPT ![s] = NoBuffer]
        /\ buf' = [buf EXCEPT ![s] = NoThread]
        /\ UNCHANGED <<alive, nextID, owner, arenas, call, faultVars>>
    BY <1>2 DEF FinalizeOne
  <1>4. Fresh' /\ Lists' /\ NoOrphan' /\ Refs' /\ ArenaRooted'
    BY <1>1, <1>3, RemovalKeeps DEF FinalizeOne
  <1>5. TypeOK'
    BY <1>3 DEF FinalizeOne, TypeOK, faultVars
  <1>6. \A u \in Thread : Busy(u)'
    BY <1>1, <1>3 DEF Busy, At, foreignThread, Known, Inside, faultVars
  <1>7. OwnAnswer'
    <2> SUFFICES ASSUME NEW u \in Thread, At(u, "returned") PROVE buf'[call[u].on] = u
      BY <1>3 DEF OwnAnswer, At
    <2>1. call[u].on # s /\ call[u].on \in Handle /\ buf[call[u].on] = u
      <3>1. call[u].stage \in Inside /\ call[t].stage \notin Inside
        BY <1>1 DEF At, Inside
      <3> QED  BY <1>1, <3>1, HolderOwns DEF OwnAnswer
    <2> QED  BY <1>3, <2>1 DEF TypeOK
  <1>8. NoArenaLeak'
    BY <1>1, <1>3 DEF NoArenaLeak, Refs, At
  <1> QED  BY <1>4, <1>5, <1>6, <1>7, <1>8

LEMMA FinishExitKeeps ==
    ASSUME IInv, NEW t \in Thread, FinishExit(t)
    PROVE  IInv'
  <1> USE DEF IInv
  <1>1. \A s \in sessions \ lost : owner[s] # t
    BY DEF FinishExit, NoOrphan
  <1>2. \A u \in Thread : call'[u] = IF u = t THEN NoCall ELSE call[u]
    BY DEF FinishExit, Returns, TypeOK
  <1>3. TypeOK'
    BY NoCallType DEF FinishExit, Returns, TypeOK, goVars, faultVars, NoArenas
  <1>4. Fresh' /\ Lists'
    BY DEF FinishExit, Fresh, Lists, goVars, faultVars
  <1>5. \A u \in Thread, s \in Handle : arenas'[u][s] = IF u = t THEN NoBuffer ELSE arenas[u][s]
    BY DEF FinishExit, NoArenas, TypeOK
  <1>6. Refs' /\ NoArenaLeak'
    BY <1>2, <1>5 DEF FinishExit, Refs, NoArenaLeak, At, goVars, faultVars
  <1>7. ArenaRooted'
    <2>1. \A s \in sessions : s \in Handle /\ owner[s] \in Thread
      BY DEF TypeOK, Handle, Fresh
    <2> QED  BY <1>1, <1>5, <2>1 DEF FinishExit, ArenaRooted, Refs, goVars, faultVars
  <1>8. NoOrphan'
    BY <1>1 DEF FinishExit, NoOrphan, goVars, faultVars
  <1>9. OwnAnswer' /\ \A u \in Thread : Busy(u)'
    BY <1>2 DEF FinishExit, OwnAnswer, Busy, At, foreignThread, Known, Inside, NoCall, goVars, faultVars
  <1> QED  BY <1>3, <1>4, <1>6, <1>7, <1>8, <1>9

-----------------------------------------------------------------------------
(* Calls that write. *)

LEMMA CloseKeeps ==
    ASSUME IInv, NEW t \in Thread, CloseSession(t)
    PROVE  IInv'
  <1> USE DEF IInv
  <1> DEFINE s == call[t].on
  <1>1. s \in Known \ sessions /\ s \in Handle
    BY DEF CloseSession, Busy, Known, TypeOK, Handle
  <1>2. /\ arenaPtr' = [arenaPtr EXCEPT ![s] = NoBuffer]
        /\ buf' = [buf EXCEPT ![s] = NoThread]
        /\ UNCHANGED <<alive, nextID, sessions, owner, shimVars, faultVars>>
    BY DEF CloseSession
  <1>3. \A u \in Thread : call'[u] = IF u = t THEN NoCall ELSE call[u]
    BY DEF CloseSession, Returns, TypeOK
  <1>4. TypeOK'
    BY <1>2, NoCallType DEF CloseSession, Returns, TypeOK, shimVars, faultVars
  <1>5. \A x \in Handle : arenaPtr'[x] = IF x = s THEN NoBuffer ELSE arenaPtr[x]
    BY <1>1, <1>2 DEF TypeOK
  <1>6. Fresh' /\ Lists' /\ NoOrphan'
    BY <1>2, <1>5 DEF Fresh, Lists, NoOrphan, shimVars, faultVars, TypeOK, Handle
  <1>7. Refs' /\ ArenaRooted'
    <2>1. lost \subseteq Handle /\ sessions \subseteq Handle
      BY DEF TypeOK, Handle
    <2>2. Refs'
      BY <1>2, <1>5, <2>1 DEF Refs, shimVars, faultVars
    <2>3. \A x \in sessions : arenaPtr'[x] = arenaPtr[x]
      BY <1>1, <1>5, <2>1
    <2>4. ArenaRooted'
      BY <1>2, <2>3 DEF ArenaRooted, shimVars, faultVars
    <2> QED  BY <2>2, <2>4
  <1>8. NoArenaLeak'
    BY <1>2, <1>3 DEF CloseSession, NoArenaLeak, At, shimVars
  <1>9. OwnAnswer' /\ \A u \in Thread : Busy(u)'
    <2>1. \A u \in Thread : Busy(u)'
      BY <1>2, <1>3 DEF Busy, At, foreignThread, Known, Inside, NoCall, faultVars
    <2>2. ASSUME NEW u \in Thread, u # t, At(u, "returned")
          PROVE  buf'[call[u].on] = u
      BY <1>1, <1>2, <2>2 DEF Busy, At, Inside, OwnAnswer, TypeOK, Handle
    <2> QED  BY <1>3, <2>1, <2>2 DEF OwnAnswer, At, NoCall
  <1> QED  BY <1>4, <1>6, <1>7, <1>8, <1>9

LEMMA AnswerTextKeeps ==
    ASSUME IInv, NEW t \in Thread, AnswerText(t)
    PROVE  IInv'
  <1> USE DEF IInv
  <1> DEFINE s == call[t].on
             c == [stage |-> "returned", op |-> call[t].op, on |-> s, offered |-> call[t].offered]
  <1>1. s \in sessions /\ owner[s] = t /\ s \in Handle /\ t \in alive
    BY HolderOwns DEF AnswerText, At, Inside
  <1>2. /\ buf' = [buf EXCEPT ![s] = t]
        /\ UNCHANGED <<alive, nextID, sessions, owner, arenaPtr, shimVars, faultVars>>
    BY DEF AnswerText
  <1>3. c \in Call /\ call' = [call EXCEPT ![t] = c]
    <2>1. call[t] \in Call /\ call \in [Thread -> Call]
      BY DEF TypeOK
    <2>2. c \in Call
      BY <2>1 DEF Call, Stage
    <2>3. [call[t] EXCEPT !.stage = "returned"] = c
      BY <2>1 DEF Call
    <2>4. call' = [call EXCEPT ![t].stage = "returned"]
      BY DEF AnswerText, GoesTo
    <2> HIDE DEF c
    <2>5. call' = [call EXCEPT ![t] = c]
      BY <2>3, <2>4
    <2> QED  BY <2>2, <2>5
  <1>4. \A u \in Thread : call'[u] = IF u = t THEN c ELSE call[u]
    BY <1>3 DEF TypeOK
  <1>5. TypeOK'
    BY <1>1, <1>2, <1>3 DEF TypeOK, shimVars, faultVars
  <1>6. Fresh' /\ Lists' /\ NoOrphan' /\ Refs' /\ ArenaRooted'
    BY <1>2 DEF Fresh, Lists, NoOrphan, Refs, ArenaRooted, shimVars, faultVars
  <1>7. NoArenaLeak'
    BY <1>2, <1>4 DEF AnswerText, NoArenaLeak, At, shimVars
  <1>8. \A u \in Thread : Busy(u)'
    BY <1>1, <1>2, <1>4 DEF Busy, At, foreignThread, Known, Inside, faultVars
  <1>9. OwnAnswer'
    <2>1. ASSUME NEW u \in Thread, u # t, At(u, "returned")
          PROVE  buf'[call[u].on] = u
      BY <1>1, <1>2, <2>1 DEF Busy, At, Inside, foreignThread, OwnAnswer, TypeOK, Handle
    <2>2. buf'[s] = t
      BY <1>1, <1>2 DEF TypeOK
    <2> QED  BY <1>4, <2>1, <2>2 DEF OwnAnswer, At
  <1> QED  BY <1>5, <1>6, <1>7, <1>8, <1>9

LEMMA InstallKeeps ==
    ASSUME IInv, NEW t \in Thread, InstallArena(t)
    PROVE  IInv'
  <1> USE DEF IInv
  <1> DEFINE s == call[t].on
             b == call[t].offered
  <1>1. s \in sessions \ lost /\ owner[s] = t /\ s \in Handle /\ s \in 1..nextID
    BY DEF InstallArena, Busy, At, foreignThread, Known, TypeOK, Handle
  <1>2. b \in Buffer \union {NoBuffer}
    BY DEF TypeOK, Call
  <1>3. /\ arenaPtr' = [arenaPtr EXCEPT ![s] = b]
        /\ UNCHANGED <<alive, nextID, sessions, owner, buf, tracked, lost>>
    BY DEF InstallArena
  <1>4. PICK r \in {b, NoBuffer} :
            /\ arenas' = [arenas EXCEPT ![t][s] = r]
            /\ \/ r = b /\ unrooted' = unrooted \ {s}
               \/ unrooted' = unrooted \union {s}
    BY DEF InstallArena, RefSwapped, RefDropped
  <1>5. \A u \in Thread : call'[u] = IF u = t THEN NoCall ELSE call[u]
    BY DEF InstallArena, Returns, TypeOK
  <1>6. TypeOK'
    <2>1. arenaPtr' \in [Handle -> Buffer \union {NoBuffer}] /\ unrooted' \subseteq 1..nextID
      BY <1>1, <1>2, <1>3, <1>4 DEF TypeOK
    <2>2. arenas' \in [Thread -> [Handle -> Buffer \union {NoBuffer}]]
      BY <1>1, <1>2, <1>4 DEF TypeOK
    <2>3. call' \in [Thread -> Call] /\ faults' \in 0..MaxFaults
      BY NoCallType DEF InstallArena, Returns, TypeOK
    <2> QED  BY <1>3, <2>1, <2>2, <2>3 DEF TypeOK
  <1>7. \A x \in Handle : arenaPtr'[x] = IF x = s THEN b ELSE arenaPtr[x]
    BY <1>1, <1>3 DEF TypeOK
  <1>8. \A u \in Thread, x \in Handle : arenas'[u][x] = IF u = t /\ x = s THEN r ELSE arenas[u][x]
    BY <1>1, <1>4 DEF TypeOK
  <1>9. Fresh' /\ Lists' /\ NoOrphan'
    BY <1>1, <1>3, <1>7 DEF Fresh, Lists, NoOrphan, TypeOK, Handle
  <1>10. Refs'
    <2>1. \A x \in lost : x \in Handle /\ x # s
      BY <1>1, HandleFacts
    <2>2. \A x \in lost' : arenaPtr'[x] = NoBuffer
      BY <1>3, <1>7, <2>1 DEF Refs
    <2>3. \A u \in Thread, x \in Handle : arenas'[u][x] # NoBuffer => x \in 1..nextID /\ owner[x] = u
      BY <1>1, <1>8 DEF Refs
    <2> QED  BY <1>3, <2>2, <2>3 DEF Refs
  <1>11. ArenaRooted'
    <2>1. \A x \in sessions : x \in Handle /\ owner[x] \in Thread
      BY HandleFacts
    <2> QED  BY <1>1, <1>3, <1>4, <1>7, <1>8, <2>1 DEF ArenaRooted
  <1>12. NoArenaLeak'
    BY <1>1, <1>3, <1>5, <1>8 DEF InstallArena, NoArenaLeak, At
  <1>13. OwnAnswer' /\ \A u \in Thread : Busy(u)'
    BY <1>3, <1>5 DEF OwnAnswer, Busy, At, foreignThread, Known, Inside, NoCall
  <1> QED  BY <1>6, <1>9, <1>10, <1>11, <1>12, <1>13

-----------------------------------------------------------------------------

LEMMA IInvNext == IInv /\ [Next]_vars => IInv'
  <1> SUFFICES ASSUME IInv, [Next]_vars PROVE IInv'
    OBVIOUS
  <1>1. CASE UNCHANGED vars
    BY <1>1 DEF IInv, TypeOK, Fresh, Lists, Refs, Busy, OwnAnswer, NoOrphan, ArenaRooted, NoArenaLeak,
                vars, goVars, shimVars, faultVars, At, foreignThread, Known
  <1>2. ASSUME NEW t \in Thread, Ask(t)
        PROVE  IInv'
    <2>1. ASSUME NEW s \in Known, Dispose(t, s)
          PROVE  IInv'
      BY <1>1, <2>1, DisposeNothing, DisposeKeeps
    <2> QED  BY <1>2, <2>1, Moves, NewSessionKeeps DEF Ask
  <1>3. ASSUME NEW t \in Thread, Proceed(t) \/ Finalize(t)
        PROVE  IInv'
    BY <1>3, Moves, CloseKeeps, InstallKeeps, AnswerTextKeeps, FinalizeOneKeeps, FinishExitKeeps
       DEF Proceed, Finalize
  <1> QED  BY <1>1, <1>2, <1>3 DEF Next

THEOREM Invariance == Spec => []IInv
  BY InitInv, IInvNext, PTL DEF Spec

\* Every variable stays in its set.
THEOREM RegistryTyped == Spec => []TypeOK
  <1>1. IInv => TypeOK
    BY DEF IInv
  <1> QED  BY <1>1, Invariance, PTL

\* No session is closed under a call, and no two threads work in one
\* (bridge.go:92-109).
THEOREM OneThreadInside == Spec => []OneInside
  <1>1. IInv => OneInside
    BY DEF IInv, Busy, OneInside, foreignThread
  <1> QED  BY <1>1, Invariance, PTL

\* The shim reads from a result buffer the answer to its own call
\* (bridge.go:100-106).
THEOREM AnswersNotTorn == Spec => []OwnAnswer
  <1>1. IInv => OwnAnswer
    BY DEF IInv
  <1> QED  BY <1>1, Invariance, PTL

\* A thread that is gone has no session in the registry, one whose tracking
\* ran out of memory apart (napi_shim.c:100-107).
THEOREM NoSessionOrphaned == Spec => []NoOrphan
  <1>1. IInv => NoOrphan
    BY DEF IInv
  <1> QED  BY <1>1, Invariance, PTL

\* The shim references the arena Go writes to, so that V8 cannot free it under
\* an answer (napi_shim.c:410-416).
THEOREM ArenasFollowSessions == Spec => []ArenaRooted
  <1>1. IInv => ArenaRooted
    BY DEF IInv
  <1> QED  BY <1>1, Invariance, PTL

\* No environment keeps an arena of a session that was disposed, by whichever
\* of the two ways a session ends (napi_shim.c:501-502).
THEOREM ArenasNotLeaked == Spec => []NoArenaLeak
  <1>1. IInv => NoArenaLeak
    BY DEF IInv
  <1> QED  BY <1>1, Invariance, PTL

-----------------------------------------------------------------------------
(* The registry implements sessions that are private: each step is one of    *)
(* PrivateSessions, or nothing the threads can see.                          *)

\* A step of t outside of calls leaves what the threads see of calls as it is,
\* unless it takes a buffer that is being read.
LEMMA CallsUnseen ==
    ASSUME IInv, NEW t \in Thread, call[t].stage \notin Inside, call'[t].stage \notin Inside,
           \A u \in Thread : u # t => call'[u] = call[u],
           \A u \in Thread : At(u, "returned") => buf'[call[u].on] = buf[call[u].on]
    PROVE  UNCHANGED <<inside, answer>>
  <1>1. \A u \in Thread : inside'[u] = inside[u]
    BY DEF inside
  <1>2. \A u \in Thread : answer'[u] = answer[u]
    BY DEF answer, At, Inside
  <1> QED  BY <1>1, <1>2 DEF inside, answer

\* A step that leaves registry, buffers and arenas alone, by a thread outside.
LEMMA StepUnseen ==
    ASSUME IInv, NEW t \in Thread, call[t].stage \notin Inside, UNCHANGED goVars,
           NEW c, call' = [call EXCEPT ![t] = c], c.stage \notin Inside
    PROVE  UNCHANGED Private!vars
  <1>1. call'[t] = c /\ \A u \in Thread : u # t => call'[u] = call[u]
    BY DEF IInv, TypeOK
  <1>2. UNCHANGED <<inside, answer>>
    BY <1>1, CallsUnseen DEF goVars
  <1> QED  BY <1>2 DEF Private!vars, arena, goVars

\* While t is outside of calls, nobody is inside a session of t.
LEMMA OthersOutside ==
    ASSUME IInv, NEW t \in Thread, call[t].stage \notin Inside, NEW s \in Handle, owner[s] = t
    PROVE  /\ \A u \in Thread : call[u].stage \in Inside => call[u].on # s
           /\ Private!Vacant(s)
  <1>1. \A u \in Thread : call[u].stage \in Inside => call[u].on # s
    BY HolderOwns
  <1> QED  BY <1>1 DEF Private!Vacant, inside, Handle

\* t takes a session of its own out of the registry.
LEMMA RemovalCloses ==
    ASSUME IInv, NEW t \in Thread, NEW s \in Handle, call[t].stage \notin Inside,
           Removed(t, s) # {}, sessions' = sessions \ Removed(t, s), UNCHANGED owner,
           call'[t].stage \notin Inside, \A u \in Thread : u # t => call'[u] = call[u],
           \A r \in Handle : r # s => buf'[r] = buf[r] /\ arenaPtr'[r] = arenaPtr[r]
    PROVE  Private!Close(t, s)
  <1>1. s \in sessions /\ owner[s] = t /\ sessions' = sessions \ {s}
    BY DEF Removed
  <1>2. Private!Owns(t, s) /\ Private!Vacant(s)
    BY <1>1, OthersOutside DEF Private!Owns
  <1>3. \A u \in Thread : At(u, "returned") => buf'[call[u].on] = buf[call[u].on]
    BY <1>1, OthersOutside, HolderOwns DEF At, Inside
  <1>4. UNCHANGED <<inside, answer>>
    BY <1>3, CallsUnseen
  <1>5. arena' = [arena EXCEPT ![s] = NoBuffer]
    BY <1>1 DEF arena
  <1> QED  BY <1>1, <1>2, <1>4, <1>5 DEF Private!Close

LEMMA NewSessionMakes ==
    ASSUME IInv, NEW t \in Thread, NewSession(t)
    PROVE  Private!Make(t, nextID + 1)
  <1>1. nextID + 1 \in Handle /\ nextID + 1 \notin sessions /\ nextID \in Nat
    BY DEF IInv, TypeOK, NewSession, Handle
  <1>2. owner[nextID + 1] = NoThread /\ arenaPtr[nextID + 1] = NoBuffer
    BY <1>1 DEF IInv, Fresh
  <1>3. /\ sessions' = sessions \union {nextID + 1}
        /\ owner' = [owner EXCEPT ![nextID + 1] = t]
        /\ UNCHANGED <<buf, arenaPtr, call>>
    BY DEF NewSession, NewHandle
  <1>4. UNCHANGED <<inside, answer>>
    BY <1>3 DEF inside, answer, At
  <1>5. UNCHANGED arena
    BY <1>2, <1>3 DEF arena
  <1> QED  BY <1>2, <1>3, <1>4, <1>5 DEF Private!Make

LEMMA InstallSets ==
    ASSUME IInv, NEW t \in Thread, InstallArena(t)
    PROVE  Private!SetArena(t, call[t].on, call[t].offered)
  <1> DEFINE s == call[t].on
  <1>1. At(t, "found") /\ ~foreignThread(t) /\ Busy(t)
    BY DEF InstallArena, IInv
  <1>2. s \in sessions /\ s \in Handle /\ owner[s] = t /\ call[t].stage \notin Inside
    BY <1>1, HandleFacts DEF Busy, foreignThread, At, Inside
  <1>3. Private!Owns(t, s) /\ Private!Vacant(s)
    BY <1>2, OthersOutside DEF Private!Owns
  <1>4. /\ arenaPtr' = [arenaPtr EXCEPT ![s] = call[t].offered]
        /\ call' = [call EXCEPT ![t] = NoCall]
        /\ UNCHANGED <<sessions, owner, buf>>
    BY DEF InstallArena, Returns
  <1>5. call'[t].stage \notin Inside /\ \A u \in Thread : u # t => call'[u] = call[u]
    BY <1>4 DEF IInv, TypeOK, NoCall, Inside
  <1>6. UNCHANGED <<inside, answer>>
    BY <1>2, <1>4, <1>5, CallsUnseen
  <1>7. arena' = [arena EXCEPT ![s] = call[t].offered]
    BY <1>2, <1>4 DEF arena, IInv, TypeOK
  <1> QED  BY <1>3, <1>4, <1>6, <1>7 DEF Private!SetArena

LEMMA CallEnters ==
    ASSUME IInv, NEW t \in Thread, Enter(t)
    PROVE  Private!Enter(t, call[t].on)
  <1> DEFINE s == call[t].on
  <1>1. At(t, "found") /\ ~foreignThread(t) /\ Busy(t)
    BY DEF Enter, IInv
  <1>2. s \in sessions /\ s \in Handle /\ owner[s] = t /\ call[t].stage \notin Inside
    BY <1>1, HandleFacts DEF Busy, foreignThread, At, Inside
  <1>3. Private!Owns(t, s) /\ Private!Vacant(s) /\ inside[t] = 0
    BY <1>2, OthersOutside DEF Private!Owns, inside
  <1>4. \A u \in Thread : call'[u] = IF u = t THEN [call[t] EXCEPT !.stage = "handling"] ELSE call[u]
    BY DEF Enter, GoesTo, IInv, TypeOK
  <1>5. [call[t] EXCEPT !.stage = "handling"].stage = "handling"
        /\ [call[t] EXCEPT !.stage = "handling"].on = s
    BY DEF IInv, TypeOK, Call
  <1>6. inside' = [inside EXCEPT ![t] = s]
    BY <1>4, <1>5 DEF inside, Inside
  <1>7. UNCHANGED <<sessions, owner, buf, arenaPtr>>
    BY DEF Enter, goVars
  <1>8. UNCHANGED answer
    BY <1>1, <1>4, <1>5, <1>7 DEF answer, At
  <1>9. UNCHANGED arena
    BY <1>7 DEF arena
  <1> QED  BY <1>3, <1>6, <1>7, <1>8, <1>9 DEF Private!Enter

LEMMA CallAnswers ==
    ASSUME IInv, NEW t \in Thread, AnswerText(t)
    PROVE  Private!Answer(t)
  <1> DEFINE s == call[t].on
  <1>1. At(t, "handling") /\ call[t].stage \in Inside
    BY DEF AnswerText, At, Inside
  <1>2. s \in sessions /\ s \in Handle /\ owner[s] = t
    BY <1>1, HolderOwns
  <1>3. \A u \in Thread : call'[u] = IF u = t THEN [call[t] EXCEPT !.stage = "returned"] ELSE call[u]
    BY DEF AnswerText, GoesTo, IInv, TypeOK
  <1>4. [call[t] EXCEPT !.stage = "returned"].stage = "returned"
        /\ [call[t] EXCEPT !.stage = "returned"].on = s
    BY DEF IInv, TypeOK, Call
  <1>5. /\ buf' = [buf EXCEPT ![s] = t]
        /\ UNCHANGED <<sessions, owner, arenaPtr>>
    BY DEF AnswerText
  <1>6. inside' = inside /\ inside[t] = s /\ answer[t] = NoThread
    BY <1>1, <1>3, <1>4 DEF inside, answer, At, Inside
  <1>7. \A u \in Thread : answer'[u] = IF u = t THEN t ELSE answer[u]
    <2>1. answer'[t] = t
      BY <1>2, <1>3, <1>4, <1>5 DEF answer, At, IInv, TypeOK
    <2>2. ASSUME NEW u \in Thread, u # t, At(u, "returned")
          PROVE  buf'[call[u].on] = buf[call[u].on]
      BY <1>2, <1>5, <2>2, HolderOwns DEF At, Inside
    <2> QED  BY <1>3, <2>1, <2>2 DEF answer, At
  <1>8. answer' = [answer EXCEPT ![t] = t]
    BY <1>7 DEF answer
  <1>9. UNCHANGED arena
    BY <1>5 DEF arena
  <1> QED  BY <1>2, <1>5, <1>6, <1>8, <1>9 DEF Private!Answer

LEMMA CallLeaves ==
    ASSUME IInv, NEW t \in Thread, AnswerInPlace(t) \/ ReadText(t)
    PROVE  Private!Leave(t)
  <1>1. /\ call[t].stage \in Inside
        /\ call' = [call EXCEPT ![t] = NoCall] /\ UNCHANGED goVars
    BY DEF AnswerInPlace, ReadText, Returns, At, Inside
  <1>2. inside[t] \in sessions
    BY <1>1, HolderOwns DEF inside
  <1>3. answer[t] \in {NoThread, t}
    BY DEF IInv, OwnAnswer, answer
  <1>4. \A u \in Thread : call'[u] = IF u = t THEN NoCall ELSE call[u]
    BY <1>1 DEF IInv, TypeOK
  <1>5. \A u \in Thread : /\ inside'[u] = IF u = t THEN 0 ELSE inside[u]
                          /\ answer'[u] = IF u = t THEN NoThread ELSE answer[u]
    BY <1>1, <1>4 DEF inside, answer, Inside, At, NoCall, goVars
  <1>6. inside' = [inside EXCEPT ![t] = 0] /\ answer' = [answer EXCEPT ![t] = NoThread]
    BY <1>5 DEF inside, answer
  <1> QED  BY <1>1, <1>2, <1>3, <1>6 DEF Private!Leave, arena, goVars

\* Disposing, and the rounds of a thread's end.
LEMMA DisposeCloses ==
    ASSUME IInv, NEW t \in Thread, NEW s \in Known, Dispose(t, s)
    PROVE  Private!Close(t, s) \/ UNCHANGED Private!vars
  <1>1. s \in Handle /\ call[t].stage = "js" /\ call[t].stage \notin Inside
    BY HandleFacts DEF Known, Dispose, InJS, At, Inside
  <1>2. CASE Removed(t, s) = {}
    BY <1>2 DEF Dispose, Private!vars, arena, inside, answer, At
  <1>3. CASE Removed(t, s) # {}
    <2>1. /\ call' = [call EXCEPT ![t].stage = "closing", ![t].on = s]
          /\ sessions' = sessions \ Removed(t, s) /\ UNCHANGED <<owner, buf, arenaPtr>>
      BY <1>3 DEF Dispose
    <2>2. call'[t].stage = "closing" /\ \A u \in Thread : u # t => call'[u] = call[u]
      BY <2>1 DEF IInv, TypeOK, Call
    <2>3. Private!Close(t, s)
      BY <1>1, <1>3, <2>1, <2>2, RemovalCloses DEF Inside
    <2> QED  BY <2>3
  <1> QED  BY <1>2, <1>3

LEMMA FinalizeOneCloses ==
    ASSUME IInv, NEW t \in Thread, NEW s \in Handle, FinalizeOne(t, s)
    PROVE  Private!Close(t, s) \/ UNCHANGED Private!vars
  <1>1. call[t].stage \notin Inside /\ UNCHANGED <<call, owner>>
        /\ sessions' = sessions \ Removed(t, s)
    BY DEF FinalizeOne, At, Inside
  <1>2. CASE Removed(t, s) = {}
    BY <1>1, <1>2 DEF FinalizeOne, Private!vars, arena, inside, answer, At
  <1>3. CASE Removed(t, s) # {}
    <2>1. buf' = [buf EXCEPT ![s] = NoThread] /\ arenaPtr' = [arenaPtr EXCEPT ![s] = NoBuffer]
      BY <1>3 DEF FinalizeOne
    <2>2. \A r \in Handle : r # s => buf'[r] = buf[r] /\ arenaPtr'[r] = arenaPtr[r]
      BY <2>1 DEF IInv, TypeOK
    <2>3. Private!Close(t, s)
      BY <1>1, <1>3, <2>2, RemovalCloses
    <2> QED  BY <2>3
  <1> QED  BY <1>2, <1>3

\* The session is out of the registry when its buffer goes.
LEMMA CloseUnseen ==
    ASSUME IInv, NEW t \in Thread, CloseSession(t)
    PROVE  UNCHANGED Private!vars
  <1> DEFINE s == call[t].on
  <1>1. At(t, "closing") /\ Busy(t)
    BY DEF CloseSession, IInv
  <1>2. s \notin sessions /\ call[t].stage \notin Inside
    BY <1>1 DEF Busy, At, Inside
  <1>3. /\ buf' = [buf EXCEPT ![s] = NoThread] /\ arenaPtr' = [arenaPtr EXCEPT ![s] = NoBuffer]
        /\ call' = [call EXCEPT ![t] = NoCall] /\ UNCHANGED <<sessions, owner>>
    BY DEF CloseSession, Returns
  <1>4. call'[t].stage \notin Inside /\ \A u \in Thread : u # t => call'[u] = call[u]
    BY <1>3 DEF IInv, TypeOK, NoCall, Inside
  <1>5. \A u \in Thread : At(u, "returned") => buf'[call[u].on] = buf[call[u].on]
    BY <1>2, <1>3, HolderOwns DEF At, Inside, IInv, TypeOK
  <1>6. UNCHANGED <<inside, answer>>
    BY <1>2, <1>4, <1>5, CallsUnseen
  <1>7. UNCHANGED arena
    BY <1>2, <1>3 DEF arena, IInv, TypeOK
  <1> QED  BY <1>3, <1>6, <1>7 DEF Private!vars

LEMMA PrivateInit == Init => Private!Init
  <1> SUFFICES ASSUME Init PROVE Private!Init
    OBVIOUS
  <1>1. arena = [s \in Handle |-> NoBuffer]
    BY DEF Init, arena
  <1>2. inside = [t \in Thread |-> 0] /\ answer = [t \in Thread |-> NoThread]
    BY DEF Init, inside, answer, At, Inside, NoCall
  <1> QED  BY <1>1, <1>2 DEF Init, Private!Init

LEMMA PrivateNext == IInv /\ [Next]_vars => [Private!Next]_Private!vars
  <1> SUFFICES ASSUME IInv, [Next]_vars
               PROVE  Private!Next \/ UNCHANGED Private!vars
    OBVIOUS
  <1>1. CASE UNCHANGED vars
    BY <1>1 DEF vars, goVars, Private!vars, arena, inside, answer, At
  <1>2. ASSUME NEW t \in Thread, StartEnv(t)
        PROVE  UNCHANGED Private!vars
    BY <1>2 DEF StartEnv, goVars, Private!vars, arena, inside, answer, At
  <1>3. ASSUME NEW t \in Thread, Exit(t)
        PROVE  UNCHANGED Private!vars
    <2>1. call' = [call EXCEPT ![t] = [call[t] EXCEPT !.stage = "finalizing"]]
          /\ call[t].stage \notin Inside /\ UNCHANGED goVars
      BY <1>3 DEF Exit, GoesTo, InJS, At, Inside
    <2>2. [call[t] EXCEPT !.stage = "finalizing"].stage \notin Inside
      BY DEF Inside, IInv, TypeOK, Call
    <2> QED  BY <2>1, <2>2, StepUnseen
  <1>4. ASSUME NEW t \in Thread, Refuse(t) \/ FinishExit(t)
        PROVE  UNCHANGED Private!vars
    <2>1. call' = [call EXCEPT ![t] = NoCall] /\ call[t].stage \notin Inside /\ UNCHANGED goVars
      BY <1>4 DEF Refuse, FinishExit, Returns, At, Inside
    <2> QED  BY <2>1, StepUnseen DEF NoCall, Inside
  <1>5. ASSUME NEW t \in Thread, NEW o \in Op, NEW s \in Known, NEW b \in Buffer, Lookup(t, o, s, b)
        PROVE  UNCHANGED Private!vars
    <2> DEFINE c == [stage |-> "found", op |-> o, on |-> s,
                     offered |-> IF o = "setArena" THEN b ELSE NoBuffer]
    <2>1. call' = [call EXCEPT ![t] = c] /\ call[t].stage \notin Inside /\ UNCHANGED goVars
      BY <1>5 DEF Lookup, InJS, At, Inside
    <2>2. c.stage \notin Inside
      BY DEF Inside
    <2> HIDE DEF c
    <2> QED  BY <2>1, <2>2, StepUnseen
  <1>6. ASSUME NEW t \in Thread, NewSession(t)
        PROVE  \E s \in Handle : Private!Make(t, s)
    <2>1. nextID + 1 \in Handle
      BY <1>6 DEF NewSession, IInv, TypeOK, Handle
    <2> QED  BY <1>6, <2>1, NewSessionMakes
  <1>7. ASSUME NEW t \in Thread, InstallArena(t)
        PROVE  \E s \in Handle, b \in Buffer : Private!SetArena(t, s, b)
    <2>1. At(t, "found") /\ ~foreignThread(t) /\ call[t].op = "setArena" /\ Busy(t)
      BY <1>7 DEF InstallArena, IInv
    <2>2. call[t].on \in Handle /\ call[t].offered \in Buffer
      BY <2>1, HandleFacts DEF IInv, TypeOK, Call, Busy
    <2> QED  BY <1>7, <2>2, InstallSets
  <1>8. ASSUME NEW t \in Thread, Enter(t)
        PROVE  \E s \in Handle : Private!Enter(t, s)
    <2>1. call[t].on \in Handle
      BY <1>8, HandleFacts DEF Enter, IInv, Busy, At, foreignThread
    <2> QED  BY <1>8, <2>1, CallEnters
  <1>9. ASSUME NEW t \in Thread, NEW s \in Known, Dispose(t, s)
        PROVE  (\E r \in Handle : Private!Close(t, r)) \/ UNCHANGED Private!vars
    BY <1>9, HandleFacts, DisposeCloses DEF Known
  <1>10. ASSUME NEW t \in Thread
         PROVE  Ask(t) \/ Proceed(t) \/ Finalize(t) => Private!Next \/ UNCHANGED Private!vars
    <2>1. Ask(t) => Private!Next \/ UNCHANGED Private!vars
      BY <1>2, <1>3, <1>5, <1>6, <1>9 DEF Ask, Private!Next
    <2>2. Proceed(t) => Private!Next \/ UNCHANGED Private!vars
      BY <1>4, <1>7, <1>8, CloseUnseen, CallAnswers, CallLeaves DEF Proceed, Private!Next
    <2>3. Finalize(t) => Private!Next \/ UNCHANGED Private!vars
      BY <1>4, FinalizeOneCloses DEF Finalize, Private!Next
    <2> QED  BY <2>1, <2>2, <2>3
  <1> QED  BY <1>1, <1>10 DEF Next

\* A session is an object of the thread that made it: for any number of threads
\* and sessions, in every order of lookups, calls, disposals and ends of threads,
\* each step of the registry is one of PrivateSessions (bridge.go:92-109, 264-306).
THEOREM SessionsArePrivate == Spec => ImplementsPrivate
  <1> QED  BY PrivateInit, PrivateNext, Invariance, PTL DEF Spec, ImplementsPrivate, Private!Spec

=============================================================================
