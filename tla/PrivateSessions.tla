---------------------------- MODULE PrivateSessions ----------------------------
(* What the bridge promises every JS thread: a session is an object of its    *)
(* own.  No other thread gets in, gives it an arena or takes it away; it is   *)
(* not closed while a call is inside; the answer a call reads is the one made *)
(* for it; a handle that was given out never stands for another session.      *)
(* BridgeSessions implements this with a registry that every thread can       *)
(* reach, one buffer per session and no lock around a call.                   *)

CONSTANTS
    Thread,
    Session,
    Buffer,
    NoThread, NoSession, NoBuffer

VARIABLES
    maker,      \* maker[s]: the thread that made s, NoThread before
    open,       \* the sessions there are
    arena,      \* arena[s]: the arena Go writes to
    inside,     \* inside[t]: the session a call of t is inside
    answer      \* answer[t]: whose answer t is about to read

vars == <<maker, open, arena, inside, answer>>

Init ==
    /\ maker = [s \in Session |-> NoThread]
    /\ open = {}
    /\ arena = [s \in Session |-> NoBuffer]
    /\ inside = [t \in Thread |-> NoSession]
    /\ answer = [t \in Thread |-> NoThread]

Vacant(s) == \A t \in Thread : inside[t] # s
Owns(t, s) == s \in open /\ maker[s] = t

\* t makes a session; its handle was never given out before.
Make(t, s) ==
    /\ maker[s] = NoThread
    /\ maker' = [maker EXCEPT ![s] = t]
    /\ open' = open \cup {s}
    /\ UNCHANGED <<arena, inside, answer>>

\* t takes a session of its own away, with its arena.
Close(t, s) ==
    /\ Owns(t, s) /\ Vacant(s)
    /\ open' = open \ {s}
    /\ arena' = [arena EXCEPT ![s] = NoBuffer]
    /\ UNCHANGED <<maker, inside, answer>>

SetArena(t, s, b) ==
    /\ Owns(t, s) /\ Vacant(s)
    /\ arena' = [arena EXCEPT ![s] = b]
    /\ UNCHANGED <<maker, open, inside, answer>>

\* A call of t enters, gets its answer and leaves; not all leave an answer.
Enter(t, s) ==
    /\ Owns(t, s) /\ Vacant(s) /\ inside[t] = NoSession
    /\ inside' = [inside EXCEPT ![t] = s]
    /\ UNCHANGED <<maker, open, arena, answer>>

Answer(t) ==
    /\ inside[t] \in open /\ answer[t] = NoThread
    /\ answer' = [answer EXCEPT ![t] = t]
    /\ UNCHANGED <<maker, open, arena, inside>>

Leave(t) ==
    /\ inside[t] \in open /\ answer[t] \in {NoThread, t}
    /\ inside' = [inside EXCEPT ![t] = NoSession]
    /\ answer' = [answer EXCEPT ![t] = NoThread]
    /\ UNCHANGED <<maker, open, arena>>

Next ==
    \E t \in Thread :
        \/ Answer(t) \/ Leave(t)
        \/ \E s \in Session :
              \/ Make(t, s) \/ Close(t, s) \/ Enter(t, s)
              \/ \E b \in Buffer : SetArena(t, s, b)

Spec == Init /\ [][Next]_vars
=============================================================================
