---------------------------- MODULE BridgeSessions ----------------------------
(***************************************************************************)
(* The session registry of the NAPI addon (bridge.go and napi_shim.c).     *)
(*                                                                         *)
(* Every JS thread, the main one or a worker, has an environment with an    *)
(* instance of the shim; all of them share one Go registry of sessions.     *)
(* A session belongs to the OS thread that made it: its result buffer has   *)
(* no lock, and the affinity guard is what keeps it private.  Handles are   *)
(* plain numbers, so any thread can present any of them, dead ones too.    *)
(* Threads interleave at every point where the bridge holds no lock.       *)
(***************************************************************************)
EXTENDS Naturals, FiniteSets

CONSTANTS
    Thread,       \* OS thread ids; the OS gives the id of a dead thread again
    NoThread,
    Buffer,       \* V8 buffers a client offers as an arena
    NoBuffer,
    MaxSessions,  \* bound: handles given out in a behaviour
    MaxArenas,    \* SHIM_MAX_ARENAS
    MaxFaults     \* bound: allocations that fail in a behaviour

ASSUME SentinelAssumption == NoThread \notin Thread /\ NoBuffer \notin Buffer
ASSUME LimitAssumption == MaxSessions \in Nat /\ MaxArenas \in Nat /\ MaxFaults \in Nat

VARIABLES
    alive,     \* the threads that run an environment
    nextID,    \* the last handle given out
    sessions,  \* the handles in the Go registry
    owner,     \* owner[s]: the thread that made s
    buf,       \* buf[s]: whose answer the result buffer of s holds
    arenaPtr,  \* arenaPtr[s]: the arena Go writes to
    tracked,   \* ShimInstance.sessions of each thread
    arenas,    \* arenas[t][s]: the reference ShimInstance.arenas holds for s
    call,      \* call[t]: the bridge call thread t is in
    lost,      \* sessions whose registration in the shim failed
    unrooted,  \* sessions whose arena reference could not be created
    faults     \* allocations that have failed

goVars == <<nextID, sessions, owner, buf, arenaPtr>>
shimVars == <<tracked, arenas>>
faultVars == <<lost, unrooted, faults>>
vars == <<alive, goVars, shimVars, call, faultVars>>

Handle == 1..MaxSessions
Op == {"call", "callArena", "setArena"}
Stage == {"js", "found", "handling", "returned", "closing", "finalizing"}

\* A call: how far it is, its kind, its handle, and the buffer it offers.
Call == [stage : Stage, op : Op, on : 0..MaxSessions, offered : Buffer \union {NoBuffer}]
NoCall == [stage |-> "js", op |-> "call", on |-> 0, offered |-> NoBuffer]
At(t, stage) == call[t].stage = stage
GoesTo(t, stage) == call' = [call EXCEPT ![t].stage = stage]
Returns(t) == call' = [call EXCEPT ![t] = NoCall]

\* The handles JS code has seen: an exception took the place of the lost ones.
Known == (1..nextID) \ lost

NoArenas == [s \in Handle |-> NoBuffer]

Init ==
    /\ alive = {}
    /\ nextID = 0
    /\ sessions = {}
    /\ owner = [s \in Handle |-> NoThread]
    /\ buf = [s \in Handle |-> NoThread]
    /\ arenaPtr = NoArenas
    /\ tracked = [t \in Thread |-> {}]
    /\ arenas = [t \in Thread |-> NoArenas]
    /\ call = [t \in Thread |-> NoCall]
    /\ lost = {} /\ unrooted = {} /\ faults = 0

-----------------------------------------------------------------------------
(* Environments. *)

\* NAPI_MODULE_INIT on a new thread.
StartEnv(t) ==
    /\ t \notin alive
    /\ alive' = alive \union {t}
    /\ UNCHANGED <<goVars, shimVars, call, faultVars>>

InJS(t) == t \in alive /\ At(t, "js")

\* The thread ends: finalize_instance starts to dispose what it tracks.
Exit(t) ==
    /\ InJS(t)
    /\ GoesTo(t, "finalizing")
    /\ UNCHANGED <<alive, goVars, shimVars, faultVars>>

-----------------------------------------------------------------------------
(* Making and disposing sessions. *)

\* Mutants: the handle is noted one too high; the list never grows past its
\* first entry; removing an unknown handle drops another one.
Registered_OffByOne(t, s) == [tracked EXCEPT ![t] = @ \union {s + 1}]
Registered_NoGrowth(t, s) == [tracked EXCEPT ![t] = IF @ = {} THEN {s} ELSE @]
Unregistered_Any(t, s) ==
    [tracked EXCEPT ![t] = IF s \in @ \/ @ = {} THEN @ \ {s} ELSE @ \ {CHOOSE x \in @ : TRUE}]

\* register_session and unregister_session: the list of the environment.
Registered(t, s) == [tracked EXCEPT ![t] = @ \union {s}]
Unregistered(t, s) == [tracked EXCEPT ![t] = @ \ {s}]

\* Mutant: the handle of a session that was disposed is given out again.
NewHandle_Again == IF nextID \in sessions \/ nextID = 0 THEN nextID + 1 ELSE nextID

NewHandle == nextID + 1

\* fn_new_session: Go registers the session under its lock; when the shim
\* cannot grow its list, the client gets an exception in place of the handle.
NewSession(t) ==
    /\ InJS(t) /\ nextID < MaxSessions
    /\ nextID' = NewHandle
    /\ sessions' = sessions \union {nextID'}
    /\ owner' = [owner EXCEPT ![nextID'] = t]
    /\ \/ /\ tracked' = Registered(t, nextID')
          /\ UNCHANGED <<lost, faults>>
       \/ /\ faults < MaxFaults
          /\ faults' = faults + 1
          /\ lost' = lost \union {nextID'}
          /\ UNCHANGED tracked
    /\ UNCHANGED <<alive, buf, arenaPtr, arenas, call, unrooted>>

\* Mutant: the owner is not asked.
Removed_AnyOwner(t, s) == {x \in sessions : x = s}

\* BridgeDisposeSession up to its unlock: a missing or a foreign session stays
\* as it is.
Removed(t, s) == {x \in sessions : x = s /\ owner[x] = t}

\* Mutant: the reference stays.
RefDropped_Kept(t, s) == arenas

\* Disposing releases the arena reference this environment holds for s.
RefDropped(t, s) == [arenas EXCEPT ![t][s] = NoBuffer]

\* fn_dispose_session: the arena reference and the list entry go first.
Dispose(t, s) ==
    /\ InJS(t)
    /\ arenas' = RefDropped(t, s)
    /\ tracked' = Unregistered(t, s)
    /\ sessions' = sessions \ Removed(t, s)
    /\ IF Removed(t, s) = {} THEN UNCHANGED call
       ELSE call' = [call EXCEPT ![t].stage = "closing", ![t].on = s]
    /\ UNCHANGED <<alive, nextID, owner, buf, arenaPtr, faultVars>>

\* The rest of BridgeDisposeSession, without the lock: the session closes and
\* its buffer is freed.
CloseSession(t) ==
    /\ At(t, "closing")
    /\ buf' = [buf EXCEPT ![call[t].on] = NoThread]
    /\ arenaPtr' = [arenaPtr EXCEPT ![call[t].on] = NoBuffer]
    /\ Returns(t)
    /\ UNCHANGED <<alive, nextID, sessions, owner, shimVars, faultVars>>

\* One round of finalize_instance's loop.
FinalizeOne(t, s) ==
    /\ At(t, "finalizing") /\ s \in tracked[t]
    /\ tracked' = [tracked EXCEPT ![t] = @ \ {s}]
    /\ sessions' = sessions \ Removed(t, s)
    /\ buf' = IF Removed(t, s) = {} THEN buf ELSE [buf EXCEPT ![s] = NoThread]
    /\ arenaPtr' = IF Removed(t, s) = {} THEN arenaPtr ELSE [arenaPtr EXCEPT ![s] = NoBuffer]
    /\ UNCHANGED <<alive, nextID, owner, arenas, call, faultVars>>

\* The rest of finalize_instance: the arena references go, the thread is gone.
FinishExit(t) ==
    /\ At(t, "finalizing") /\ tracked[t] = {}
    /\ arenas' = [arenas EXCEPT ![t] = NoArenas]
    /\ alive' = alive \ {t}
    /\ Returns(t)
    /\ UNCHANGED <<goVars, tracked, faultVars>>

-----------------------------------------------------------------------------
(* Calls: BridgeCall, BridgeCallBinary, BridgeCallArena, BridgeSetArena.    *)

ArenaCount(t) == Cardinality({s \in Handle : arenas[t][s] # NoBuffer})

\* The lookup under the registry's lock.  A handle that is not there gets a
\* static error and changes nothing.  setArena checks the shim's table first,
\* whether or not it replaces an arena.
Lookup(t, o, s, b) ==
    /\ InJS(t)
    /\ o = "setArena" => ArenaCount(t) < MaxArenas
    /\ s \in sessions
    /\ call' = [call EXCEPT ![t] = [stage |-> "found", op |-> o, on |-> s,
                       offered |-> IF o = "setArena" THEN b ELSE NoBuffer]]
    /\ UNCHANGED <<alive, goVars, shimVars, faultVars>>

\* Mutant: any session that has an owner passes.
foreignThread_Owned(t) == owner[call[t].on] = NoThread

foreignThread(t) == owner[call[t].on] # t

\* The affinity guard turns a foreign caller away with a static message.
Refuse(t) ==
    /\ At(t, "found") /\ foreignThread(t)
    /\ Returns(t)
    /\ UNCHANGED <<alive, goVars, shimVars, faultVars>>

\* The owner gets into HandleRequest or HandleArenaRequest.
Enter(t) ==
    /\ At(t, "found") /\ ~foreignThread(t) /\ call[t].op # "setArena"
    /\ GoesTo(t, "handling")
    /\ UNCHANGED <<alive, goVars, shimVars, faultVars>>

\* Mutant: the first reference is thought to do for every later arena.
RefSwapped_FirstKept(t) ==
    [arenas EXCEPT ![t][call[t].on] = IF @ = NoBuffer THEN call[t].offered ELSE @]

\* The shim's new reference takes the place of the one it had for the session.
RefSwapped(t) == [arenas EXCEPT ![t][call[t].on] = call[t].offered]

\* Go takes the arena, then the shim swaps the reference it holds; creating
\* the new one may fail after the old one is gone.
InstallArena(t) ==
    /\ At(t, "found") /\ ~foreignThread(t) /\ call[t].op = "setArena"
    /\ arenaPtr' = [arenaPtr EXCEPT ![call[t].on] = call[t].offered]
    /\ Returns(t)
    /\ \/ /\ arenas' = RefSwapped(t)
          /\ unrooted' = unrooted \ {call[t].on}
          /\ UNCHANGED faults
       \/ /\ faults < MaxFaults
          /\ faults' = faults + 1
          /\ arenas' = RefDropped(t, call[t].on)
          /\ unrooted' = unrooted \union {call[t].on}
    /\ UNCHANGED <<alive, nextID, sessions, owner, buf, tracked, lost>>

\* returnText: documents and errors go through the session's one buffer.
AnswerText(t) ==
    /\ At(t, "handling") /\ call[t].op = "call"
    /\ buf' = [buf EXCEPT ![call[t].on] = t]
    /\ GoesTo(t, "returned")
    /\ UNCHANGED <<alive, nextID, sessions, owner, arenaPtr, shimVars, faultVars>>

\* Answers that stay out of that buffer: null, booleans, what is written to the
\* arena, and blobs (pinned, copied and released within the call).
AnswerInPlace(t) ==
    /\ At(t, "handling")
    /\ Returns(t)
    /\ UNCHANGED <<alive, goVars, shimVars, faultVars>>

\* fn_call, or the error branch of fn_call_binary: the shim reads the buffer.
ReadText(t) ==
    /\ At(t, "returned")
    /\ Returns(t)
    /\ UNCHANGED <<alive, goVars, shimVars, faultVars>>

-----------------------------------------------------------------------------
Finalize(t) == FinishExit(t) \/ \E s \in Handle : FinalizeOne(t, s)

Proceed(t) ==
    \/ CloseSession(t) \/ Refuse(t) \/ Enter(t) \/ InstallArena(t)
    \/ AnswerText(t) \/ AnswerInPlace(t) \/ ReadText(t)

Ask(t) ==
    \/ StartEnv(t) \/ Exit(t) \/ NewSession(t)
    \/ \E s \in Known :
          \/ Dispose(t, s)
          \/ \E o \in Op, b \in Buffer : Lookup(t, o, s, b)

Next == \E t \in Thread : Ask(t) \/ Proceed(t) \/ Finalize(t)

Spec == Init /\ [][Next]_vars

\* A call that has started returns (HandleRequest does), and a thread that has
\* begun its teardown finishes it.
FairSpec == Spec /\ \A t \in Thread : WF_vars(Proceed(t)) /\ WF_vars(Finalize(t))

-----------------------------------------------------------------------------
(* Properties. *)

Inside == {"handling", "returned"}

\* Every variable stays in its set.
TypeOK ==
    /\ alive \subseteq Thread
    /\ nextID \in 0..MaxSessions /\ sessions \subseteq 1..nextID
    /\ owner \in [Handle -> Thread \union {NoThread}]
    /\ buf \in [Handle -> Thread \union {NoThread}]
    /\ arenaPtr \in [Handle -> Buffer \union {NoBuffer}]
    /\ tracked \in [Thread -> SUBSET (1..nextID)]
    /\ arenas \in [Thread -> [Handle -> Buffer \union {NoBuffer}]]
    /\ call \in [Thread -> Call]
    /\ lost \subseteq 1..nextID /\ unrooted \subseteq 1..nextID
    /\ faults \in 0..MaxFaults

\* A session is never closed under a thread that works in it, and no two
\* threads work in one session, whatever handles they present and whenever
\* threads end and their ids come back (bridge.go:92-109).
OneInside ==
    /\ \A t \in Thread : call[t].stage \in Inside => call[t].on \in sessions
    /\ \A t, u \in Thread :
          call[t].stage \in Inside /\ call[u].stage \in Inside /\ call[t].on = call[u].on => t = u

\* What the shim reads from a session's result buffer is the answer to its own
\* call, neither freed nor overwritten by another one (bridge.go:100-106).
OwnAnswer == \A t \in Thread : At(t, "returned") => buf[call[t].on] = t

\* No environment leaves a session behind: what is in the registry is tracked
\* by the living environment that made it, apart from sessions whose
\* registration ran out of memory (napi_shim.c:100-107).
NoOrphan ==
    \A s \in sessions \ lost : owner[s] \in alive /\ s \in tracked[owner[s]]

\* For a session the shim keeps no arena alive but the one Go writes to: an
\* arena Go has left is let go, and a call that fails drops nothing
\* (napi_shim.c:410-416).  The one Go writes to is kept, except where the
\* reference to it could not be made.
ArenaRooted ==
    \A s \in sessions :
        /\ arenas[owner[s]][s] \in {NoBuffer, arenaPtr[s]}
        /\ s \notin unrooted => arenas[owner[s]][s] = arenaPtr[s]

\* The shim holds no arena of a session that is gone (napi_shim.c:501-502).
NoArenaLeak ==
    \A t \in Thread, s \in Handle :
        arenas[t][s] # NoBuffer => s \in sessions \/ At(t, "finalizing")

\* What the threads see of the registry, for PrivateSessions: the arena of a
\* session that is there, who is inside, and the answer in the session's buffer.
arena == [s \in Handle |-> IF s \in sessions THEN arenaPtr[s] ELSE NoBuffer]
inside == [t \in Thread |-> IF call[t].stage \in Inside THEN call[t].on ELSE 0]
answer == [t \in Thread |-> IF At(t, "returned") THEN buf[call[t].on] ELSE NoThread]

\* Every step of every thread is one of PrivateSessions or changes nothing there:
\* whatever handles are presented, a session behaves as an object of the thread
\* that made it ("each JS thread owns its own session", bridge.go:102-104).
Private == INSTANCE PrivateSessions WITH
    Session <- Handle, NoSession <- 0, maker <- owner, open <- sessions,
    arena <- arena, inside <- inside, answer <- answer
ImplementsPrivate == Private!Spec

\* A thread that ends gives its sessions back.
SessionsReleased ==
    \A t \in Thread :
        At(t, "finalizing") ~> ~\E s \in sessions \ lost : owner[s] = t
=============================================================================
