----------------------------- MODULE SemanticPass -----------------------------
(***************************************************************************)
(* Whole-program diagnostics in the Go API session: fullSemanticPass, the  *)
(* prefetches that updateSnapshot starts in the background, and the        *)
(* checker slots they share with the queries.                              *)
(*                                                                         *)
(* A program is checked by groups of files, one checker each; a pass keeps *)
(* its checkers until every group has run.  The passes over one program of *)
(* one snapshot are a singleflight: later ones wait for the first and then *)
(* look at the memo.  An update that makes a new snapshot, a release and   *)
(* the end of the session cancel the prefetches of a snapshot.             *)
(*                                                                         *)
(* A task is a client's request (its context is never cancelled) or a      *)
(* prefetch goroutine.  The projects are the configured ones without       *)
(* incremental builds, the only ones that take this way.                   *)
(***************************************************************************)
EXTENDS Naturals, FiniteSets

CONSTANTS
    Client,        \* threads that send requests; the bridge has one per session
    Project,       \* configured projects, not incremental
    Slot,          \* the query slots of a checker pool
    NoSlot,
    Group,         \* the groups of files a pass checks
    NoTask,        \* no task, and no group either
    GivesUp,       \* whether a cancelled GetChecker stops waiting for a slot
    MaxSnapshots,  \* bound: snapshots of the project session
    MaxEntries,    \* bound: entries of the API session's snapshot table
    MaxRefs,       \* bound: references the client holds to one entry
    MaxPrefetch    \* bound: prefetch goroutines

Prefetch == 1..MaxPrefetch
Task == Client \union Prefetch

ASSUME TaskAssumption == NoTask \notin Task /\ Client \intersect Prefetch = {}
ASSUME ProjectAssumption == Project # {}
ASSUME SlotAssumption == NoSlot \notin Slot
ASSUME ResultAssumption == NoTask \notin Group
ASSUME GroupAssumption == IsFiniteSet(Slot) => Cardinality(Group) <= Cardinality(Slot)
ASSUME GivesUpAssumption == GivesUp \in BOOLEAN
ASSUME BoundAssumption ==
    /\ MaxSnapshots \in Nat /\ MaxEntries \in Nat /\ MaxRefs \in Nat /\ MaxPrefetch \in Nat

VARIABLES
    open,       \* openProjects: the projects the session holds
    top,        \* the newest snapshot of the project session, and latestSnapshot
    built,      \* built[h][p]: the snapshot that built p's program in h, or 0
    made,       \* the entries ever made
    snapOf,     \* snapOf[e]: the snapshot of entry e
    table,      \* s.snapshots: the entries it holds
    refs,       \* refCount
    dead,       \* the entries with prefetchDead
    cancels,    \* prefetchCancels
    memo,       \* semanticDiagMemo[e][p]: the groups it covers, or NoResult
    inflight,   \* semanticDiagInflight[e][p]: the task whose channel it holds
    launched,   \* the prefetches ever launched
    cancelled,  \* the prefetches whose context is cancelled
    stage,      \* how far each task is
    job,        \* job[t]: the entry and the project it works on
    awaits,     \* awaits[t]: the task whose channel it waits for; NoTask: closed
    checks,     \* checks[t][g]: how far the pass of t is with group g
    lease,      \* lease[t][g]: the slot whose checker it holds
    served,     \* served[t][g]: the slot it has had in this pass
    todo        \* the projects an update has still to look at for a prefetch

snapVars == <<open, top, built, made, snapOf, table, refs>>
deathVars == <<dead, cancels, cancelled>>
memoVars == <<memo, inflight>>
poolVars == <<checks, lease, served>>
taskVars == <<stage, job, awaits>>
vars == <<snapVars, deathVars, memoVars, poolVars, taskVars, launched, todo>>

Snapshot == 1..MaxSnapshots
Entry == 1..MaxEntries
NoResult == {NoTask}
Stage == {"idle", "launch", "look", "wait", "check", "store", "close", "query", "using", "over"}
Progress == {"queued", "leased", "checked", "cut"}
NoJob == [entry |-> 0, project |-> CHOOSE p \in Project : TRUE]

At(t, st) == stage[t] = st
GoesTo(t, st) == stage' = [stage EXCEPT ![t] = st]

\* A client's request is answered, a goroutine is gone.
Returns(t) ==
    /\ GoesTo(t, IF t \in Client THEN "idle" ELSE "over")
    /\ job' = [job EXCEPT ![t] = NoJob]

\* Two tasks work on one program when the same snapshot built it.
Program(t) == <<job[t].project, built[snapOf[job[t].entry]][job[t].project]>>

Fresh == [g \in Group |-> "queued"]
NoLease == [g \in Group |-> NoSlot]

Init ==
    /\ open = {} /\ top = 0 /\ made = 0 /\ table = {}
    /\ built = [h \in Snapshot |-> [p \in Project |-> 0]]
    /\ snapOf = [e \in Entry |-> 0]
    /\ refs = [e \in Entry |-> 0]
    /\ dead = {} /\ cancelled = {} /\ launched = 0 /\ todo = {}
    /\ cancels = [e \in Entry |-> {}]
    /\ memo = [e \in Entry |-> [p \in Project |-> NoResult]]
    /\ inflight = [e \in Entry |-> [p \in Project |-> NoTask]]
    /\ stage = [t \in Task |-> "idle"]
    /\ job = [t \in Task |-> NoJob]
    /\ awaits = [t \in Task |-> NoTask]
    /\ checks = [t \in Task |-> Fresh]
    /\ lease = [t \in Task |-> NoLease]
    /\ served = [t \in Task |-> NoLease]

-----------------------------------------------------------------------------
(* The snapshot table: updateSnapshot, release, Close.                      *)

\* The session has been closed.
Closed == \E c \in Client : At(c, "over")

\* prefetchDead, with the cancels of the entries S.
Kill(S) ==
    /\ dead' = dead \union S
    /\ cancelled' = cancelled \union UNION {cancels[e] : e \in S}
    /\ cancels' = [e \in Entry |-> IF e \in S THEN {} ELSE cancels[e]]

\* The entry of the newest snapshot, if the client has not released it.
Latest == {e \in table : snapOf[e] = top}

\* Mutant: the older entry keeps its prefetches.
Superseded_Kept(fresh) == {}

\* The entry a new snapshot supersedes.
Superseded(fresh) == IF fresh THEN Latest ELSE {}

\* Projects that qualify for a prefetch: opened by this request, or rebuilt
\* since the entry it supersedes.
Qualify(opened, rebuilt, fresh) ==
    opened \union (IF Superseded(fresh) = {} THEN {} ELSE rebuilt)

\* handleUpdateSnapshot up to the publication of the entry.  The request opens
\* and closes projects; what it changes rebuilds some of the programs.  When
\* nothing changed, the project session gives the same snapshot again.
Update(c, opened, closed, rebuilt, fresh, prefetch) ==
    LET h == IF fresh THEN top + 1 ELSE top
        entry == IF fresh \/ Latest = {} THEN made + 1 ELSE CHOOSE e \in Latest : TRUE
        kept == open \ closed
    IN  /\ At(c, "idle") /\ ~Closed
        /\ \A d \in Client : ~At(d, "launch")     \* updateMu
        /\ opened \subseteq Project \ open /\ closed \subseteq open /\ rebuilt \subseteq kept
        /\ ~fresh => opened \union closed \union rebuilt = {}
        /\ h \in Snapshot /\ entry \in Entry /\ refs[entry] < MaxRefs
        /\ launched + Cardinality(Project) <= MaxPrefetch \/ ~prefetch
        /\ open' = kept \union opened
        /\ top' = h
        /\ built' = IF fresh THEN [built EXCEPT ![h] =
                        [p \in Project |-> IF p \in opened \union rebuilt THEN h
                                           ELSE IF p \in kept THEN built[top][p] ELSE 0]]
                    ELSE built
        /\ made' = IF entry > made THEN entry ELSE made
        /\ snapOf' = [snapOf EXCEPT ![entry] = h]
        /\ table' = table \union {entry}
        /\ refs' = [refs EXCEPT ![entry] = @ + 1]
        /\ Kill(Superseded(fresh))
        /\ todo' = IF prefetch THEN Qualify(opened, rebuilt, fresh) ELSE {}
        /\ GoesTo(c, "launch")
        /\ job' = [job EXCEPT ![c] = [NoJob EXCEPT !.entry = entry]]
        /\ UNCHANGED <<memoVars, awaits, poolVars, launched>>

\* The second look at prefetchDead.
Starts(e) == e \notin dead

\* One round of the prefetch loop: a goroutine for project p, registered with
\* its entry, or nothing when the entry has died meanwhile.
Launch(c, p) ==
    /\ At(c, "launch") /\ p \in todo
    /\ todo' = todo \ {p}
    /\ IF Starts(job[c].entry)
       THEN LET t == launched + 1
            IN  /\ t \in Prefetch
                /\ launched' = t
                /\ stage' = [stage EXCEPT ![t] = "look"]
                /\ job' = [job EXCEPT ![t] = [entry |-> job[c].entry, project |-> p]]
                /\ cancels' = [cancels EXCEPT ![job[c].entry] = @ \union {t}]
       ELSE UNCHANGED <<launched, stage, job, cancels>>
    /\ UNCHANGED <<snapVars, dead, cancelled, memoVars, awaits, poolVars>>

\* The response goes out.
Respond(c) ==
    /\ At(c, "launch") /\ todo = {}
    /\ Returns(c)
    /\ UNCHANGED <<snapVars, deathVars, memoVars, poolVars, awaits, launched, todo>>

\* Mutant: an entry that is gone is still found.
Known_Made(e) == e \in 1..made

\* getSnapshotData, which every request that names a snapshot starts with.
Known(e) == e \in table

\* handleRelease: the last reference takes the entry out of the table.
Release(c, e) ==
    /\ At(c, "idle") /\ ~Closed
    /\ Known(e)
    /\ refs' = [refs EXCEPT ![e] = @ - 1]
    /\ IF refs[e] > 1 THEN UNCHANGED <<table, deathVars>>
       ELSE table' = table \ {e} /\ Kill({e})
    /\ UNCHANGED <<open, top, built, made, snapOf, memoVars, poolVars, taskVars, launched, todo>>

\* Session.Close, whatever the references.
Close(c) ==
    /\ At(c, "idle") /\ ~Closed
    /\ open' = {}
    /\ table' = {}
    /\ Kill(table)
    /\ GoesTo(c, "over")
    /\ UNCHANGED <<top, built, made, snapOf, refs, memoVars, poolVars, job, awaits, launched, todo>>

-----------------------------------------------------------------------------
(* fullSemanticPass.                                                        *)

\* getGlobalDiagnostics: the client asks for a whole program.
Diagnose(c, e, p) ==
    /\ At(c, "idle") /\ ~Closed
    /\ Known(e) /\ built[snapOf[e]][p] # 0
    /\ GoesTo(c, "look")
    /\ job' = [job EXCEPT ![c] = [entry |-> e, project |-> p]]
    /\ UNCHANGED <<snapVars, deathVars, memoVars, poolVars, awaits, launched, todo>>

Memo(t) == memo[job[t].entry][job[t].project]
Inflight(t) == inflight[job[t].entry][job[t].project]

\* The top of the loop, under semanticDiagMemoMu.
FindMemo(t) ==
    /\ At(t, "look") /\ Memo(t) # NoResult
    /\ Returns(t)
    /\ UNCHANGED <<snapVars, deathVars, memoVars, poolVars, awaits, launched, todo>>

Join(t) ==
    /\ At(t, "look") /\ Memo(t) = NoResult /\ Inflight(t) # NoTask
    /\ GoesTo(t, "wait")
    /\ awaits' = [awaits EXCEPT ![t] = Inflight(t)]
    /\ UNCHANGED <<snapVars, deathVars, memoVars, poolVars, job, launched, todo>>

\* Mutant: a pass starts without a look at the ones in flight.
MayStart_Always(t) == Memo(t) = NoResult

MayStart(t) == Memo(t) = NoResult /\ Inflight(t) = NoTask

Start(t) ==
    /\ At(t, "look") /\ MayStart(t)
    /\ inflight' = [inflight EXCEPT ![job[t].entry][job[t].project] = t]
    /\ GoesTo(t, "check")
    /\ UNCHANGED <<snapVars, deathVars, memo, poolVars, job, awaits, launched, todo>>

\* Mutant: the answer of the other pass is taken as it is.
Awake_Trusting(t) ==
    /\ At(t, "wait") /\ awaits[t] = NoTask
    /\ Returns(t)
    /\ UNCHANGED <<snapVars, deathVars, memoVars, poolVars, awaits, launched, todo>>

\* The select: the channel was closed, or the context is cancelled.
Awake(t) ==
    /\ At(t, "wait") /\ awaits[t] = NoTask
    /\ GoesTo(t, "look")
    /\ UNCHANGED <<snapVars, deathVars, memoVars, poolVars, job, awaits, launched, todo>>

Abandon(t) ==
    /\ At(t, "wait") /\ t \in cancelled
    /\ Returns(t)
    /\ awaits' = [awaits EXCEPT ![t] = NoTask]
    /\ UNCHANGED <<snapVars, deathVars, memoVars, poolVars, launched, todo>>

\* The checker pool of t's program: its slots that nobody holds.
Free(t) ==
    {s \in Slot : \A u \in Task, g \in Group : lease[u][g] = s => Program(u) # Program(t)}

\* The goroutine of a group leases a checker.
Lease(t, g, s) ==
    /\ At(t, "check") /\ checks[t][g] = "queued"
    /\ s \in Free(t)
    /\ lease' = [lease EXCEPT ![t][g] = s]
    /\ served' = [served EXCEPT ![t][g] = s]
    /\ checks' = [checks EXCEPT ![t][g] = "leased"]
    /\ UNCHANGED <<snapVars, deathVars, memoVars, taskVars, launched, todo>>

\* The pool gives a cancelled request a checker it need not wait for.
NoLongerWaits(t, g) ==
    /\ GivesUp /\ t \in cancelled
    /\ At(t, "check") /\ checks[t][g] = "queued"
    /\ checks' = [checks EXCEPT ![t][g] = "cut"]
    /\ UNCHANGED <<snapVars, deathVars, memoVars, lease, served, taskVars, launched, todo>>

\* Mutant: a group gives its checker back as soon as it has finished.
LeaseAfter_AtOnce(t, g) == [lease EXCEPT ![t][g] = NoSlot]

\* A group keeps its checker when it has finished.
LeaseAfter(t, g) == lease

\* A group checks its files, and stops at the next one when cancelled.
CheckGroup(t, g) ==
    /\ At(t, "check") /\ checks[t][g] = "leased"
    /\ checks' = [checks EXCEPT ![t][g] = IF t \in cancelled THEN "cut" ELSE "checked"]
    /\ lease' = LeaseAfter(t, g)
    /\ UNCHANGED <<snapVars, deathVars, memoVars, served, taskVars, launched, todo>>

\* After RunAndWait every checker goes back to the pool.
ReleaseAll(t) ==
    /\ At(t, "check")
    /\ \A g \in Group : checks[t][g] \in {"checked", "cut"}
    /\ lease' = [lease EXCEPT ![t] = NoLease]
    /\ served' = [served EXCEPT ![t] = NoLease]
    /\ GoesTo(t, "store")
    /\ UNCHANGED <<snapVars, deathVars, memoVars, checks, job, awaits, launched, todo>>

Result(t) == {g \in Group : checks[t][g] = "checked"}

\* Mutant: what a cancelled pass has found is remembered too.
Remembered_Partial(t) == TRUE

Remembered(t) == t \notin cancelled

\* Under semanticDiagMemoMu: the memo, unless cancelled, and the channel goes.
Store(t) ==
    /\ At(t, "store")
    /\ memo' = IF Remembered(t)
               THEN [memo EXCEPT ![job[t].entry][job[t].project] = Result(t)] ELSE memo
    /\ inflight' = [inflight EXCEPT ![job[t].entry][job[t].project] = NoTask]
    /\ checks' = [checks EXCEPT ![t] = Fresh]
    /\ GoesTo(t, "close")
    /\ UNCHANGED <<snapVars, deathVars, lease, served, job, awaits, launched, todo>>

\* Mutant: a pass that was cancelled leaves its channel open.
Woken_NotCancelled(t) ==
    [u \in Task |-> IF awaits[u] = t /\ t \notin cancelled THEN NoTask ELSE awaits[u]]

Woken(t) == [u \in Task |-> IF awaits[u] = t THEN NoTask ELSE awaits[u]]

\* close(done), and the pass returns.
CloseDone(t) ==
    /\ At(t, "close")
    /\ awaits' = Woken(t)
    /\ Returns(t)
    /\ UNCHANGED <<snapVars, deathVars, memoVars, poolVars, launched, todo>>

-----------------------------------------------------------------------------
(* A query leases one checker of the program, and gives it back.            *)

Query(c, e, p) ==
    /\ At(c, "idle") /\ ~Closed
    /\ Known(e) /\ built[snapOf[e]][p] # 0
    /\ GoesTo(c, "query")
    /\ job' = [job EXCEPT ![c] = [entry |-> e, project |-> p]]
    /\ UNCHANGED <<snapVars, deathVars, memoVars, poolVars, awaits, launched, todo>>

LeaseOne(c, g, s) ==
    /\ At(c, "query") /\ s \in Free(c)
    /\ lease' = [lease EXCEPT ![c][g] = s]
    /\ GoesTo(c, "using")
    /\ UNCHANGED <<snapVars, deathVars, memoVars, checks, served, job, awaits, launched, todo>>

ReleaseOne(c) ==
    /\ At(c, "using")
    /\ lease' = [lease EXCEPT ![c] = NoLease]
    /\ Returns(c)
    /\ UNCHANGED <<snapVars, deathVars, memoVars, checks, served, awaits, launched, todo>>

-----------------------------------------------------------------------------
Ask(c) ==
    \/ Close(c)
    \/ \E opened, closed, rebuilt \in SUBSET Project, fresh, prefetch \in BOOLEAN :
          Update(c, opened, closed, rebuilt, fresh, prefetch)
    \/ \E e \in Entry : Release(c, e) \/ \E p \in Project : Diagnose(c, e, p) \/ Query(c, e, p)

Handle(c) ==
    \/ Respond(c) \/ ReleaseOne(c)
    \/ \E p \in Project : Launch(c, p)
    \/ \E g \in Group, s \in Slot : LeaseOne(c, g, s)

Pass(t) ==
    \/ FindMemo(t) \/ Join(t) \/ Start(t) \/ Awake(t) \/ Abandon(t)
    \/ ReleaseAll(t) \/ Store(t) \/ CloseDone(t)
    \/ \E g \in Group :
          NoLongerWaits(t, g) \/ CheckGroup(t, g) \/ \E s \in Slot : Lease(t, g, s)

Next == (\E c \in Client : Ask(c) \/ Handle(c)) \/ (\E t \in Task : Pass(t))

Spec == Init /\ [][Next]_vars

\* Goroutines and handlers run.  The client need not send anything.
FairSpec == Spec /\ \A t \in Task : WF_vars(Pass(t)) /\ WF_vars(t \in Client /\ Handle(t))

-----------------------------------------------------------------------------
(* Properties. *)

TableTypes ==
    /\ open \subseteq Project /\ todo \subseteq Project /\ top \in 0..MaxSnapshots
    /\ built \in [Snapshot -> [Project -> 0..MaxSnapshots]]
    /\ made \in 0..MaxEntries /\ table \subseteq 1..made
    /\ snapOf \in [Entry -> 0..MaxSnapshots]
    /\ refs \in [Entry -> 0..MaxRefs]

DeathTypes ==
    /\ dead \subseteq 1..made
    /\ launched \in 0..MaxPrefetch /\ cancelled \subseteq 1..launched
    /\ cancels \in [Entry -> SUBSET (1..launched)]

MemoTypes ==
    /\ memo \in [Entry -> [Project -> (SUBSET Group) \union {NoResult}]]
    /\ inflight \in [Entry -> [Project -> Task \union {NoTask}]]

TaskTypes ==
    /\ stage \in [Task -> Stage]
    /\ job \in [Task -> [entry : 0..MaxEntries, project : Project]]
    /\ awaits \in [Task -> Task \union {NoTask}]

PoolTypes ==
    /\ checks \in [Task -> [Group -> Progress]]
    /\ lease \in [Task -> [Group -> Slot \union {NoSlot}]]
    /\ served \in [Task -> [Group -> Slot \union {NoSlot}]]

\* The type invariant: what is referenced, cancelled or awaited has been made.
TypeOK == TableTypes /\ DeathTypes /\ MemoTypes /\ TaskTypes /\ PoolTypes

\* The diagnostics a snapshot remembers cover the whole program, however its
\* passes were cancelled (session_bridge.go:97-100).
MemoIsWhole ==
    \A e \in Entry, p \in Project : memo[e][p] # NoResult => memo[e][p] = Group

Passing == {"check", "store"}

\* One pass at a time over a program of a snapshot, prefetches and requests
\* together (0004-api-rpc.patch:1004-1006).
OnePass ==
    \A t, u \in Task :
        stage[t] \in Passing /\ stage[u] \in Passing /\ job[t] = job[u] => t = u

\* No prefetch goes on for a snapshot that was superseded or released: those
\* that still count belong to the newest one, and the rest have their context
\* cancelled (0004-api-rpc.patch:1011-1019).
OnlyLatestPrefetches ==
    \A t \in 1..launched : t \notin cancelled /\ stage[t] # "over" => job[t].entry \in Latest

\* No checker serves two groups of one pass, whatever the schedule, so that
\* the diagnostics do not depend on it (0003-project-program.patch:207-227).
OneGroupPerSlot ==
    \A t \in Task : \A g, k \in Group :
        served[t][g] = served[t][k] /\ served[t][g] # NoSlot => g = k

\* A request is answered with the diagnostics of the whole program, also when
\* it waited for a pass that was cancelled (session_bridge.go:108-114).
AnswersAreWhole ==
    [][\A c \in Client :
          stage[c] \in {"look", "wait", "check", "store", "close"} /\ stage'[c] = "idle"
              => memo'[job[c].entry][job[c].project] = Group]_vars

\* A request for diagnostics is answered, also when it joined a pass that is
\* cancelled, or shares its program's slots with one.
RequestAnswered ==
    \A c \in Client : stage[c] \in {"look", "query"} ~> At(c, "idle")
=============================================================================
