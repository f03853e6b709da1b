-------------------------- MODULE SemanticPassProofs --------------------------
(***************************************************************************)
(* For any number of clients, projects, slots, snapshots and prefetches:    *)
(* passes are not run twice, what is remembered and answered is whole, no   *)
(* prefetch goes on for a snapshot that is gone, and no checker serves two  *)
(* groups of a pass.                                                        *)
(*                                                                         *)
(* Three arguments.  A pass is alone on its program because it holds the    *)
(* in-flight entry from its start to its store.  What is remembered is      *)
(* whole because only a cancelled pass skips files and a context, once      *)
(* cancelled, stays so.  A prefetch is reachable from the entry it works    *)
(* for, and launched only while that entry is the newest one, so that the   *)
(* step that retires the entry cancels it.                                  *)
(***************************************************************************)
EXTENDS SemanticPass, TLAPS

\* The table counts references, and a project is open in some snapshot.
Counted == \A e \in table : refs[e] > 0
OpenMade == open # {} => top \in Snapshot

\* A task at work has an entry.
Working == \A t \in Task : stage[t] \notin {"idle", "over"} => job[t].entry \in 1..made

Typed == TypeOK /\ Counted /\ OpenMade /\ Working

\* Only a cancelled pass skips files, and a pass stores when every group is through.
CutIfCancelled == \A t \in Task, g \in Group : checks[t][g] = "cut" => t \in cancelled
Through == \A t \in Task : At(t, "store") => \A g \in Group : checks[t][g] \in {"checked", "cut"}

\* A pass holds the in-flight entry of its program.
Holds == \A t \in Task : stage[t] \in Passing => Inflight(t) = t

\* A client whose pass has stored finds its result there.
Stored == \A c \in Client : At(c, "close") => Memo(c) = Group

\* A prefetch that counts is registered with its entry.
Registered ==
    \A t \in 1..launched : t \notin cancelled /\ stage[t] # "over" => t \in cancels[job[t].entry]

\* An update still launches for the newest entry, or the entry has died.
LaunchesLatest ==
    \A c \in Client : At(c, "launch") /\ Starts(job[c].entry) => job[c].entry \in Latest

\* A prefetch runs once it has been launched.
Started == \A t \in Prefetch : t > launched => At(t, "idle")

\* The slots a pass has had are those it holds.
ServedHeld ==
    \A t \in Task, g \in Group :
        served[t][g] # NoSlot => At(t, "check") /\ lease[t][g] = served[t][g]

Whole == CutIfCancelled /\ Through /\ MemoIsWhole /\ Stored
Live == Started /\ Registered /\ LaunchesLatest /\ OnlyLatestPrefetches
Apart == ServedHeld /\ OneGroupPerSlot

IInv == Typed /\ Whole /\ Holds /\ Live /\ Apart

USE TaskAssumption, ProjectAssumption, SlotAssumption, ResultAssumption, GivesUpAssumption, BoundAssumption

-----------------------------------------------------------------------------
(* The types.  Actions are taken in the groups of SemanticPass.             *)

\* What a task may work on.
Job == [entry : 0..MaxEntries, project : Project]

LEMMA NoJobType == NoJob \in Job
  <1>1. (CHOOSE p \in Project : TRUE) \in Project  OBVIOUS
  <1> QED  BY <1>1 DEF NoJob, Job

LEMMA InitTyped == Init => Typed
  BY NoJobType DEF Init, Typed, TypeOK, TableTypes, DeathTypes, MemoTypes, TaskTypes, PoolTypes,
     Counted, OpenMade, Working, Fresh, NoLease, Snapshot, Entry, Task, Prefetch, Stage, Progress,
     NoResult, Job

\* A task at work has an entry that was made, and a project.
LEMMA WorkFacts ==
  ASSUME Typed, NEW t \in Task, stage[t] \notin {"idle", "over"}
  PROVE  job[t].entry \in 1..made /\ job[t].entry \in Entry /\ job[t].project \in Project
  BY DEF Typed, TypeOK, TaskTypes, TableTypes, Working, Entry

\* Moving a task on, in its job or out of it, keeps its types.
LEMMA GoTypes ==
  ASSUME Typed, NEW t \in Task, NEW st \in Stage, GoesTo(t, st), UNCHANGED <<job, made>>,
         stage[t] \notin {"idle", "over"} \/ st \in {"idle", "over"}
  PROVE  stage' \in [Task -> Stage] /\ job' \in [Task -> Job] /\ Working'
  BY DEF Typed, TypeOK, TaskTypes, Working, GoesTo, Job

LEMMA TakeTypes ==
  ASSUME Typed, NEW t \in Task, NEW st \in Stage, NEW j \in Job,
         GoesTo(t, st), job' = [job EXCEPT ![t] = j], made' \in Nat, made' >= made, j.entry \in 1..made'
  PROVE  stage' \in [Task -> Stage] /\ job' \in [Task -> Job] /\ Working'
  BY DEF Typed, TypeOK, TableTypes, TaskTypes, Working, GoesTo, Job

LEMMA ReturnTypes ==
  ASSUME Typed, NEW t \in Task, Returns(t), UNCHANGED made
  PROVE  stage' \in [Task -> Stage] /\ job' \in [Task -> Job] /\ Working'
  BY NoJobType DEF Typed, TypeOK, TaskTypes, Working, GoesTo, Returns, Job, Stage


\* The steps of a task that change only how far it is.
Moves(t) ==
    \/ FindMemo(t) \/ Join(t) \/ Awake(t) \/ Abandon(t) \/ CloseDone(t)
    \/ t \in Client /\ Respond(t)
    \/ t \in Client /\ \E e \in Entry, p \in Project : Diagnose(t, e, p) \/ Query(t, e, p)

LEMMA MovesTyped == ASSUME Typed, NEW t \in Task, Moves(t) PROVE Typed'
  <1> USE DEF Moves
  <1>1. UNCHANGED <<snapVars, deathVars, memoVars, poolVars, launched, todo>>
    BY DEF FindMemo, Join, Awake, Abandon, CloseDone, Respond, Diagnose, Query
  <1>2. UNCHANGED <<made, table, refs, open, top>>
    BY <1>1 DEF snapVars
  <1>3. stage' \in [Task -> Stage] /\ job' \in [Task -> Job] /\ Working'
    <2>1. CASE Returns(t)
      BY <1>2, <2>1, ReturnTypes
    <2>2. CASE Join(t)
      BY <1>2, <2>2, GoTypes DEF Join, At, Stage
    <2>3. CASE Awake(t)
      BY <1>2, <2>3, GoTypes DEF Awake, At, Stage
    <2>4. ASSUME t \in Client, NEW e \in Entry, NEW p \in Project, Diagnose(t, e, p) \/ Query(t, e, p)
          PROVE  stage' \in [Task -> Stage] /\ job' \in [Task -> Job] /\ Working'
      <3>1. /\ [entry |-> e, project |-> p] \in Job
            /\ e \in 1..made' /\ made' \in Nat /\ made' >= made
        BY <1>2, <2>4 DEF Diagnose, Query, Known, Job, Entry, Typed, TypeOK, TableTypes
      <3>2. \E st \in Stage : GoesTo(t, st)
        BY <2>4 DEF Diagnose, Query, Stage
      <3>3. job' = [job EXCEPT ![t] = [entry |-> e, project |-> p]]
        BY <2>4 DEF Diagnose, Query
      <3>4. [entry |-> e, project |-> p].entry = e
        OBVIOUS
      <3> QED  BY <3>1, <3>2, <3>3, <3>4, TakeTypes
    <2> QED
      BY <2>1, <2>2, <2>3, <2>4 DEF FindMemo, Abandon, CloseDone, Respond
  <1>4. awaits' \in [Task -> Task \union {NoTask}]
    <2>1. CASE Join(t)
      <3>1. Inflight(t) \in Task \union {NoTask}
        BY <2>1, WorkFacts DEF Join, At, Inflight, Typed, TypeOK, MemoTypes
      <3> QED  BY <2>1, <3>1 DEF Join, Typed, TypeOK, TaskTypes
    <2>2. CASE ~Join(t)
      BY <2>2 DEF FindMemo, Awake, Abandon, CloseDone, Respond, Diagnose, Query,
         Woken, Typed, TypeOK, TaskTypes
    <2> QED  BY <2>1, <2>2
  <1> QED
    BY <1>1, <1>3, <1>4 DEF Typed, TypeOK, TableTypes, DeathTypes, MemoTypes, TaskTypes, PoolTypes,
       Counted, OpenMade, Job, snapVars, deathVars, memoVars, poolVars

\* The steps of a pass and of a query on the pool.
Checks(t) ==
    \/ ReleaseAll(t) \/ (t \in Client /\ ReleaseOne(t))
    \/ \E g \in Group :
          \/ NoLongerWaits(t, g) \/ CheckGroup(t, g)
          \/ \E s \in Slot : Lease(t, g, s) \/ (t \in Client /\ LeaseOne(t, g, s))

LEMMA ChecksTyped == ASSUME Typed, NEW t \in Task, Checks(t) PROVE Typed'
  <1> USE DEF Checks
  <1>1. UNCHANGED <<snapVars, deathVars, memoVars, awaits, launched, todo>>
    BY DEF ReleaseAll, ReleaseOne, NoLongerWaits, CheckGroup, Lease, LeaseOne, taskVars
  <1>2. UNCHANGED <<made, table, refs, open, top>>
    BY <1>1 DEF snapVars
  <1>3. stage' \in [Task -> Stage] /\ job' \in [Task -> Job] /\ Working'
    <2>1. CASE ReleaseOne(t)
      BY <1>2, <2>1, ReturnTypes DEF ReleaseOne
    <2>2. CASE ReleaseAll(t)
      BY <1>2, <2>2, GoTypes DEF ReleaseAll, At, Stage
    <2>3. ASSUME NEW g \in Group, NEW s \in Slot, LeaseOne(t, g, s)
          PROVE  stage' \in [Task -> Stage] /\ job' \in [Task -> Job] /\ Working'
      BY <1>2, <2>3, GoTypes DEF LeaseOne, At, Stage
    <2>4. CASE UNCHANGED taskVars
      BY <1>2, <2>4 DEF taskVars, Typed, TypeOK, TaskTypes, Working, Job
    <2> QED
      BY <2>1, <2>2, <2>3, <2>4 DEF NoLongerWaits, CheckGroup, Lease
  <1>4. PoolTypes'
    <2>1. CASE ReleaseAll(t)
      BY <2>1 DEF ReleaseAll, NoLease, Typed, TypeOK, PoolTypes
    <2>2. CASE ReleaseOne(t)
      BY <2>2 DEF ReleaseOne, NoLease, Typed, TypeOK, PoolTypes
    <2>3. ASSUME NEW g \in Group, NoLongerWaits(t, g)  PROVE PoolTypes'
      BY <2>3 DEF NoLongerWaits, Typed, TypeOK, PoolTypes, Progress
    <2>4. ASSUME NEW g \in Group, CheckGroup(t, g)  PROVE PoolTypes'
      BY <2>4 DEF CheckGroup, LeaseAfter, Typed, TypeOK, PoolTypes, Progress
    <2>5. ASSUME NEW g \in Group, NEW s \in Slot, Lease(t, g, s)  PROVE PoolTypes'
      BY <2>5 DEF Lease, Typed, TypeOK, PoolTypes, Progress
    <2>6. ASSUME NEW g \in Group, NEW s \in Slot, LeaseOne(t, g, s)  PROVE PoolTypes'
      BY <2>6 DEF LeaseOne, Typed, TypeOK, PoolTypes
    <2> QED  BY <2>1, <2>2, <2>3, <2>4, <2>5, <2>6
  <1> QED
    BY <1>1, <1>3, <1>4 DEF Typed, TypeOK, TableTypes, DeathTypes, MemoTypes, TaskTypes,
       Counted, OpenMade, Job, snapVars, deathVars, memoVars

\* The steps of a pass on the memo.
LEMMA StartTyped == ASSUME Typed, NEW t \in Task, Start(t) PROVE Typed'
  <1>1. stage' \in [Task -> Stage] /\ job' \in [Task -> Job] /\ Working'
    BY GoTypes DEF Start, At, Stage, snapVars
  <1>2. MemoTypes'
    BY DEF Start, Typed, TypeOK, MemoTypes
  <1> QED
    BY <1>1, <1>2 DEF Start, Typed, TypeOK, TableTypes, DeathTypes, TaskTypes, PoolTypes,
       Counted, OpenMade, Job, snapVars, deathVars, poolVars

LEMMA StoreTyped == ASSUME Typed, NEW t \in Task, Store(t) PROVE Typed'
  <1>1. stage' \in [Task -> Stage] /\ job' \in [Task -> Job] /\ Working'
    BY GoTypes DEF Store, At, Stage, snapVars
  <1>2. MemoTypes'
    BY DEF Store, Result, Typed, TypeOK, MemoTypes
  <1>3. PoolTypes'
    BY DEF Store, Fresh, Typed, TypeOK, PoolTypes, Progress
  <1> QED
    BY <1>1, <1>2, <1>3 DEF Store, Typed, TypeOK, TableTypes, DeathTypes, TaskTypes,
       Counted, OpenMade, Job, snapVars, deathVars


\* The steps on the snapshot table.
LEMMA KillTypes ==
  ASSUME Typed, NEW S \in SUBSET table, Kill(S)
  PROVE  /\ dead' \subseteq 1..made /\ cancelled' \subseteq 1..launched
         /\ cancels' \in [Entry -> SUBSET (1..launched)]
  <1>1. \A e \in S : e \in Entry /\ e \in 1..made
    BY DEF Typed, TypeOK, TableTypes, Entry
  <1>2. \A e \in Entry : cancels[e] \subseteq 1..launched
    BY DEF Typed, TypeOK, DeathTypes
  <1>3. UNION {cancels[e] : e \in S} \subseteq 1..launched
    BY <1>1, <1>2
  <1> QED  BY <1>1, <1>2, <1>3 DEF Kill, Typed, TypeOK, DeathTypes

LEMMA UpdateTyped ==
  ASSUME Typed, NEW c \in Client, NEW opened \in SUBSET Project, NEW closed \in SUBSET Project,
         NEW rebuilt \in SUBSET Project, NEW fresh \in BOOLEAN, NEW prefetch \in BOOLEAN,
         Update(c, opened, closed, rebuilt, fresh, prefetch)
  PROVE  Typed'
  <1> DEFINE h == IF fresh THEN top + 1 ELSE top
             entry == IF fresh \/ Latest = {} THEN made + 1 ELSE CHOOSE e \in Latest : TRUE
             kept == open \ closed
  <1>a. /\ h \in Snapshot /\ entry \in Entry /\ refs[entry] < MaxRefs
        /\ made' = IF entry > made THEN entry ELSE made
        /\ top' = h /\ snapOf' = [snapOf EXCEPT ![entry] = h]
        /\ table' = table \union {entry} /\ refs' = [refs EXCEPT ![entry] = @ + 1]
    BY DEF Update
  <1>b. made \in 0..MaxEntries /\ top \in 0..MaxSnapshots
    BY DEF Typed, TypeOK, TableTypes
  <1> HIDE DEF h, entry
  <1>1. h \in Snapshot /\ entry \in Entry /\ entry \in 1..made'
    BY <1>a, <1>b DEF Entry
  <1>2. made' \in 0..MaxEntries /\ made' >= made
    BY <1>a, <1>b DEF Entry
  <1>3. built' \in [Snapshot -> [Project -> 0..MaxSnapshots]]
    <2>1. ASSUME NEW p \in kept  PROVE built[top][p] \in 0..MaxSnapshots
      BY <2>1 DEF Typed, TypeOK, TableTypes, OpenMade
    <2>2. h \in 0..MaxSnapshots
      BY <1>1 DEF Snapshot
    <2>3. [p \in Project |-> IF p \in opened \union rebuilt THEN h
                             ELSE IF p \in kept THEN built[top][p] ELSE 0]
             \in [Project -> 0..MaxSnapshots]
      BY <2>1, <2>2
    <2>4. CASE fresh
      BY <2>3, <2>4 DEF Update, h, Typed, TypeOK, TableTypes
    <2>5. CASE ~fresh
      BY <2>5 DEF Update, Typed, TypeOK, TableTypes
    <2> QED  BY <2>4, <2>5
  <1>4. TableTypes'
    <2>1. table' \subseteq 1..made'
      <3>1. table \subseteq 1..made
        BY DEF Typed, TypeOK, TableTypes
      <3>2. 1..made \subseteq 1..made'
        BY <1>b, <1>2
      <3> QED  BY <1>a, <1>1, <3>1, <3>2
    <2>2. snapOf' \in [Entry -> 0..MaxSnapshots] /\ top' \in 0..MaxSnapshots
      BY <1>a, <1>1 DEF Typed, TypeOK, TableTypes, Snapshot
    <2>3. refs' \in [Entry -> 0..MaxRefs]
      BY <1>a, <1>1 DEF Typed, TypeOK, TableTypes
    <2>4. open' \subseteq Project /\ todo' \subseteq Project
      BY DEF Update, Qualify, Typed, TypeOK, TableTypes
    <2> QED  BY <1>2, <1>3, <2>1, <2>2, <2>3, <2>4 DEF TableTypes
  <1>5. DeathTypes'
    <2>1. Superseded(fresh) \in SUBSET table
      BY DEF Superseded, Latest
    <2>2. 1..made \subseteq 1..made'
      BY <1>2 DEF Typed, TypeOK, TableTypes
    <2> QED  BY <2>1, <2>2, KillTypes DEF Update, Typed, TypeOK, DeathTypes
  <1>6. stage' \in [Task -> Stage] /\ job' \in [Task -> Job] /\ Working'
    <2>1. [NoJob EXCEPT !.entry = entry] \in Job /\ [NoJob EXCEPT !.entry = entry].entry = entry
      <3>1. entry \in 0..MaxEntries
        BY <1>1 DEF Entry
      <3> QED  BY <3>1, NoJobType DEF Job
    <2>2. GoesTo(c, "launch") /\ job' = [job EXCEPT ![c] = [NoJob EXCEPT !.entry = entry]]
      BY DEF Update, entry
    <2>3. "launch" \in Stage /\ c \in Task /\ made' \in Nat
      BY <1>2 DEF Stage, Task
    <2> QED  BY <1>1, <1>2, <2>1, <2>2, <2>3, TakeTypes
  <1>7. Counted'
    <2>1. \A e \in table : e \in Entry /\ refs[e] > 0
      BY <1>b DEF Typed, TypeOK, TableTypes, Entry, Counted
    <2>2. refs \in [Entry -> 0..MaxRefs]
      BY DEF Typed, TypeOK, TableTypes
    <2> QED  BY <1>a, <1>1, <2>1, <2>2 DEF Counted
  <1>8. OpenMade'
    BY <1>a DEF OpenMade
  <1> QED
    BY <1>4, <1>5, <1>6, <1>7, <1>8 DEF Update, Typed, TypeOK, MemoTypes, TaskTypes, PoolTypes,
       Job, memoVars, poolVars

LEMMA LaunchTyped ==
  ASSUME Typed, NEW c \in Client, NEW p \in Project, Launch(c, p)
  PROVE  Typed'
  <1> DEFINE t == launched + 1
  <1>1. job[c].entry \in 1..made /\ job[c].entry \in Entry
    BY WorkFacts DEF Launch, At, Task
  <1>2. CASE Starts(job[c].entry)
    <2>1. t \in Prefetch /\ t \in Task /\ launched' = t
      BY <1>2 DEF Launch, Task
    <2>2. stage' = [stage EXCEPT ![t] = "look"] /\ UNCHANGED made
      BY <1>2 DEF Launch, snapVars
    <2>3. job' = [job EXCEPT ![t] = [entry |-> job[c].entry, project |-> p]]
      BY <1>2 DEF Launch
    <2>4. [entry |-> job[c].entry, project |-> p] \in Job
      BY <1>1 DEF Job, Entry
    <2>5. stage' \in [Task -> Stage] /\ job' \in [Task -> Job] /\ Working'
      <3>1. GoesTo(t, "look") /\ "look" \in Stage
        BY <2>2 DEF GoesTo, Stage
      <3>2. [entry |-> job[c].entry, project |-> p].entry \in 1..made'
        BY <1>1, <2>2
      <3>3. made' \in Nat /\ made' >= made
        BY <2>2 DEF Typed, TypeOK, TableTypes
      <3> HIDE DEF t
      <3> QED  BY <2>1, <2>3, <2>4, <3>1, <3>2, <3>3, TakeTypes
    <2>6. DeathTypes'
      <3>1. cancels' = [cancels EXCEPT ![job[c].entry] = @ \union {t}]
        BY <1>2 DEF Launch
      <3>2. launched' \in 0..MaxPrefetch /\ 1..launched \subseteq 1..launched'
        BY <2>1 DEF Prefetch, Typed, TypeOK, DeathTypes
      <3>3. t \in 1..launched'
        BY <2>1 DEF Typed, TypeOK, DeathTypes
      <3>4. cancels' \in [Entry -> SUBSET (1..launched')]
        BY <1>1, <3>1, <3>2, <3>3 DEF Typed, TypeOK, DeathTypes
      <3> QED
        BY <3>2, <3>4 DEF Launch, Typed, TypeOK, DeathTypes, snapVars
    <2> QED
      BY <2>5, <2>6 DEF Launch, Typed, TypeOK, TableTypes, MemoTypes, TaskTypes, PoolTypes,
         Counted, OpenMade, Job, snapVars, memoVars, poolVars
  <1>3. CASE ~Starts(job[c].entry)
    BY <1>3 DEF Launch, Typed, TypeOK, TableTypes, DeathTypes, MemoTypes, TaskTypes, PoolTypes,
       Counted, OpenMade, Working, snapVars, memoVars, poolVars
  <1> QED  BY <1>2, <1>3

LEMMA ReleaseTyped ==
  ASSUME Typed, NEW c \in Client, NEW e \in Entry, Release(c, e)
  PROVE  Typed'
  <1>1. refs[e] \in 1..MaxRefs
    BY DEF Release, Known, Typed, TypeOK, TableTypes, Counted
  <1>2. refs' = [refs EXCEPT ![e] = @ - 1] /\ refs' \in [Entry -> 0..MaxRefs]
    BY <1>1 DEF Release, Typed, TypeOK, TableTypes
  <1>3. table' \subseteq table /\ (refs[e] = 1 => e \notin table')
    BY <1>1 DEF Release
  <1>4. Counted'
    BY <1>1, <1>2, <1>3 DEF Counted, Typed, TypeOK, TableTypes, Entry
  <1>5. DeathTypes'
    <2>1. CASE refs[e] > 1
      BY <2>1 DEF Release, Typed, TypeOK, DeathTypes, deathVars
    <2>2. CASE ~(refs[e] > 1)
      <3>1. Kill({e}) /\ {e} \in SUBSET table /\ UNCHANGED <<made, launched>>
        BY <2>2 DEF Release, Known
      <3> QED  BY <3>1, KillTypes DEF Typed, TypeOK, DeathTypes
    <2> QED  BY <2>1, <2>2
  <1> QED
    BY <1>2, <1>3, <1>4, <1>5 DEF Release, Typed, TypeOK, TableTypes, MemoTypes, TaskTypes,
       PoolTypes, OpenMade, Working, memoVars, poolVars, taskVars

LEMMA CloseTyped == ASSUME Typed, NEW c \in Client, Close(c) PROVE Typed'
  <1>1. stage' \in [Task -> Stage] /\ job' \in [Task -> Job] /\ Working'
    BY GoTypes DEF Close, Stage, Task
  <1>2. DeathTypes'
    BY KillTypes DEF Close, Typed, TypeOK, DeathTypes
  <1> QED
    BY <1>1, <1>2 DEF Close, Typed, TypeOK, TableTypes, MemoTypes, TaskTypes, PoolTypes,
       Counted, OpenMade, Job, memoVars, poolVars

LEMMA StutterTyped == ASSUME Typed, UNCHANGED vars PROVE Typed'
  BY DEF vars, snapVars, deathVars, memoVars, poolVars, taskVars, Typed, TypeOK, TableTypes,
     DeathTypes, MemoTypes, TaskTypes, PoolTypes, Counted, OpenMade, Working

\* The steps of clients on the snapshot table.
Tables ==
    \/ \E c \in Client, e \in Entry : Release(c, e)
    \/ \E c \in Client, p \in Project : Launch(c, p)
    \/ \E c \in Client : Close(c)
    \/ \E c \in Client, opened, closed, rebuilt \in SUBSET Project, fresh, prefetch \in BOOLEAN :
          Update(c, opened, closed, rebuilt, fresh, prefetch)

\* The steps of Next, in the groups above.
LEMMA Steps ==
  ASSUME Next
  PROVE  \/ \E t \in Task : Moves(t) \/ Checks(t) \/ Start(t) \/ Store(t)
         \/ Tables
  <1>1. CASE \E t \in Task : Pass(t)
    BY <1>1 DEF Pass, Moves, Checks
  <1>2. ASSUME NEW c \in Client, Handle(c)
        PROVE  Moves(c) \/ Checks(c) \/ \E p \in Project : Launch(c, p)
    BY <1>2 DEF Handle, Moves, Checks
  <1>3. ASSUME NEW c \in Client, Ask(c)
        PROVE  \/ Moves(c) \/ Close(c) \/ \E e \in Entry : Release(c, e)
               \/ \E opened, closed, rebuilt \in SUBSET Project, fresh, prefetch \in BOOLEAN :
                     Update(c, opened, closed, rebuilt, fresh, prefetch)
    BY <1>3 DEF Ask, Moves
  <1> QED  BY <1>1, <1>2, <1>3 DEF Next, Task, Tables

LEMMA TypedNext == Typed /\ [Next]_vars => Typed'
  <1> SUFFICES ASSUME Typed, [Next]_vars PROVE Typed'
    OBVIOUS
  <1>1. CASE Next
    BY <1>1, Steps, MovesTyped, ChecksTyped, StartTyped, StoreTyped, ReleaseTyped, LaunchTyped,
       CloseTyped, UpdateTyped DEF Tables
  <1>2. CASE UNCHANGED vars
    BY <1>2, StutterTyped
  <1> QED  BY <1>1, <1>2

\* Every reachable state is type-correct: no reference count drops below zero,
\* no cancel or channel belongs to a task that was never started, and every
\* request that runs names an entry that was made.
THEOREM PassTyped == Spec => []TypeOK
  <1>1. Spec => []Typed
    BY InitTyped, TypedNext, PTL DEF Spec
  <1>2. Typed => TypeOK
    BY DEF Typed
  <1> QED  BY <1>1, <1>2, PTL


-----------------------------------------------------------------------------
(* What the steps leave alone. *)

\* A task that is not t stays where it is, with its job.
Others(t) ==
    \A u \in Task \ {t} : stage'[u] = stage[u] /\ job'[u] = job[u]

\* A prefetch keeps its job as long as it runs.
KeepsJob(t) ==
    t \in Client \/ ( /\ stage[t] \notin {"idle", "over"}
                      /\ stage'[t] = "over" \/ job'[t] = job[t] )

LEMMA GoEffect ==
  ASSUME Typed, NEW t \in Task, NEW st, GoesTo(t, st), job' = job \/ \E j : job' = [job EXCEPT ![t] = j]
  PROVE  Others(t) /\ stage'[t] = st
  BY DEF Others, GoesTo, Typed, TypeOK, TaskTypes

LEMMA ReturnEffect ==
  ASSUME Typed, NEW t \in Task, Returns(t)
  PROVE  Others(t) /\ stage'[t] = IF t \in Client THEN "idle" ELSE "over"
  <1> DEFINE st == IF t \in Client THEN "idle" ELSE "over"
  <1>1. GoesTo(t, st) /\ job' = [job EXCEPT ![t] = NoJob]
    BY DEF Returns
  <1> HIDE DEF st
  <1>2. Others(t) /\ stage'[t] = st
    BY <1>1, GoEffect
  <1> QED  BY <1>2 DEF st

LEMMA MovesEffect ==
  ASSUME Typed, NEW t \in Task, Moves(t)
  PROVE  /\ Others(t) /\ stage'[t] \in {"idle", "over", "look", "wait", "query"}
         /\ KeepsJob(t)
         /\ UNCHANGED <<snapVars, deathVars, memoVars, poolVars, launched>>
  <1> USE DEF Moves
  <1>1. UNCHANGED <<snapVars, deathVars, memoVars, poolVars, launched>>
    BY DEF FindMemo, Join, Awake, Abandon, CloseDone, Respond, Diagnose, Query
  <1>2. KeepsJob(t)
    <2>1. t \in Client \/ stage[t] \notin {"idle", "over"}
      BY DEF FindMemo, Join, Awake, Abandon, CloseDone, At
    <2>2. CASE Returns(t)
      BY <2>1, <2>2, ReturnEffect DEF KeepsJob
    <2>3. CASE job' = job
      BY <2>1, <2>3 DEF KeepsJob
    <2> QED
      BY <2>1, <2>2, <2>3 DEF FindMemo, Join, Awake, Abandon, CloseDone, KeepsJob
  <1>5. ASSUME NEW e \in Entry, NEW p \in Project, Diagnose(t, e, p) \/ Query(t, e, p)
        PROVE  Others(t) /\ stage'[t] \in {"look", "query"}
    BY <1>5, GoEffect DEF Diagnose, Query
  <1>6. Others(t) /\ stage'[t] \in {"idle", "over", "look", "wait", "query"}
    <2>1. Returns(t) => Others(t) /\ stage'[t] \in {"idle", "over"}
      BY ReturnEffect
    <2>2. Join(t) \/ Awake(t) => Others(t) /\ stage'[t] \in {"look", "wait"}
      BY GoEffect DEF Join, Awake
    <2> QED  BY <2>1, <2>2, <1>5 DEF FindMemo, Abandon, CloseDone, Respond
  <1> QED  BY <1>1, <1>2, <1>6

LEMMA ChecksEffect ==
  ASSUME Typed, NEW t \in Task, Checks(t)
  PROVE  /\ Others(t) /\ UNCHANGED <<snapVars, deathVars, memoVars, launched>>
         /\ KeepsJob(t) /\ stage'[t] \notin {"close", "launch"}
         /\ stage'[t] \in {"check", "store"} => stage[t] = "check" /\ job'[t] = job[t]
  <1> USE DEF Checks
  <1>1. UNCHANGED <<snapVars, deathVars, memoVars, launched>>
    BY DEF ReleaseAll, ReleaseOne, NoLongerWaits, CheckGroup, Lease, LeaseOne
  <1>2. ASSUME t \in Client, ReleaseOne(t)
        PROVE  Others(t) /\ stage[t] = "using" /\ stage'[t] = "idle"
    BY <1>2, ReturnEffect DEF ReleaseOne, At
  <1>3. ASSUME ReleaseAll(t)
        PROVE  Others(t) /\ stage[t] = "check" /\ stage'[t] = "store" /\ job' = job
    BY <1>3, GoEffect DEF ReleaseAll, At
  <1>4. ASSUME NEW g \in Group, NEW s \in Slot, LeaseOne(t, g, s)
        PROVE  Others(t) /\ stage[t] = "query" /\ stage'[t] = "using" /\ job' = job
    BY <1>4, GoEffect DEF LeaseOne, At
  <1>5. ASSUME NEW g \in Group, NoLongerWaits(t, g) \/ CheckGroup(t, g) \/ \E s \in Slot : Lease(t, g, s)
        PROVE  Others(t) /\ stage' = stage /\ job' = job /\ stage[t] = "check"
    BY <1>5 DEF NoLongerWaits, CheckGroup, Lease, Others, taskVars, At
  <1>6. Others(t) /\ stage'[t] \notin {"close", "launch"}
    BY <1>2, <1>3, <1>4, <1>5
  <1>7. stage'[t] \in {"check", "store"} => stage[t] = "check" /\ job'[t] = job[t]
    BY <1>2, <1>3, <1>4, <1>5
  <1>8. KeepsJob(t)
    BY <1>2, <1>3, <1>4, <1>5 DEF KeepsJob
  <1> QED  BY <1>1, <1>6, <1>7, <1>8

\* At most one task, which was idle, is set to work or closes the session.
SetOff ==
    \/ UNCHANGED <<stage, job>>
    \/ \E t \in Task : /\ Others(t) /\ stage[t] = "idle"
                       /\ stage'[t] \in {"look", "launch", "over"}

\* Cancelling is for good.
LEMMA TablesEffect ==
  ASSUME Typed, Started, Tables
  PROVE  /\ cancelled \subseteq cancelled' /\ UNCHANGED <<memoVars, poolVars>>
         /\ SetOff
  <1>1. ASSUME NEW c \in Client, NEW e \in Entry, Release(c, e)
        PROVE  cancelled \subseteq cancelled' /\ UNCHANGED <<memoVars, poolVars>> /\ SetOff
    BY <1>1 DEF Release, Kill, deathVars, taskVars, SetOff
  <1>2. ASSUME NEW c \in Client, NEW p \in Project, Launch(c, p)
        PROVE  cancelled \subseteq cancelled' /\ UNCHANGED <<memoVars, poolVars>> /\ SetOff
    <2>1. cancelled' = cancelled /\ UNCHANGED <<memoVars, poolVars>>
      BY <1>2 DEF Launch
    <2>2. CASE Starts(job[c].entry)
      <3> DEFINE t == launched + 1
      <3>1. /\ t \in Prefetch /\ t \in Task /\ GoesTo(t, "look")
            /\ \E j : job' = [job EXCEPT ![t] = j]
        BY <1>2, <2>2 DEF Launch, Task, GoesTo
      <3>2. stage[t] = "idle"
        BY <3>1 DEF Started, At, Typed, TypeOK, DeathTypes
      <3> HIDE DEF t
      <3>3. Others(t) /\ stage'[t] = "look"
        BY <3>1, GoEffect
      <3> QED  BY <2>1, <3>1, <3>2, <3>3 DEF SetOff
    <2>3. CASE ~Starts(job[c].entry)
      BY <1>2, <2>1, <2>3 DEF Launch, SetOff
    <2> QED  BY <2>2, <2>3
  <1>3. ASSUME NEW c \in Client, Close(c)
        PROVE  cancelled \subseteq cancelled' /\ UNCHANGED <<memoVars, poolVars>> /\ SetOff
    <2>1. c \in Task /\ GoesTo(c, "over") /\ job' = job /\ stage[c] = "idle"
      BY <1>3 DEF Close, At, Task
    <2>2. Others(c) /\ stage'[c] = "over"
      BY <2>1, GoEffect
    <2> QED  BY <1>3, <2>1, <2>2 DEF Close, Kill, SetOff
  <1>4. ASSUME NEW c \in Client, NEW opened \in SUBSET Project, NEW closed \in SUBSET Project,
               NEW rebuilt \in SUBSET Project, NEW fresh \in BOOLEAN, NEW prefetch \in BOOLEAN,
               Update(c, opened, closed, rebuilt, fresh, prefetch)
        PROVE  cancelled \subseteq cancelled' /\ UNCHANGED <<memoVars, poolVars>> /\ SetOff
    <2>1. /\ c \in Task /\ GoesTo(c, "launch") /\ stage[c] = "idle"
          /\ \E j : job' = [job EXCEPT ![c] = j]
      BY <1>4 DEF Update, At, Task
    <2>2. Others(c) /\ stage'[c] = "launch"
      BY <2>1, GoEffect
    <2> QED  BY <1>4, <2>1, <2>2 DEF Update, Kill, SetOff
  <1> QED  BY <1>1, <1>2, <1>3, <1>4 DEF Tables


-----------------------------------------------------------------------------
(* What is remembered is whole.                                             *)

\* The context of a request is never cancelled.
LEMMA ClientsCount ==
  ASSUME Typed, NEW c \in Client
  PROVE  c \in Task /\ c \notin cancelled /\ c \notin 1..launched
  <1>1. 1..launched \subseteq 1..MaxPrefetch
    BY DEF Typed, TypeOK, DeathTypes
  <1>2. cancelled \subseteq 1..launched
    BY DEF Typed, TypeOK, DeathTypes
  <1>3. c \notin Prefetch
    OBVIOUS
  <1> QED  BY <1>1, <1>2, <1>3 DEF Task, Prefetch

\* A task only gets to a stage of St by staying there, with its job.
Stays(St) ==
    \A u \in Task : stage'[u] \in St => stage'[u] = stage[u] /\ job'[u] = job[u]

LEMMA MovesStay ==
  ASSUME Typed, NEW t \in Task, Moves(t)
  PROVE  Stays({"check", "store", "close"})
  BY MovesEffect DEF Stays, Others

LEMMA TablesStay ==
  ASSUME Typed, Started, Tables
  PROVE  Stays({"check", "store", "close"})
  BY TablesEffect DEF Stays, Others, SetOff

LEMMA WholeFrame ==
  ASSUME Whole, cancelled \subseteq cancelled', UNCHANGED <<checks, memo>>, Stays({"store", "close"})
  PROVE  Whole'
  BY DEF Whole, CutIfCancelled, Through, MemoIsWhole, Stored, Stays, At, Memo, Task

LEMMA WholeChecks ==
  ASSUME Typed, Whole, NEW t \in Task, Checks(t)
  PROVE  Whole'
  <1>1. UNCHANGED <<memo, cancelled>> /\ Stays({"close"})
    BY ChecksEffect DEF memoVars, deathVars, Stays, Others
  <1>2. MemoIsWhole' /\ Stored'
    BY <1>1 DEF Whole, MemoIsWhole, Stored, Stays, At, Memo, Task
  <1>3. CASE ReleaseAll(t)
    <2>1. CutIfCancelled'
      BY <1>1, <1>3 DEF ReleaseAll, Whole, CutIfCancelled
    <2>2. Through'
      BY <1>3 DEF ReleaseAll, Whole, Through, At, GoesTo, Typed, TypeOK, TaskTypes
    <2> QED  BY <1>2, <2>1, <2>2 DEF Whole
  <1>4. ASSUME NEW g \in Group,
               NoLongerWaits(t, g) \/ CheckGroup(t, g) \/ \E s \in Slot : Lease(t, g, s)
        PROVE  Whole'
    <2>1. /\ stage[t] = "check" /\ stage' = stage
          /\ \E x : checks' = [checks EXCEPT ![t][g] = x] /\ (x = "cut" => t \in cancelled)
      <3>1. CASE NoLongerWaits(t, g)
        <4>1. /\ stage[t] = "check" /\ stage' = stage /\ checks' = [checks EXCEPT ![t][g] = "cut"]
              /\ t \in cancelled
          BY <3>1 DEF NoLongerWaits, At, taskVars
        <4> QED  BY <4>1
      <3>2. CASE CheckGroup(t, g)
        <4> DEFINE x == IF t \in cancelled THEN "cut" ELSE "checked"
        <4>1. /\ stage[t] = "check" /\ stage' = stage /\ checks' = [checks EXCEPT ![t][g] = x]
              /\ x = "cut" => t \in cancelled
          BY <3>2 DEF CheckGroup, At, taskVars
        <4> HIDE DEF x
        <4> QED  BY <4>1
      <3>3. CASE \E s \in Slot : Lease(t, g, s)
        <4>1. stage[t] = "check" /\ stage' = stage /\ checks' = [checks EXCEPT ![t][g] = "leased"]
          BY <3>3 DEF Lease, At, taskVars
        <4>2. "leased" # "cut"
          OBVIOUS
        <4> QED  BY <4>1, <4>2
      <3> QED  BY <1>4, <3>1, <3>2, <3>3
    <2>2. CutIfCancelled' /\ Through'
      BY <1>1, <2>1 DEF Whole, CutIfCancelled, Through, At, Typed, TypeOK, PoolTypes
    <2> QED  BY <1>2, <2>2 DEF Whole
  <1>5. CASE checks' = checks /\ Stays({"store"})
    BY <1>1, <1>2, <1>5 DEF Whole, CutIfCancelled, Through, Stays, At
  <1>6. ASSUME ReleaseOne(t) \/ \E g \in Group, s \in Slot : LeaseOne(t, g, s)
        PROVE  checks' = checks /\ Stays({"store"})
    <2>1. checks' = checks /\ stage[t] \in {"query", "using"}
      BY <1>6 DEF ReleaseOne, LeaseOne, At
    <2> QED  BY <2>1, ChecksEffect DEF Stays, Others
  <1> QED  BY <1>3, <1>4, <1>5, <1>6 DEF Checks

LEMMA WholeStore ==
  ASSUME Typed, Whole, NEW t \in Task, Store(t)
  PROVE  Whole'
  <1> DEFINE e == job[t].entry
             p == job[t].project
  <1>1. /\ stage[t] = "store" /\ job' = job /\ cancelled' = cancelled
        /\ stage' = [stage EXCEPT ![t] = "close"] /\ checks' = [checks EXCEPT ![t] = Fresh]
    BY DEF Store, At, GoesTo, deathVars
  <1>2. e \in Entry /\ p \in Project
    BY <1>1, WorkFacts
  <1>3. t \notin cancelled => Result(t) = Group
    BY <1>1 DEF Result, Whole, Through, CutIfCancelled, At
  <1>4. memo' = IF t \notin cancelled THEN [memo EXCEPT ![e][p] = Group] ELSE memo
    BY <1>3 DEF Store, Remembered
  <1>5. CutIfCancelled' /\ Through'
    BY <1>1 DEF Whole, CutIfCancelled, Through, At, Fresh, Typed, TypeOK, TaskTypes, PoolTypes
  <1>6. MemoIsWhole'
    BY <1>2, <1>4 DEF Whole, MemoIsWhole, Typed, TypeOK, MemoTypes
  <1>7. Stored'
    <2> SUFFICES ASSUME NEW c \in Client, stage'[c] = "close"
                 PROVE  memo'[job'[c].entry][job'[c].project] = Group
      BY DEF Stored, At, Memo
    <2>1. c \in Task /\ c \notin cancelled
      BY ClientsCount
    <2>2. CASE c = t
      BY <1>1, <1>2, <1>4, <2>1, <2>2 DEF Typed, TypeOK, MemoTypes
    <2>3. CASE c # t
      <3>1. stage[c] = "close"
        BY <1>1, <2>1, <2>3 DEF Typed, TypeOK, TaskTypes
      <3>2. memo[job[c].entry][job[c].project] = Group
        BY <3>1 DEF Whole, Stored, At, Memo
      <3>3. job[c].entry \in Entry /\ job[c].project \in Project
        BY <2>1, <3>1, WorkFacts
      <3> QED
        BY <1>1, <1>2, <1>4, <3>2, <3>3 DEF Typed, TypeOK, MemoTypes
    <2> QED  BY <2>2, <2>3
  <1> QED  BY <1>5, <1>6, <1>7 DEF Whole

LEMMA WholeNext == ASSUME Typed, Started, Whole, Next PROVE Whole'
  <1>1. ASSUME NEW t \in Task, Moves(t) PROVE Whole'
    BY <1>1, MovesEffect, MovesStay, WholeFrame DEF memoVars, deathVars, poolVars, Stays
  <1>2. CASE Tables
    BY <1>2, TablesEffect, TablesStay, WholeFrame DEF memoVars, poolVars, Stays
  <1>3. ASSUME NEW t \in Task, Start(t) PROVE Whole'
    BY <1>3, WholeFrame DEF Start, GoesTo, deathVars, poolVars, Stays, Typed, TypeOK, TaskTypes
  <1> QED  BY <1>1, <1>2, <1>3, Steps, WholeChecks, WholeStore

-----------------------------------------------------------------------------
(* A pass holds the in-flight entry of its program.                         *)

LEMMA HoldsFrame ==
  ASSUME Holds, inflight' = inflight, Stays({"check", "store"})
  PROVE  Holds'
  BY DEF Holds, Passing, Inflight, Stays

LEMMA HoldsNext == ASSUME Typed, Started, Holds, Next PROVE Holds'
  <1>1. ASSUME NEW t \in Task, Moves(t) PROVE Holds'
    BY <1>1, MovesEffect, MovesStay, HoldsFrame DEF memoVars, Stays
  <1>2. ASSUME NEW t \in Task, Checks(t) PROVE Holds'
    <2>1. inflight' = inflight
      BY <1>2, ChecksEffect DEF memoVars
    <2> SUFFICES ASSUME NEW u \in Task, stage'[u] \in Passing
                 PROVE  inflight[job'[u].entry][job'[u].project] = u
      BY <2>1 DEF Holds, Inflight
    <2>2. stage[u] \in Passing /\ job'[u] = job[u]
      BY <1>2, ChecksEffect DEF Others, Passing
    <2> QED  BY <2>2 DEF Holds, Inflight
  <1>3. CASE Tables
    BY <1>3, TablesEffect, TablesStay, HoldsFrame DEF memoVars, Stays
  <1>4. ASSUME NEW t \in Task, Start(t) PROVE Holds'
    <2>1. /\ job' = job /\ stage' = [stage EXCEPT ![t] = "check"] /\ Inflight(t) = NoTask
          /\ inflight' = [inflight EXCEPT ![job[t].entry][job[t].project] = t]
          /\ stage[t] = "look"
      BY <1>4 DEF Start, MayStart, GoesTo, At
    <2>2. job[t].entry \in Entry /\ job[t].project \in Project
      BY <2>1, WorkFacts
    <2> SUFFICES ASSUME NEW u \in Task, stage'[u] \in Passing
                 PROVE  inflight'[job[u].entry][job[u].project] = u
      BY <2>1 DEF Holds, Inflight
    <2>3. CASE u = t
      BY <2>1, <2>2, <2>3 DEF Typed, TypeOK, MemoTypes
    <2>4. CASE u # t
      <3>1. stage[u] \in Passing
        BY <2>1, <2>4 DEF Typed, TypeOK, TaskTypes
      <3>2. Inflight(u) = u /\ u # NoTask
        BY <3>1 DEF Holds
      <3>3. job[u].entry \in Entry /\ job[u].project \in Project
        BY <3>1, WorkFacts DEF Passing
      <3> QED  BY <2>1, <2>2, <3>2, <3>3 DEF Inflight, Typed, TypeOK, MemoTypes
    <2> QED  BY <2>3, <2>4
  <1>5. ASSUME NEW t \in Task, Store(t) PROVE Holds'
    <2>1. /\ job' = job /\ stage' = [stage EXCEPT ![t] = "close"] /\ stage[t] = "store"
          /\ inflight' = [inflight EXCEPT ![job[t].entry][job[t].project] = NoTask]
      BY <1>5 DEF Store, GoesTo, At
    <2>2. job[t].entry \in Entry /\ job[t].project \in Project /\ Inflight(t) = t
      BY <2>1, WorkFacts DEF Holds, Passing
    <2> SUFFICES ASSUME NEW u \in Task, stage'[u] \in Passing
                 PROVE  inflight'[job[u].entry][job[u].project] = u
      BY <2>1 DEF Holds, Inflight
    <2>3. u # t /\ stage[u] \in Passing
      BY <2>1 DEF Passing, Typed, TypeOK, TaskTypes
    <2>4. job[u].entry \in Entry /\ job[u].project \in Project /\ Inflight(u) = u
      BY <2>3, WorkFacts DEF Holds, Passing
    <2> QED  BY <2>1, <2>2, <2>3, <2>4 DEF Inflight, Typed, TypeOK, MemoTypes
  <1> QED  BY <1>1, <1>2, <1>3, <1>4, <1>5, Steps


-----------------------------------------------------------------------------
(* Prefetches are those of the newest entry.                                *)

LEMMA EntriesMade == Typed => Latest \subseteq table /\ table \subseteq Entry
  <1> SUFFICES ASSUME Typed PROVE table \subseteq Entry
    BY DEF Latest
  <1>1. table \subseteq 1..made /\ made \in 0..MaxEntries
    BY DEF Typed, TypeOK, TableTypes
  <1>2. 1..made \subseteq 1..MaxEntries
    BY <1>1
  <1> QED  BY <1>1, <1>2 DEF Entry

LEMMA LiveFrame ==
  ASSUME Typed, Live, NEW t \in Task, Others(t), KeepsJob(t), stage'[t] # "launch",
         UNCHANGED <<snapVars, deathVars, launched>>
  PROVE  Live'
  <1>1. UNCHANGED <<table, snapOf, top, dead, cancels, cancelled, launched>>
    BY DEF snapVars, deathVars
  <1>2. Started'
    <2>1. ASSUME NEW u \in Prefetch, u > launched PROVE stage'[u] = "idle"
      <3>1. stage[u] = "idle" /\ u \in Task /\ u \notin Client
        BY <2>1 DEF Live, Started, At, Task
      <3> QED  BY <3>1 DEF Others, KeepsJob
    <2> QED  BY <1>1, <2>1 DEF Started, At
  <1>3. ASSUME NEW u \in 1..launched, stage'[u] # "over"
        PROVE  stage[u] # "over" /\ job'[u] = job[u]
    <2>1. u \in Task /\ u \notin Client
      BY ClientsCount DEF Typed, TypeOK, DeathTypes, Task, Prefetch
    <2> QED  BY <1>3, <2>1 DEF Others, KeepsJob
  <1>4. Registered' /\ OnlyLatestPrefetches'
    BY <1>1, <1>3 DEF Live, Registered, OnlyLatestPrefetches, Latest
  <1>5. LaunchesLatest'
    <2>1. ASSUME NEW c \in Client, stage'[c] = "launch"
          PROVE  stage[c] = "launch" /\ job'[c] = job[c]
      BY <2>1 DEF Others, Task
    <2> QED  BY <1>1, <2>1 DEF Live, LaunchesLatest, At, Starts, Latest
  <1> QED  BY <1>2, <1>4, <1>5 DEF Live

LEMMA LivePrefetch ==
  ASSUME Typed, NEW t \in 1..launched
  PROVE  t \in Prefetch /\ t \in Task /\ t \notin Client
  BY ClientsCount DEF Typed, TypeOK, DeathTypes, Task, Prefetch

LEMMA LiveLaunch ==
  ASSUME Typed, Live, NEW c \in Client, NEW p \in Project, Launch(c, p)
  PROVE  Live'
  <1> DEFINE t == launched + 1
             e == job[c].entry
  <1>1. UNCHANGED <<table, snapOf, top, dead, cancelled>>
    BY DEF Launch, snapVars
  <1>2. CASE Starts(e)
    <2>1. /\ t \in Prefetch /\ launched' = t /\ stage' = [stage EXCEPT ![t] = "look"]
          /\ job' = [job EXCEPT ![t] = [entry |-> e, project |-> p]]
          /\ cancels' = [cancels EXCEPT ![e] = @ \union {t}]
      BY <1>2 DEF Launch
    <2>2. e \in Entry /\ e \in Latest
      BY <1>2, WorkFacts DEF Launch, At, Task, Live, LaunchesLatest
    <2>3. t \in Task /\ t \notin Client /\ launched \in Nat
      BY <2>1 DEF Task, Typed, TypeOK, DeathTypes
    <2>4. Started'
      BY <2>1, <2>3 DEF Live, Started, At, Typed, TypeOK, TaskTypes, Task, Prefetch
    <2>5. ASSUME NEW u \in 1..launched', stage'[u] # "over", u \notin cancelled
          PROVE  u \in cancels'[job'[u].entry] /\ job'[u].entry \in Latest
      <3>1. CASE u = t
        <4>1. job'[u].entry = e
          BY <2>1, <2>3, <3>1 DEF Typed, TypeOK, TaskTypes
        <4> QED  BY <2>1, <2>2, <3>1, <4>1 DEF Typed, TypeOK, DeathTypes
      <3>2. CASE u # t
        <4>1. u \in 1..launched
          BY <2>1, <2>3, <3>2
        <4>2. u \in Task /\ stage'[u] = stage[u] /\ job'[u] = job[u]
          BY <2>1, <3>2, <4>1, LivePrefetch DEF Typed, TypeOK, TaskTypes
        <4>3. u \in cancels[job[u].entry] /\ job[u].entry \in Latest
          BY <2>5, <4>1, <4>2 DEF Live, Registered, OnlyLatestPrefetches
        <4>4. job[u].entry \in Entry
          BY <4>3, EntriesMade
        <4> QED  BY <2>1, <2>2, <4>2, <4>3, <4>4 DEF Typed, TypeOK, DeathTypes
      <3> QED  BY <3>1, <3>2
    <2>6. Registered' /\ OnlyLatestPrefetches'
      BY <1>1, <2>5 DEF Registered, OnlyLatestPrefetches, Latest
    <2>7. LaunchesLatest'
      <3>1. ASSUME NEW d \in Client PROVE stage'[d] = stage[d] /\ job'[d] = job[d]
        BY <2>1, <2>3 DEF Typed, TypeOK, TaskTypes, Task
      <3> QED  BY <1>1, <3>1 DEF Live, LaunchesLatest, At, Starts, Latest
    <2> QED  BY <2>4, <2>6, <2>7 DEF Live
  <1>3. CASE ~Starts(e)
    BY <1>1, <1>3 DEF Launch, Live, Started, Registered, LaunchesLatest, OnlyLatestPrefetches,
       At, Starts, Latest
  <1> QED  BY <1>2, <1>3

LEMMA LiveRelease ==
  ASSUME Typed, Live, NEW c \in Client, NEW e \in Entry, Release(c, e)
  PROVE  Live'
  <1>1. UNCHANGED <<stage, job, launched, snapOf, top>>
    BY DEF Release, taskVars
  <1>2. CASE refs[e] > 1
    BY <1>1, <1>2 DEF Release, deathVars, Live, Started, Registered, LaunchesLatest,
       OnlyLatestPrefetches, At, Starts, Latest
  <1>3. CASE ~(refs[e] > 1)
    <2>1. /\ table' = table \ {e} /\ dead' = dead \union {e} /\ cancelled' = cancelled \union cancels[e]
          /\ cancels' = [x \in Entry |-> IF x \in {e} THEN {} ELSE cancels[x]]
      BY <1>3 DEF Release, Kill
    <2>2. ASSUME NEW u \in 1..launched, stage[u] # "over", u \notin cancelled'
          PROVE  u \in cancels'[job[u].entry] /\ job[u].entry \in Latest'
      <3>1. u \in cancels[job[u].entry] /\ job[u].entry \in Latest /\ job[u].entry # e
        BY <2>1, <2>2 DEF Live, Registered, OnlyLatestPrefetches
      <3>2. job[u].entry \in Entry
        BY <3>1, EntriesMade
      <3> QED  BY <1>1, <2>1, <3>1, <3>2 DEF Latest
    <2>3. Registered' /\ OnlyLatestPrefetches'
      BY <1>1, <2>2 DEF Registered, OnlyLatestPrefetches
    <2>4. LaunchesLatest'
      BY <1>1, <2>1 DEF Live, LaunchesLatest, At, Starts, Latest
    <2> QED  BY <1>1, <2>3, <2>4 DEF Live, Started, At
  <1> QED  BY <1>2, <1>3

\* Cancelling the prefetches of the newest entries leaves none that count.
LEMMA KillLatest ==
  ASSUME Typed, Live, NEW S, Latest \subseteq S, S \subseteq Entry, Kill(S),
         NEW u \in 1..launched, stage[u] # "over"
  PROVE  u \in cancelled'
  <1>1. u \in cancelled \/ (u \in cancels[job[u].entry] /\ job[u].entry \in S)
    BY DEF Live, Registered, OnlyLatestPrefetches
  <1> QED  BY <1>1 DEF Kill

LEMMA LiveClose == ASSUME Typed, Live, NEW c \in Client, Close(c) PROVE Live'
  <1>1. UNCHANGED <<job, launched>> /\ stage' = [stage EXCEPT ![c] = "over"] /\ Kill(table)
    BY DEF Close, GoesTo
  <1>2. \A u \in Task : u # c => stage'[u] = stage[u]
    BY <1>1 DEF Typed, TypeOK, TaskTypes
  <1>3. Latest \subseteq table /\ table \subseteq Entry
    BY EntriesMade
  <1>4. \A u \in 1..launched : stage'[u] = stage[u]
    BY <1>2, LivePrefetch
  <1>5. \A u \in 1..launched : stage[u] # "over" => u \in cancelled'
    BY <1>1, <1>3, KillLatest
  <1>6. Registered' /\ OnlyLatestPrefetches'
    BY <1>1, <1>4, <1>5 DEF Registered, OnlyLatestPrefetches
  <1>7. LaunchesLatest'
    <2> SUFFICES ASSUME NEW d \in Client, stage'[d] = "launch", job[d].entry \notin dead'
                 PROVE  FALSE
      BY <1>1 DEF LaunchesLatest, At, Starts
    <2>1. d # c /\ stage[d] = "launch"
      BY <1>1, <1>2 DEF Typed, TypeOK, TaskTypes, Task
    <2>2. dead' = dead \union table
      BY <1>1 DEF Kill
    <2> QED  BY <1>3, <2>1, <2>2 DEF Live, LaunchesLatest, At, Starts
  <1>8. Started'
    BY <1>1, <1>2 DEF Live, Started, At, Task
  <1> QED  BY <1>6, <1>7, <1>8 DEF Live

LEMMA LiveUpdate ==
  ASSUME Typed, Live, NEW c \in Client, NEW opened \in SUBSET Project, NEW closed \in SUBSET Project,
         NEW rebuilt \in SUBSET Project, NEW fresh \in BOOLEAN, NEW prefetch \in BOOLEAN,
         Update(c, opened, closed, rebuilt, fresh, prefetch)
  PROVE  Live'
  <1> DEFINE entry == IF fresh \/ Latest = {} THEN made + 1 ELSE CHOOSE e \in Latest : TRUE
             h == IF fresh THEN top + 1 ELSE top
  <1>1. /\ entry \in Entry /\ top' = h /\ snapOf' = [snapOf EXCEPT ![entry] = h]
        /\ table' = table \union {entry} /\ Kill(Superseded(fresh)) /\ launched' = launched
        /\ stage' = [stage EXCEPT ![c] = "launch"] /\ \A d \in Client : ~At(d, "launch")
        /\ job' = [job EXCEPT ![c] = [NoJob EXCEPT !.entry = entry]]
    BY DEF Update, GoesTo
  <1>2. \A u \in Task : u # c => stage'[u] = stage[u] /\ job'[u] = job[u]
    BY <1>1 DEF Typed, TypeOK, TaskTypes
  <1>3. entry \in Latest'
    BY <1>1 DEF Latest, Typed, TypeOK, TableTypes
  <1>4. h = top' /\ (~fresh => top' = top)
    BY <1>1
  <1> HIDE DEF entry, h
  <1>5. Started'
    BY <1>1, <1>2 DEF Live, Started, At, Task
  <1>6. LaunchesLatest'
    <2> SUFFICES ASSUME NEW d \in Client, stage'[d] = "launch"
                 PROVE  job'[d].entry \in Latest'
      BY DEF LaunchesLatest, At
    <2>1. d = c
      BY <1>1, <1>2 DEF At, Task
    <2>2. job'[c] = [NoJob EXCEPT !.entry = entry]
      BY <1>1 DEF Typed, TypeOK, TaskTypes, Task
    <2>3. [NoJob EXCEPT !.entry = entry].entry = entry
      BY NoJobType DEF Job
    <2> QED  BY <1>3, <2>1, <2>2, <2>3
  <1>7. \A u \in 1..launched : stage'[u] = stage[u] /\ job'[u] = job[u]
    BY <1>2, LivePrefetch
  <1>8. Registered' /\ OnlyLatestPrefetches'
    <2>1. CASE fresh
      <3>1. Superseded(fresh) = Latest /\ Latest \subseteq Entry
        BY <2>1, EntriesMade DEF Superseded
      <3>2. \A u \in 1..launched : stage[u] # "over" => u \in cancelled'
        BY <1>1, <3>1, KillLatest
      <3> QED  BY <1>1, <1>7, <3>2 DEF Registered, OnlyLatestPrefetches
    <2>2. CASE ~fresh
      <3>1. cancelled' = cancelled /\ cancels' = cancels
        BY <1>1, <2>2 DEF Superseded, Kill, Typed, TypeOK, DeathTypes
      <3>2. ASSUME NEW x \in Latest PROVE x \in Latest'
        BY <1>1, <1>4, <2>2 DEF Latest, Typed, TypeOK, TableTypes, Entry
      <3> QED  BY <1>1, <1>7, <3>1, <3>2 DEF Live, Registered, OnlyLatestPrefetches
    <2> QED  BY <2>1, <2>2
  <1> QED  BY <1>5, <1>6, <1>8 DEF Live

LEMMA LiveNext == ASSUME Typed, Live, Next PROVE Live'
  <1>1. ASSUME NEW t \in Task, Moves(t) PROVE Live'
    BY <1>1, MovesEffect, LiveFrame
  <1>2. ASSUME NEW t \in Task, Checks(t) PROVE Live'
    BY <1>2, ChecksEffect, LiveFrame
  <1>3. ASSUME NEW t \in Task, Start(t) \/ Store(t) PROVE Live'
    <2>1. Others(t) /\ stage'[t] \in {"check", "close"}
      BY <1>3, GoEffect DEF Start, Store
    <2>2. KeepsJob(t) /\ UNCHANGED <<snapVars, deathVars, launched>>
      BY <1>3 DEF Start, Store, At, KeepsJob
    <2> QED  BY <2>1, <2>2, LiveFrame
  <1>4. CASE Tables
    BY <1>4, LiveRelease, LiveLaunch, LiveClose, LiveUpdate DEF Tables
  <1> QED  BY <1>1, <1>2, <1>3, <1>4, Steps


-----------------------------------------------------------------------------
(* Groups are apart.                                                        *)

LEMMA ApartFrame ==
  ASSUME Apart, UNCHANGED <<lease, served>>, \A t \in Task : At(t, "check") => stage'[t] = "check"
  PROVE  Apart'
  BY DEF Apart, ServedHeld, OneGroupPerSlot, At

LEMMA ApartLease ==
  ASSUME Typed, Apart, NEW t \in Task, NEW g \in Group, NEW s \in Slot, Lease(t, g, s)
  PROVE  Apart'
  <1>1. /\ lease' = [lease EXCEPT ![t][g] = s] /\ served' = [served EXCEPT ![t][g] = s]
        /\ stage' = stage /\ At(t, "check")
    BY DEF Lease, taskVars
  <1>2. \A k \in Group : lease[t][k] # s
    BY DEF Lease, Free
  <1>3. ServedHeld'
    BY <1>1 DEF Apart, ServedHeld, At, Typed, TypeOK, PoolTypes
  <1>4. ASSUME NEW u \in Task, NEW k \in Group, NEW m \in Group,
               served'[u][k] = served'[u][m], served'[u][k] # NoSlot
        PROVE  k = m
    <2>1. CASE u # t
      BY <1>1, <1>4, <2>1 DEF Apart, OneGroupPerSlot, Typed, TypeOK, PoolTypes
    <2>2. CASE u = t
      <3>1. \A x \in Group : served[t][x] # s
        BY <1>2 DEF Apart, ServedHeld
      <3>2. \A x \in Group : served'[t][x] = IF x = g THEN s ELSE served[t][x]
        BY <1>1 DEF Typed, TypeOK, PoolTypes
      <3> QED  BY <1>4, <2>2, <3>1, <3>2 DEF Apart, OneGroupPerSlot
    <2> QED  BY <2>1, <2>2
  <1> QED  BY <1>3, <1>4 DEF Apart, OneGroupPerSlot

LEMMA ApartChecks == ASSUME Typed, Apart, NEW t \in Task, Checks(t) PROVE Apart'
  <1>1. ASSUME NEW g \in Group, NoLongerWaits(t, g) \/ CheckGroup(t, g) PROVE Apart'
    BY <1>1, ApartFrame DEF NoLongerWaits, CheckGroup, LeaseAfter, taskVars, At
  <1>2. CASE ReleaseAll(t)
    <2>1. /\ lease' = [lease EXCEPT ![t] = NoLease] /\ served' = [served EXCEPT ![t] = NoLease]
          /\ stage' = [stage EXCEPT ![t] = "store"]
      BY <1>2 DEF ReleaseAll, GoesTo
    <2> QED
      BY <2>1 DEF Apart, ServedHeld, OneGroupPerSlot, At, NoLease, Typed, TypeOK, TaskTypes, PoolTypes
  <1>3. ASSUME t \in Client, NEW g \in Group, NEW s \in Slot, LeaseOne(t, g, s) PROVE Apart'
    <2>1. /\ lease' = [lease EXCEPT ![t][g] = s] /\ served' = served
          /\ stage' = [stage EXCEPT ![t] = "using"] /\ stage[t] = "query"
      BY <1>3 DEF LeaseOne, GoesTo, At
    <2>2. \A k \in Group : served[t][k] = NoSlot
      BY <2>1 DEF Apart, ServedHeld, At
    <2> QED
      BY <2>1, <2>2 DEF Apart, ServedHeld, OneGroupPerSlot, At, Typed, TypeOK, TaskTypes, PoolTypes
  <1>4. ASSUME t \in Client, ReleaseOne(t) PROVE Apart'
    <2>1. lease' = [lease EXCEPT ![t] = NoLease] /\ served' = served /\ stage[t] = "using"
      BY <1>4 DEF ReleaseOne, At
    <2>2. \A k \in Group : served[t][k] = NoSlot
      BY <2>1 DEF Apart, ServedHeld, At
    <2>3. \A u \in Task : u # t => stage'[u] = stage[u]
      BY <1>4, ReturnEffect DEF ReleaseOne, Others
    <2> QED
      BY <2>1, <2>2, <2>3 DEF Apart, ServedHeld, OneGroupPerSlot, At, Typed, TypeOK, PoolTypes
  <1> QED  BY <1>1, <1>2, <1>3, <1>4, ApartLease DEF Checks

LEMMA ApartNext == ASSUME Typed, Started, Apart, Next PROVE Apart'
  <1>1. ASSUME NEW t \in Task, Moves(t) PROVE Apart'
    <2>1. stage[t] # "check"
      BY <1>1 DEF Moves, FindMemo, Join, Awake, Abandon, CloseDone, Respond, Diagnose, Query, At
    <2> QED  BY <1>1, <2>1, MovesEffect, ApartFrame DEF Others, At, poolVars
  <1>2. ASSUME NEW t \in Task, Start(t) PROVE Apart'
    BY <1>2, ApartFrame DEF Start, GoesTo, At, poolVars, Typed, TypeOK, TaskTypes
  <1>3. ASSUME NEW t \in Task, Store(t) PROVE Apart'
    BY <1>3, ApartFrame DEF Store, GoesTo, At, Typed, TypeOK, TaskTypes
  <1>4. CASE Tables
    BY <1>4, TablesEffect, ApartFrame DEF SetOff, Others, At, poolVars
  <1> QED  BY <1>1, <1>2, <1>3, <1>4, ApartChecks, Steps

-----------------------------------------------------------------------------
(* The theorems. *)

LEMMA IInvInit == Init => IInv
  BY InitTyped DEF Init, IInv, Whole, CutIfCancelled, Through, MemoIsWhole, Stored, Holds, Passing,
     Live, Started, Registered, LaunchesLatest, OnlyLatestPrefetches, Apart, ServedHeld,
     OneGroupPerSlot, At, Fresh, NoLease, Task, Prefetch

LEMMA IInvNext == IInv /\ [Next]_vars => IInv'
  <1> SUFFICES ASSUME IInv, [Next]_vars PROVE IInv'
    OBVIOUS
  <1>1. CASE Next
    BY <1>1, TypedNext, WholeNext, HoldsNext, LiveNext, ApartNext DEF IInv, Live
  <1>2. CASE UNCHANGED vars
    <2>1. Typed'
      BY <1>2, StutterTyped DEF IInv
    <2>2. Whole' /\ Holds'
      BY <1>2 DEF vars, snapVars, deathVars, memoVars, poolVars, taskVars, IInv, Whole,
         CutIfCancelled, Through, MemoIsWhole, Stored, Holds, At, Memo, Inflight
    <2>3. Live' /\ Apart'
      BY <1>2 DEF vars, snapVars, deathVars, memoVars, poolVars, taskVars, IInv, Live, Started,
         Registered, LaunchesLatest, OnlyLatestPrefetches, Apart, ServedHeld, OneGroupPerSlot,
         At, Starts, Latest
    <2> QED  BY <2>1, <2>2, <2>3 DEF IInv
  <1> QED  BY <1>1, <1>2

\* The strengthened invariant: what the arguments at the top amount to.
THEOREM Invariance == Spec => []IInv
  BY IInvInit, IInvNext, PTL DEF Spec

\* The diagnostics a snapshot remembers cover its whole program, whichever
\* passes were cancelled on the way.
THEOREM MemoAlwaysWhole == Spec => []MemoIsWhole
  <1>1. IInv => MemoIsWhole
    BY DEF IInv, Whole
  <1> QED  BY <1>1, Invariance, PTL

\* Requests and prefetches never check one program of a snapshot twice at a time.
THEOREM PassesShared == Spec => []OnePass
  <1>1. IInv => OnePass
    BY DEF IInv, Holds, OnePass, Inflight
  <1> QED  BY <1>1, Invariance, PTL

\* A prefetch that still counts works for the newest snapshot.
THEOREM PrefetchesAreLatest == Spec => []OnlyLatestPrefetches
  <1>1. IInv => OnlyLatestPrefetches
    BY DEF IInv, Live
  <1> QED  BY <1>1, Invariance, PTL

\* No checker serves two groups of a pass, in whatever order groups lease.
THEOREM GroupsKeptApart == Spec => []OneGroupPerSlot
  <1>1. IInv => OneGroupPerSlot
    BY DEF IInv, Apart
  <1> QED  BY <1>1, Invariance, PTL

\* A request for a program's diagnostics is only answered once they are whole.
THEOREM RequestsAnsweredWhole == Spec => AnswersAreWhole
  <1> DEFINE Asking(c) == stage[c] \in {"look", "wait", "check", "store", "close"}
             Whole_(c) == memo'[job[c].entry][job[c].project] = Group
  <1>1. ASSUME IInv, Next, NEW c \in Client, Asking(c), stage'[c] = "idle"
        PROVE  Whole_(c)
    <2>1. Typed /\ Started /\ MemoIsWhole /\ Stored /\ c \in Task /\ c \notin cancelled
      BY <1>1, ClientsCount DEF IInv, Whole, Live
    <2>2. job[c].entry \in Entry /\ job[c].project \in Project
      BY <1>1, <2>1, WorkFacts
    <2>3. ASSUME NEW t \in Task, Moves(t) PROVE Whole_(c)
      <3>1. t = c
        BY <1>1, <2>1, <2>3, MovesEffect DEF Others
      <3>2. memo' = memo
        BY <2>1, <2>3, MovesEffect DEF memoVars
      <3>3. FindMemo(c) \/ CloseDone(c)
        <4>1. ~Abandon(c)
          BY <2>1 DEF Abandon
        <4>2. ~Join(c) /\ ~Awake(c)
          BY <1>1, <2>1, GoEffect DEF Join, Awake
        <4>3. ~Respond(c) /\ \A e \in Entry, p \in Project : ~Diagnose(c, e, p) /\ ~Query(c, e, p)
          BY <1>1 DEF Respond, Diagnose, Query, At
        <4> QED  BY <2>3, <3>1, <4>1, <4>2, <4>3 DEF Moves
      <3>4. CASE FindMemo(c)
        BY <2>1, <2>2, <3>2, <3>4 DEF FindMemo, Memo, MemoIsWhole
      <3>5. CASE CloseDone(c)
        BY <2>1, <3>2, <3>5 DEF CloseDone, Stored, Memo
      <3> QED  BY <3>3, <3>4, <3>5
    <2>4. ASSUME NEW t \in Task, Checks(t) PROVE FALSE
      <3>1. t = c
        BY <1>1, <2>1, <2>4, ChecksEffect DEF Others
      <3>2. ~ReleaseOne(c) /\ \A g \in Group, s \in Slot : ~LeaseOne(c, g, s)
        BY <1>1 DEF ReleaseOne, LeaseOne, At
      <3>3. stage[c] = "check" /\ (stage' = stage \/ GoesTo(c, "store"))
        BY <2>4, <3>1, <3>2 DEF Checks, ReleaseAll, NoLongerWaits, CheckGroup, Lease, At, taskVars
      <3> QED  BY <1>1, <2>1, <3>3 DEF GoesTo, Typed, TypeOK, TaskTypes
    <2>5. ASSUME NEW t \in Task, Start(t) \/ Store(t) PROVE FALSE
      <3>1. Others(t) /\ stage'[t] \in {"check", "close"}
        BY <2>1, <2>5, GoEffect DEF Start, Store
      <3> QED  BY <1>1, <2>1, <3>1 DEF Others
    <2>6. CASE Tables
      BY <1>1, <2>1, <2>6, TablesEffect DEF SetOff, Others
    <2> QED  BY <1>1, <2>3, <2>4, <2>5, <2>6, Steps
  <1>2. ASSUME IInv, UNCHANGED vars, NEW c \in Client, Asking(c), stage'[c] = "idle"
        PROVE  Whole_(c)
    BY <1>2 DEF vars, taskVars
  <1>3. IInv /\ [Next]_vars =>
          [\A c \in Client : Asking(c) /\ stage'[c] = "idle" => Whole_(c)]_vars
    BY <1>1, <1>2
  <1> QED  BY <1>3, Invariance, PTL DEF Spec, AnswersAreWhole
=============================================================================
