--------------------------- MODULE ProjectSnapshots ---------------------------
(* The projects of one process and the Go snapshots they are answered from.   *)
(*                                                                            *)
(* Every updateSnapshot makes a new Go snapshot of all open projects and is   *)
(* sent on behalf of one of them, whose previous snapshot is then disposed;   *)
(* the other projects stay on theirs.  Around that, tsgoChecker.ts keeps the  *)
(* current project of each tsconfig, the parameters that landed last, an      *)
(* epoch per project that Go's change report advances, whole-program answers  *)
(* kept per epoch, and decoded source files kept across snapshots.            *)
(* tsc -b (mode "build") has one project open at a time; a language service   *)
(* (mode "service") keeps them all.                                           *)
(*                                                                            *)
(* A text is its version number, and host[f] is the newest.  How a            *)
(* synchronisation finds out that a text is not what Go holds (mirror, drain  *)
(* of the signals, disk stamps) is the subject of OverlaySync; here it finds  *)
(* out what it is meant to.  JS runs to completion: only between the two      *)
(* requests of a program's creation can the disk move.                        *)
EXTENDS Naturals

CONSTANTS
    Configs,        \* paths of the tsconfig files
    Files,          \* host file names
    FilesOf,        \* the files of each config's program
    Signals,        \* files the host reports changes of (closed files of tsserver);
                    \* the others are compared with what Go was sent last
    Steadies,       \* values of the parameters every send carries
    Modes,          \* how the process may run: "service", "build"
    Answers,        \* whole-program answers: "names", "builder"
    NoConfig,       \* no project
    NoTree,         \* no decoded source file
    NoView, Lost,   \* what a project sees when it is closed, when its snapshot is gone
    MaxVersion,     \* bound: versions of a text
    MaxSnapshots    \* bound: updateSnapshot calls

ASSUME ConfigAssumption ==
    /\ NoConfig \notin Configs
    /\ FilesOf \in [Configs -> SUBSET Files]
    /\ Signals \subseteq Files
    /\ Modes \subseteq {"service", "build"}
    /\ "names" \in Answers
    /\ MaxVersion \in Nat
    /\ MaxSnapshots \in Nat
    /\ NoTree \notin Nat

Versions == 0..MaxVersion
Handles == 0..MaxSnapshots      \* 0: no snapshot

VARIABLES
    mode,           \* "service" or "build", fixed for the life of the process
    host,           \* version of the host's text
    text, open,     \* per snapshot: the text of each file, the projects in it
    live,           \* the session's snapshots that are not released
    seq,            \* s.latestSnapshot; snapshots are numbered as they are made
    cache,          \* _projectCache, as the snapshot of the project
    lastSnap,       \* _lastSnapshotByProject
    lastSync,       \* _lastSyncByConfig
    epoch,          \* _projectEpochByConfig, named by the snapshot that advanced it
    memo,           \* _namesByConfig, _builderMetaByConfig: where an answer came from
    stable, kept,   \* MiniSourceFileCache: stableSrcByPath, bySnap
    active, built,  \* _buildModeRef.active: its config and snapshots
    turn,           \* the program creation that is between its two requests
    stray           \* history: per project, files whose tree was outdated when it
                    \* was last fetched, past another project's update

goVars == <<text, open, live, seq>>
sendVars == <<goVars, lastSnap, epoch, stable, kept>>
vars == <<mode, host, sendVars, cache, lastSync, memo, active, built, turn, stray>>

NoSync == [steady |-> 0, project |-> 0]
Idle == [cfg |-> NoConfig, steady |-> 0, project |-> 0]
Kept == [snap : Handles, cfg : Configs, file : Files, ver : Versions]

TypeOK ==
    /\ mode \in Modes
    /\ host \in [Files -> Versions]
    /\ text \in [Handles -> [Files -> Versions]]
    /\ open \in [Handles -> SUBSET Configs]
    /\ live \subseteq Handles \ {0}
    /\ seq \in Handles
    /\ cache \in [Configs -> Handles]
    /\ lastSnap \in [Configs -> Handles]
    /\ lastSync \in [Configs -> [steady : Steadies \cup {0}, project : Handles]]
    /\ epoch \in [Configs -> Handles]
    /\ memo \in [Answers -> [Configs -> [epoch : Handles, project : Handles]]]
    /\ stable \in [Configs -> [Files -> Versions \cup {NoTree}]]
    /\ kept \subseteq Kept
    /\ active \in Configs \cup {NoConfig}
    /\ built \subseteq Handles
    /\ turn \in [cfg : Configs \cup {NoConfig}, steady : Steadies \cup {0}, project : Handles]
    /\ stray \in [Configs -> SUBSET Files]

Init ==
    /\ mode \in Modes
    /\ host = [f \in Files |-> 0]
    /\ text = [h \in Handles |-> [f \in Files |-> 0]]
    /\ open = [h \in Handles |-> {}]
    /\ live = {}
    /\ seq = 0
    /\ cache = [c \in Configs |-> 0]
    /\ lastSnap = [c \in Configs |-> 0]
    /\ lastSync = [c \in Configs |-> NoSync]
    /\ epoch = [c \in Configs |-> 0]
    /\ memo = [k \in Answers |-> [c \in Configs |-> [epoch |-> 0, project |-> 0]]]
    /\ stable = [c \in Configs |-> [f \in Files |-> NoTree]]
    /\ kept = {}
    /\ active = NoConfig
    /\ built = {}
    /\ turn = Idle
    /\ stray = [c \in Configs |-> {}]
-----------------------------------------------------------------------------
(* updateSnapshot, both sides of the wire                                     *)

\* Mutant: the signals are not drained.
Noticed_Unsignalled(c) ==
    {f \in FilesOf[c] \ Signals : host[f] # text[seq][f]}

\* What a synchronisation of c carries: every signal of the process, and the
\* files of c whose text or stamp is not what Go was sent.
Noticed(c) ==
    {f \in Files : /\ host[f] # text[seq][f]
                   /\ \/ f \in FilesOf[c]
                      \/ mode = "service" /\ f \in Signals}

\* computeSnapshotChanges: the projects of both snapshots, as long as the
\* session still has the previous one.
Diffed(opened) == IF seq \in live THEN open[seq] \intersect opened ELSE {}

ChangedFiles(d, texts) == {f \in FilesOf[d] : texts[f] # text[seq][f]}

\* Mutant: the change report is not looked at.
EpochsAfter_Opened(texts, opened) ==
    [d \in Configs |->
        IF d \in opened
        THEN IF epoch[d] = 0 THEN seq + 1 ELSE epoch[d]
        ELSE IF seq \in live /\ d \in open[seq] THEN 0 ELSE epoch[d]]

\* noteProjectEpochs: an epoch advances when the project is opened or reported
\* as changed.
EpochsAfter(texts, opened) ==
    [d \in Configs |->
        IF d \in opened
        THEN IF epoch[d] = 0 \/ (d \in Diffed(opened) /\ ChangedFiles(d, texts) # {})
             THEN seq + 1 ELSE epoch[d]
        ELSE IF seq \in live /\ d \in open[seq] THEN 0 ELSE epoch[d]]

\* Mutant: the report only drops trees of the first project it names.
StableAfter_One(texts, opened) ==
    IF \E d \in Diffed(opened) : ChangedFiles(d, texts) # {}
    THEN LET first == CHOOSE d \in Diffed(opened) : ChangedFiles(d, texts) # {}
         IN  [stable EXCEPT ![first] =
                [f \in Files |-> IF f \in ChangedFiles(first, texts) THEN NoTree ELSE @[f]]]
    ELSE stable

\* invalidateChangedPaths: the change of a file drops its tree in every scope.
StableAfter(texts, opened) ==
    LET dropped == UNION {ChangedFiles(d, texts) : d \in Diffed(opened)}
    IN  [d \in Configs |-> [f \in Files |-> IF f \in dropped THEN NoTree ELSE stable[d][f]]]

\* Mutants: the record is not per project; the build project's snapshots are
\* forgotten.
Disposed_All(c, stale) == {lastSnap[d] : d \in Configs} \cup stale
Disposed_Own(c, stale) == {lastSnap[c]}

\* The snapshots disposed around a send for c: the previous one of c, and those
\* of the build project that gave way to it.
Disposed(c, stale) == {lastSnap[c]} \cup stale

\* _api.updateSnapshot and handleUpdateSnapshot.
Send(c, sent, closing, stale) ==
    LET texts == [f \in Files |-> IF f \in sent THEN host[f] ELSE text[seq][f]]
        opened == (open[seq] \ closing) \cup {c}
    IN  /\ seq < MaxSnapshots
        /\ seq' = seq + 1
        /\ text' = [text EXCEPT ![seq + 1] = texts]
        /\ open' = [open EXCEPT ![seq + 1] = opened]
        /\ live' = (live \cup {seq + 1}) \ Disposed(c, stale)
        /\ lastSnap' = [lastSnap EXCEPT ![c] = seq + 1]
        /\ epoch' = EpochsAfter(texts, opened)
        /\ stable' = StableAfter(texts, opened)
        /\ kept' = {k \in kept : k.snap \in live'}

\* syncSnapshot: nothing to say, and the parameters that landed last.
Skips(c, steady, delta) ==
    /\ ~delta
    /\ lastSync[c].project # 0
    /\ lastSync[c].steady = steady
-----------------------------------------------------------------------------
(* A program is created                                                       *)

\* beginBuildProject: the project that gives way to c.
Closing(c) == IF mode = "build" /\ active \notin {c, NoConfig} THEN {active} ELSE {}

\* createTsgoProgram up to the first request of ensureProject.  A build asks
\* for the diagnostics ahead, so its requests are always sent.
CreateProgram(c, steady) ==
    LET closing == Closing(c)
        delta == Noticed(c) # {} \/ mode = "build"
    IN  /\ turn = Idle
        /\ seq + 2 <= MaxSnapshots
        /\ cache' = [d \in Configs |-> IF d \in closing \cup {c} THEN 0 ELSE cache[d]]
        /\ active' = IF mode = "build" THEN c ELSE NoConfig
        /\ IF Skips(c, steady, delta)
           THEN /\ turn' = [cfg |-> c, steady |-> steady, project |-> lastSync[c].project]
                /\ UNCHANGED <<sendVars, lastSync, built>>
           ELSE /\ Send(c, Noticed(c), closing, IF closing = {} THEN {} ELSE built)
                /\ turn' = [cfg |-> c, steady |-> steady, project |-> seq + 1]
                /\ lastSync' = [d \in Configs |->
                        IF d = c THEN [steady |-> steady, project |-> seq + 1]
                        ELSE IF d \in closing THEN NoSync ELSE lastSync[d]]
                /\ built' = IF mode = "build"
                            THEN (IF closing = {} THEN built ELSE {}) \cup {seq + 1} ELSE {}
        /\ UNCHANGED <<mode, host, memo, stray>>

\* An answer that is kept is given again to the project that fetched it, and
\* as long as the epoch stands.
Hit(k, c, project) ==
    LET m == memo[k][c]
    IN  /\ m.project # 0
        /\ \/ m.project = project
           \/ epoch[c] # 0 /\ m.epoch = epoch[c]

Fetched(k, c, project) ==
    IF Hit(k, c, project) THEN memo
    ELSE [memo EXCEPT ![k][c] = [epoch |-> epoch[c], project |-> project]]

\* The rest of ensureProject: the program is listed, what moved meanwhile is
\* sent, and the project becomes the current one.
LatePass ==
    LET c == turn.cfg
        more == Noticed(c)
    IN  /\ c # NoConfig
        /\ memo' = Fetched("names", c, turn.project)
        /\ IF more = {}
           THEN /\ cache' = [cache EXCEPT ![c] = turn.project]
                /\ UNCHANGED <<sendVars, lastSync, built>>
           ELSE /\ Send(c, more, {}, {})
                /\ cache' = [cache EXCEPT ![c] = seq + 1]
                /\ lastSync' = [lastSync EXCEPT
                        ![c] = [steady |-> turn.steady, project |-> seq + 1]]
                /\ built' = IF mode = "build" THEN built \cup {seq + 1} ELSE {}
        /\ turn' = Idle
        /\ UNCHANGED <<mode, host, active, stray>>
-----------------------------------------------------------------------------
(* A program is queried                                                       *)

\* pushHostOverlayToTsgo when it sends; the steady parameters differ from the
\* last ones when the query names a file that is not open.
Push(c, steady) ==
    LET sent == IF mode = "service" THEN Noticed(c) ELSE {}
    IN  /\ turn = Idle
        /\ cache[c] # 0
        /\ ~Skips(c, steady, sent # {})
        /\ Send(c, sent, {}, {})
        /\ cache' = [cache EXCEPT ![c] = seq + 1]
        /\ lastSync' = [lastSync EXCEPT ![c] = [steady |-> steady, project |-> seq + 1]]
        /\ built' = IF mode = "build" THEN built \cup {seq + 1} ELSE {}
        /\ UNCHANGED <<mode, host, memo, active, turn, stray>>

\* tsgoSourceFileNames, ensureBuilderMetaCurrent and tnbProgramInfo for the
\* current project of c.
Ask(k, c) ==
    /\ turn = Idle
    /\ cache[c] # 0
    /\ memo' = Fetched(k, c, cache[c])
    /\ UNCHANGED <<mode, host, sendVars, cache, lastSync, active, built, turn, stray>>

Tree(c, f, v) == [snap |-> cache[c], cfg |-> c, file |-> f, ver |-> v]
Retained(c, f) == \E k \in kept : k.snap = cache[c] /\ k.cfg = c /\ k.file = f

\* Mutant: a missing entry is served.
ReuseTree_Missing(c, f) ==
    /\ turn = Idle
    /\ cache[c] # 0
    /\ f \in FilesOf[c]
    /\ ~Retained(c, f)
    /\ kept' = kept \cup {Tree(c, f, stable[c][f])}
    /\ UNCHANGED <<mode, host, goVars, lastSnap, epoch, stable, cache, lastSync, memo,
                   active, built, turn, stray>>

\* getRetained serves the tree of another snapshot.
ReuseTree(c, f) ==
    /\ turn = Idle
    /\ cache[c] # 0
    /\ f \in FilesOf[c]
    /\ ~Retained(c, f)
    /\ stable[c][f] # NoTree
    /\ kept' = kept \cup {Tree(c, f, stable[c][f])}
    /\ UNCHANGED <<mode, host, goVars, lastSnap, epoch, stable, cache, lastSync, memo,
                   active, built, turn, stray>>

\* The getSourceFile request, and set().
FetchTree(c, f) ==
    /\ turn = Idle
    /\ cache[c] # 0
    /\ f \in FilesOf[c]
    /\ ~Retained(c, f)
    /\ stable[c][f] = NoTree
    /\ kept' = kept \cup {Tree(c, f, text[cache[c]][f])}
    /\ stable' = [stable EXCEPT ![c][f] = text[cache[c]][f]]
    /\ stray' = [stray EXCEPT ![c] =
            IF text[cache[c]][f] = text[seq][f] THEN @ \ {f} ELSE @ \cup {f}]
    /\ UNCHANGED <<mode, host, goVars, lastSnap, epoch, cache, lastSync, memo,
                   active, built, turn>>

\* The host's text changes: an edit, or a rewrite on disk, which alone can fall
\* between the two requests of a creation (then it is a file the late pass
\* compares, and no signal has come yet).
Rewrite(f) ==
    /\ host[f] < MaxVersion
    /\ turn # Idle => f \notin Signals
    /\ host' = [host EXCEPT ![f] = @ + 1]
    /\ UNCHANGED <<mode, sendVars, cache, lastSync, memo, active, built, turn, stray>>

Next ==
    \/ \E c \in Configs, s \in Steadies : CreateProgram(c, s) \/ Push(c, s)
    \/ LatePass
    \/ \E c \in Configs, k \in Answers : Ask(k, c)
    \/ \E c \in Configs, f \in Files : ReuseTree(c, f) \/ FetchTree(c, f)
    \/ \E f \in Files : Rewrite(f)

Spec == Init /\ [][Next]_vars
-----------------------------------------------------------------------------
(* What must hold                                                             *)

\* Go can always compare a new snapshot with the one before it: the session
\* still has the latest one.  Otherwise it would report no change at all, and
\* no kept tree or answer would be dropped.
LatestLive == seq # 0 => seq \in live

\* The current project of a config, the one a skipped synchronisation returns
\* and the one a creation works on are in a snapshot Go still has ("snapshot N
\* not found" otherwise), and the record agrees with the cache.
Usable(c, h) == h \in live /\ c \in open[h]
ProjectsUsable ==
    /\ \A c \in Configs :
        /\ lastSync[c].project # 0 => Usable(c, lastSync[c].project)
        /\ cache[c] # 0 => cache[c] = lastSync[c].project
    /\ turn # Idle => turn.project = lastSync[turn.cfg].project

\* A service keeps one snapshot per open project and a build one in all, with
\* the project being built as the only one open.
NoSnapshotLeak ==
    /\ mode = "service" => live = {lastSnap[c] : c \in Configs} \ {0}
    /\ mode = "build" /\ seq # 0 => live = {seq} /\ open[seq] = {active}

\* The answer was fetched through a snapshot older than the epoch it is kept
\* under, which another project's update had advanced meanwhile.
Mislabelled(k, c) == memo[k][c].project < memo[k][c].epoch

\* "Same epoch, same program, same answer": what a kept answer tells the current
\* project is its own program, however many projects have sent since, unless
\* that very answer is mislabelled.  The next report about the project advances
\* the epoch, which ends the exception.
AnswersExact ==
    \A c \in Configs, k \in Answers :
        cache[c] # 0 /\ Hit(k, c, cache[c]) /\ ~Mislabelled(k, c) =>
            \A f \in FilesOf[c] : text[memo[k][c].project][f] = text[cache[c]][f]

\* A service's kept tree is what the request would have returned, unless that
\* very tree was outdated when it was fetched.  The next report of the file
\* drops it, and fetching it again ends the exception.
TreesExact ==
    mode = "service" =>
        \A k \in kept : k.file \notin stray[k.cfg] => k.ver = text[k.snap][k.file]

\* What the projects see, for ProjectViews.
view ==
    [c \in Configs |->
        LET h == lastSync[c].project
        IN  IF h = 0 THEN NoView
            ELSE IF h \notin live THEN Lost
            ELSE [f \in FilesOf[c] |-> text[h][f]]]

\* Every step is one of ProjectViews: a synchronisation replaces the view of its
\* own project by what the host gives now, and moves no other.
Views == INSTANCE ProjectViews WITH
    Configs <- Configs, Files <- Files, FilesOf <- FilesOf, NoView <- NoView,
    host <- host, view <- view
ImplementsViews == Views!Spec

\* "Always refresh the tsgo snapshot so overlays match the latest host content":
\* the project a creation ends with shows the host's texts.
RefreshSeesHostText ==
    [][turn # Idle /\ turn' = Idle =>
        \A f \in FilesOf[turn.cfg] : text'[cache'[turn.cfg]][f] = host[f]]_vars
=============================================================================
