----------------------------- MODULE CheckerCaches -----------------------------
(* What a checker of the adapter keeps, and the snapshot it was asked of.     *)
(*                                                                            *)
(* createTsgoChecker gives each program a closure with the project it asks    *)
(* ("project"), memos of handles that only one Go snapshot knows ("gen"), and *)
(* source files and node indexes by position, which it keeps across its own   *)
(* synchronisations ("per-file scan caches").  Several programs of a language *)
(* service, of one tsconfig or of several, share the Go session: what one of  *)
(* them sends disposes the project last sent for the same tsconfig and moves  *)
(* the texts that the next snapshot of every other will show.  A call of a    *)
(* checker sets the process-wide project reference for its duration, and a    *)
(* type of another project leads into that project's checker meanwhile.       *)
(*                                                                            *)
(* As in ProjectSnapshots a text is its version number; the session holds the *)
(* snapshot recorded last for each tsconfig, no other (NoSnapshotLeak there). *)
(* The host creates programs and synchronises between calls; it edits and     *)
(* rewrites files at any time.                                                *)
EXTENDS Naturals, Sequences

CONSTANTS
    Configs,        \* paths of the tsconfig files
    Programs,       \* the program of each language service host
    ConfigOf,       \* the tsconfig of a program
    Files,          \* host file names
    FilesOf,        \* the files of each config's program
    Signals,        \* files the host reports changes of (closed files of tsserver)
    Probed,         \* files Go's own staleness probe reads again
    Steadies,       \* values of the parameters every send carries
    NoProgram, NoTree, NoMemo, NoSteady,
    MaxVersion,     \* bound: versions of a text
    MaxSnapshots,   \* bound: updateSnapshot calls
    MaxDepth        \* bound: calls inside one another

ASSUME CheckerAssumption ==
    /\ ConfigOf \in [Programs -> Configs]
    /\ FilesOf \in [Configs -> SUBSET Files]
    /\ Signals \subseteq Files
    /\ Probed \subseteq Files
    /\ NoProgram \notin Programs
    /\ NoTree \notin Nat
    /\ MaxVersion \in Nat
    /\ MaxSnapshots \in Nat
    /\ MaxDepth \in Nat
    /\ NoSteady \notin Steadies

Versions == 0..MaxVersion
Handles == 0..MaxSnapshots      \* 0: no snapshot
Trees == Versions \cup {NoTree}
Memos == [tree : Versions, snap : Handles]
ASSUME NoMemoAssumption == NoMemo \notin Memos

VARIABLES
    host,           \* version of the host's text
    text, seq,      \* per snapshot: the text of each file; the latest snapshot
    record,         \* _lastSyncByConfig, _projectCache: the project that landed last
    hook,           \* _overlaySyncByConfig: whose pushHostOverlayToTsgo it is
    project,        \* per program: "project", as the snapshot of it
    scan,           \* per program: tsgoSfCache, as the version of the tree
    nodes,          \* per program: nodeIndexCache and nodeAtPosCache
    gen,            \* per program: the memos of gen
    ref,            \* _currentProjectRef.project
    calls,          \* the checker calls in progress and what pushActiveProject saved
    elsewhere,      \* history: per program, files whose newest text came to Go with
                    \* the send of another, or by the probe, past a tree it keeps,
                    \* or whose tree it took from the project of another
    led             \* history: depths of the calls that looked up a native method
                    \* of another program's checker, and have not returned

programVars == <<project, scan, nodes, gen, elsewhere>>
vars == <<host, text, seq, record, hook, programVars, ref, calls, led>>

NoSync == [steady |-> NoSteady, snap |-> 0]
Frames == [prog : Programs, snap : Handles, saved : Handles]

TypeOK ==
    /\ host \in [Files -> Versions]
    /\ text \in [Handles -> [Files -> Versions]]
    /\ seq \in Handles
    /\ record \in [Configs -> [steady : Steadies \cup {NoSteady}, snap : Handles]]
    /\ hook \in [Configs -> Programs \cup {NoProgram}]
    /\ project \in [Programs -> Handles]
    /\ scan \in [Programs -> [Files -> Trees]]
    /\ nodes \in [Programs -> [Files -> Trees]]
    /\ gen \in [Programs -> [Files -> Memos \cup {NoMemo}]]
    /\ ref \in Handles
    /\ calls \in Seq(Frames)
    /\ elsewhere \in [Programs -> SUBSET Files]
    /\ led \subseteq 1..Len(calls)

Blank == [f \in Files |-> NoTree]
NoMemos == [f \in Files |-> NoMemo]

Init ==
    /\ host = [f \in Files |-> 0]
    /\ text = [h \in Handles |-> [f \in Files |-> 0]]
    /\ seq = 0
    /\ record = [c \in Configs |-> NoSync]
    /\ hook = [c \in Configs |-> NoProgram]
    /\ project = [p \in Programs |-> 0]
    /\ scan = [p \in Programs |-> Blank]
    /\ nodes = [p \in Programs |-> Blank]
    /\ gen = [p \in Programs |-> NoMemos]
    /\ ref = 0
    /\ calls = <<>>
    /\ elsewhere = [p \in Programs |-> {}]
    /\ led = {}
-----------------------------------------------------------------------------
(* updateSnapshot                                                             *)

Live == {record[c].snap : c \in Configs} \ {0}
Stale == {f \in Files : host[f] # text[seq][f]}

\* What a synchronisation of c carries: every signal of the process, and the
\* files of c whose text is not what Go was sent.
Noticed(c) == Stale \intersect (FilesOf[c] \cup Signals)

\* The send on behalf of c.  Go reads again what it is sent and, of the rest,
\* what its probe happens to notice.
Send(c, steady, sent, probed) ==
    /\ seq < MaxSnapshots
    /\ seq' = seq + 1
    /\ text' = [text EXCEPT ![seq + 1] =
                    [f \in Files |-> IF f \in sent \cup probed THEN host[f] ELSE text[seq][f]]]
    /\ record' = [record EXCEPT ![c] = [steady |-> steady, snap |-> seq + 1]]

Skips(c, steady, sent) ==
    sent = {} /\ record[c].snap # 0 /\ record[c].steady = steady

\* The other programs' trees of what a send moved are outdated in the next
\* snapshot, and so are p's own of what it did not send.
ElsewhereAfter(p, sent, probed) ==
    [q \in Programs |->
        IF q # p THEN elsewhere[q] \cup sent \cup probed
        ELSE {f \in elsewhere[p] \cup probed : f \notin sent /\ scan[p][f] # NoTree}]
-----------------------------------------------------------------------------
(* A program is created, and synchronised by its hook                         *)

\* createTsgoProgram and createTsgoChecker: nothing is kept of the program
\* before, and the hook of the tsconfig is now this one's.
Create(p, steady, probed) ==
    LET c == ConfigOf[p]
        sent == Noticed(c)
    IN  /\ calls = <<>>
        /\ probed \subseteq (Stale \intersect Probed) \ sent
        /\ IF Skips(c, steady, sent)
           THEN /\ probed = {}
                /\ UNCHANGED <<text, seq, record>>
                /\ elsewhere' = [elsewhere EXCEPT ![p] =
                        {f \in Files : text[record[c].snap][f] # text[seq][f]}]
           ELSE /\ Send(c, steady, sent, probed)
                /\ elsewhere' = [ElsewhereAfter(p, sent, probed) EXCEPT ![p] = {}]
        /\ project' = [project EXCEPT ![p] = record'[c].snap]
        /\ hook' = [hook EXCEPT ![c] = p]
        /\ ref' = record'[c].snap
        /\ scan' = [scan EXCEPT ![p] = Blank]
        /\ nodes' = [nodes EXCEPT ![p] = Blank]
        /\ gen' = [gen EXCEPT ![p] = NoMemos]
        /\ UNCHANGED <<host, calls, led>>

\* Mutant: a query in progress does not hold the synchronisation back.
MaySync_Always == TRUE

\* The depth of the calls in progress is 0.
MaySync == calls = <<>>

\* Mutant: the trees go, the nodes found in them stay.
NodesAfter_Kept(p, sent) == nodes[p]

NodesAfter(p, sent) == [f \in Files |-> IF f \in sent THEN NoTree ELSE nodes[p][f]]

\* Mutant: a send that carries no text leaves the memos.
MemosAfter_Content(p, sent) == IF sent = {} THEN gen[p] ELSE NoMemos

\* A new snapshot, content change or not, is a new generation.
MemosAfter(p, sent) == NoMemos

\* pushHostOverlayToTsgo, as the hook of c and the wire queries call it.  It
\* forgets the trees of the files that it sent itself.
Push(c, steady, probed) ==
    LET p == hook[c]
        sent == Noticed(c)
    IN  /\ MaySync
        /\ p # NoProgram
        /\ probed \subseteq (Stale \intersect Probed) \ sent
        /\ IF Skips(c, steady, sent)
           THEN /\ probed = {}
                /\ ref' = project[p]
                /\ UNCHANGED <<text, seq, record, programVars>>
           ELSE /\ Send(c, steady, sent, probed)
                /\ project' = [project EXCEPT ![p] = seq + 1]
                /\ ref' = seq + 1
                /\ scan' = [scan EXCEPT ![p] =
                        [f \in Files |-> IF f \in sent THEN NoTree ELSE scan[p][f]]]
                /\ nodes' = [nodes EXCEPT ![p] = NodesAfter(p, sent)]
                /\ gen' = [gen EXCEPT ![p] = MemosAfter(p, sent)]
                /\ elsewhere' = ElsewhereAfter(p, sent, probed)
        /\ UNCHANGED <<host, hook, calls, led>>
-----------------------------------------------------------------------------
(* A checker is called                                                        *)

Top == calls[Len(calls)]

\* ensureProject from outside a call, or from the proxy, at any depth, when a
\* method only the native checker has is looked up: before the wrapper saves
\* anything, so the reference stays there for the rest of the call around it.
EnsureProject(p) ==
    /\ project[p] # 0
    /\ ref' = project[p]
    /\ led' = IF calls = <<>> THEN {}
              ELSE IF Top.prog = p THEN led \ {Len(calls)} ELSE led \cup {Len(calls)}
    /\ UNCHANGED <<host, text, seq, record, hook, programVars, calls>>

\* wrapCheckerCall up to the method: from the client, or from the prototype
\* method of a type or signature, which asks the checker of its own project.
Call(p) ==
    /\ project[p] # 0
    /\ Len(calls) < MaxDepth
    /\ calls' = Append(calls, [prog |-> p, snap |-> project[p], saved |-> ref])
    /\ ref' = project[p]
    /\ UNCHANGED <<host, text, seq, record, hook, programVars, led>>

\* popActiveProject, also after an exception.
Return ==
    /\ calls # <<>>
    /\ ref' = Top.saved
    /\ calls' = SubSeq(calls, 1, Len(calls) - 1)
    /\ led' = led \ {Len(calls)}
    /\ UNCHANGED <<host, text, seq, record, hook, programVars>>

\* A node is found by its position and a handle asked for it: from the memos,
\* or through the node indexes, the kept tree, or a tree fetched from the
\* project that is the current one.  A disposed snapshot answers nothing, and a
\* project without the file has no tree of it.
Lookup(f) ==
    LET p == Top.prog
        fetches == nodes[p][f] = NoTree /\ scan[p][f] = NoTree
        tree == IF scan[p][f] # NoTree THEN scan[p][f] ELSE text[ref][f]
        node == IF nodes[p][f] # NoTree THEN nodes[p][f] ELSE tree
    IN  /\ calls # <<>>
        /\ f \in FilesOf[ConfigOf[p]]
        /\ project[p] \in Live
        /\ gen[p][f] = NoMemo
        /\ fetches => \E c \in Configs : record[c].snap = ref /\ f \in FilesOf[c]
        /\ scan' = IF nodes[p][f] # NoTree THEN scan ELSE [scan EXCEPT ![p][f] = tree]
        /\ nodes' = [nodes EXCEPT ![p][f] = node]
        /\ gen' = [gen EXCEPT ![p][f] = [tree |-> node, snap |-> project[p]]]
        /\ elsewhere' = IF fetches /\ tree # text[project[p]][f]
                        THEN [elsewhere EXCEPT ![p] = @ \cup {f}] ELSE elsewhere
        /\ UNCHANGED <<host, text, seq, record, hook, project, ref, calls, led>>
-----------------------------------------------------------------------------
(* The rest of the process                                                    *)

\* evictScanIndexes, when the process has been idle.
Evict ==
    /\ calls = <<>>
    /\ nodes' = [p \in Programs |-> Blank]
    /\ UNCHANGED <<host, text, seq, record, hook, project, scan, gen, elsewhere, ref, calls, led>>

\* The host's text of a file changes.
Rewrite(f) ==
    /\ host[f] < MaxVersion
    /\ host' = [host EXCEPT ![f] = @ + 1]
    /\ UNCHANGED <<text, seq, record, hook, programVars, ref, calls, led>>

Next ==
    \/ \E s \in Steadies, probed \in SUBSET Probed :
        \/ \E p \in Programs : Create(p, s, probed)
        \/ \E c \in Configs : Push(c, s, probed)
    \/ \E p \in Programs : EnsureProject(p) \/ Call(p)
    \/ \E f \in Files : Lookup(f) \/ Rewrite(f)
    \/ Return
    \/ Evict

Spec == Init /\ [][Next]_vars
-----------------------------------------------------------------------------
(* What must hold                                                             *)

\* Every handle that a checker remembers is of the snapshot it asks ("symbol
\* handle N not found in snapshot registry" otherwise), whoever has synchronised
\* in between, and whether or not its hook is still the tsconfig's.  The session
\* has that snapshot for the program last created for a tsconfig; what it has
\* for another host's program of the same tsconfig is not said.
MemosCurrent ==
    \A p \in Programs :
        /\ \A f \in Files : gen[p][f] # NoMemo => gen[p][f].snap = project[p]
        /\ hook[ConfigOf[p]] = p => project[p] \in Live

\* Every call in progress keeps the snapshot it began with, whatever it leads
\* into, and the process-wide reference is its project while it runs, except
\* that a look-up of another checker's native method moves it for the rest of
\* the call the look-up was made in.  Between calls the reference is a project
\* of the session, or that of a program which another host's has replaced.
RefRight ==
    /\ \A i \in 1..Len(calls) : calls[i].snap = project[calls[i].prog]
    /\ \A i \in 1..Len(calls) - 1 : i \notin led => calls[i + 1].saved = project[calls[i].prog]
    /\ calls # <<>> /\ Len(calls) \notin led => ref = project[Top.prog]
    /\ calls = <<>> /\ ref # 0 =>
        \/ ref \in Live
        \/ \E p \in Programs : hook[ConfigOf[p]] # p /\ project[p] = ref

\* The nodes a checker finds and has asked about are those of the text its
\* project shows, except in files whose newest text came to Go without it or
\* whose tree it took from another project; its own next send of such a file
\* ends the exception.
TreesOwn ==
    \A p \in Programs, f \in Files :
        project[p] # 0 /\ f \notin elsewhere[p] =>
            /\ nodes[p][f] \in {NoTree, text[project[p]][f]}
            /\ gen[p][f] # NoMemo => gen[p][f].tree = text[project[p]][f]
=============================================================================
