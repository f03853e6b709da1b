----------------------------- MODULE OverlaySync -----------------------------
(***************************************************************************)
(* How the text the host serves reaches the Go session.                    *)
(*                                                                         *)
(* The JS side (tsgoChecker.ts) keeps a mirror of the overlays it has      *)
(* pushed, the edits recorded since, a set of external-change signals and  *)
(* a disk stamp per file.  The Go side (api session and project layer)     *)
(* keeps the overlays themselves, a version per overlay and, for files     *)
(* without one, the first text it read from disk.  One synchronisation     *)
(* collects the host's texts, decides for every file between nothing, a    *)
(* delta and a full push, and sends an updateSnapshot.  The JS side runs   *)
(* to completion between the steps of its host; the disk is written by     *)
(* anybody at any time.                                                    *)
(***************************************************************************)
EXTENDS Integers, Sequences, Functions

CONSTANTS
    File,       \* the files of one tsconfig project
    Text,       \* the contents a file can have
    NoText,     \* no overlay, no disk file, text not loaded
    Edit,       \* host edits, as tsserver delivers them to ScriptInfo.editContent
    Splice,     \* Splice[t, e]: the text t after the edit e
    DiskFiles,  \* the files that exist on disk (existence is memoised per process)
    Roots,      \* the host's script file names
    Plain,      \* the files without a host-registered extra extension
    Virtual,    \* Virtual[t]: what the host serves for another file with text t
    Vendor,     \* the files under node_modules
    Probed,     \* the files whose rewrites Go's own staleness probe notices
    Imports,    \* Imports[f, t]: the files that f imports when its text is t
    Tabbed,     \* the files the client opens, or a direct host serves text for
    Server,     \* TRUE: tsserver with client tabs; FALSE: a direct CompilerHost
    MaxWrites,  \* bound: disk writes in a behaviour
    MaxEdits    \* bound: edits recorded for a file and not yet consumed

ASSUME TextAssumption == NoText \notin Text
ASSUME SpliceAssumption == Splice \in [Text \X Edit -> Text]
ASSUME VirtualAssumption == Virtual \in [Text -> Text]
ASSUME FilesAssumption ==
    /\ DiskFiles \subseteq File
    /\ Roots \subseteq File
    /\ Plain \subseteq File
    /\ Tabbed \subseteq File
    /\ Vendor \subseteq File
    /\ Probed \subseteq File \ Vendor
    /\ Imports \in [File \X Text -> SUBSET File]
ASSUME ServerAssumption == Server \in BOOLEAN
ASSUME BoundsAssumption == MaxWrites \in Nat /\ MaxEdits \in Nat

VARIABLES
    disk,     \* disk[f]: the text on disk
    dver,     \* dver[f]: identity of the last write (mtime, size and inode)
    info,     \* info[f]: the text the host has loaded for f
    reread,   \* the files whose ScriptInfo re-reads the disk at its next use
    tabs,     \* the files open in the client
    unheard,  \* files whose text changed without a signal since
    mirror,   \* _syncedOverlayContentByFile
    mver,     \* _syncedOverlayVersionByFile (0 when absent)
    pend,     \* _pendingOverlayEditsByFile
    ext,      \* _pendingExternalChangePaths
    stamp,    \* _diskStampByFile
    sent,     \* _sessionSentOpenTabs
    known,    \* _namesByConfig: the file names of the last program
    last,     \* _lastSyncByConfig: the steady parameters that landed
    phase,    \* where the synchronisation in progress stands
    pass,     \* the DiskStampPass and overlayCollected of this creation; for
              \* tsserver also, once it is over, what its late pass listed
    req,      \* the updateSnapshot request in flight
    settled,  \* kind of the last sync, "none" once the environment moved on
    asked,    \* the files that the query behind the last sync named
    overlay,  \* Go: the overlay text of a file
    gver,     \* Go: overlayVersions
    apiOpen,  \* Go: openFiles of the API session
    frozen,   \* Go: the text SnapshotFS cached for a file read from disk
    prog      \* Go: the files of the project's program

envVars == <<disk, dver, info, reread, tabs, unheard>>
goVars == <<overlay, gver, apiOpen, frozen, prog>>
mirrorVars == <<mirror, mver, pend>>
trackVars == <<stamp, sent, known, last, pass>>
vars == <<envVars, mirrorVars, ext, trackVars, phase, req, settled, asked, goVars>>

MaybeText == Text \union {NoText}
NoStamp == -1
Unordered == -2       \* UNORDERED_DISK_STAMP
NoVersion == -1       \* no entry in overlayVersions

NeverLoaded(f) == info[f] = NoText

\* What the host answers for f: its own text, or what is on disk, for a file
\* with an extra extension in the form the host gives it (Volar's virtual TS).
RawText(f) == IF NeverLoaded(f) \/ f \in reread THEN disk[f] ELSE info[f]
HostText(f) ==
    IF f \in Plain \/ RawText(f) = NoText THEN RawText(f) ELSE Virtual[RawText(f)]

\* What the checker in Go sees for f.
GoText(f) == IF overlay[f] = NoText THEN frozen[f] ELSE overlay[f]

\* Recorded edits spliced into a base text, first edit first.
ApplyEdits(base, edits) ==
    LET after[i \in 0..Len(edits)] ==
            IF i = 0 THEN base ELSE Splice[after[i - 1], edits[i]]
    IN  after[Len(edits)]

\* isOverlayCandidatePath: node_modules is left to the disk, except for the
\* extensions only the host can serve.
Candidate == {f \in File : f \notin Vendor \/ f \notin Plain}

NoRequest ==
    [full    |-> {}, delta |-> {}, text |-> [f \in File |-> NoText],
     edits   |-> [f \in File |-> <<>>], base |-> [f \in File |-> 0],
     changed |-> {}, closed |-> {}, open |-> {}, add |-> {}]

NoPass == [stamped |-> {}, collected |-> {}, start |-> [f \in File |-> 0]]

Init ==
    /\ disk \in [File -> MaybeText]
    /\ \A f \in File : disk[f] # NoText <=> f \in DiskFiles
    /\ dver = [f \in File |-> 0]
    /\ info = [f \in File |-> NoText]
    /\ reread = {} /\ tabs = {} /\ unheard = {}
    /\ mirror = [f \in File |-> NoText]
    /\ mver = [f \in File |-> 0]
    /\ pend = [f \in File |-> <<>>]
    /\ ext = {}
    /\ stamp = [f \in File |-> NoStamp]
    /\ sent = {} /\ known = {}
    /\ last = [landed |-> FALSE, open |-> {}, add |-> {}]
    /\ phase = "idle" /\ pass = NoPass /\ req = NoRequest /\ settled = "none" /\ asked = {}
    /\ overlay = [f \in File |-> NoText]
    /\ gver = [f \in File |-> NoVersion]
    /\ apiOpen = {} /\ prog = {}
    /\ frozen = [f \in File |-> NoText]

-----------------------------------------------------------------------------
(* The environment.  Tools write files behind everybody's back; tsserver    *)
(* opens, edits, reloads and closes tabs and hears of rewrites of closed    *)
(* files; a direct CompilerHost starts or stops serving a text of its own.  *)

WriteDisk(f, t) ==
    /\ f \in DiskFiles /\ t # disk[f] /\ SumFunction(dver) < MaxWrites
    /\ disk' = [disk EXCEPT ![f] = t]
    /\ dver' = [dver EXCEPT ![f] = @ + 1]
    /\ unheard' = unheard \union {f}
    /\ settled' = "none" /\ asked' = {}
    /\ UNCHANGED <<info, reread, tabs, mirrorVars, ext, trackVars, phase, req, goVars>>

HostStep ==
    /\ phase = "idle"
    /\ settled' = "none" /\ asked' = {}
    /\ UNCHANGED <<disk, dver, mirror, mver, trackVars, phase, req, goVars>>

\* ScriptInfo.open through TextStorage.reloadForOpen: a file that was never
\* loaded and is opened with its disk text is adopted without a signal.
OpenTab(f, t) ==
    LET adopted == NeverLoaded(f) /\ disk[f] = t
        reloaded == ~adopted /\ info[f] # t
    IN  /\ Server /\ HostStep
        /\ f \notin tabs
        /\ tabs' = tabs \union {f}
        /\ info' = [info EXCEPT ![f] = t]
        /\ reread' = reread \ {f}
        /\ ext' = IF reloaded THEN ext \union {f} ELSE ext
        /\ unheard' = IF reloaded THEN unheard \ {f} ELSE unheard \union {f}
        /\ UNCHANGED pend

\* ScriptInfo.editContent: the edit is recorded for a delta and signalled.
EditTab(f, e) ==
    /\ Server /\ HostStep
    /\ f \in tabs /\ Len(pend[f]) < MaxEdits
    /\ info' = [info EXCEPT ![f] = Splice[@, e]]
    /\ pend' = [pend EXCEPT ![f] = Append(@, e)]
    /\ ext' = ext \union {f}
    /\ unheard' = unheard \ {f}
    /\ UNCHANGED <<reread, tabs>>

\* TextStorage.reloadWithFileText on the client's reload command.
ReloadTab(f) ==
    /\ Server /\ HostStep
    /\ f \in tabs \intersect DiskFiles /\ info[f] # disk[f]
    /\ info' = [info EXCEPT ![f] = disk[f]]
    /\ ext' = ext \union {f}
    /\ unheard' = unheard \ {f}
    /\ UNCHANGED <<reread, tabs, pend>>

\* ScriptInfo.close: the text is read again when it is next asked for; the
\* script info of a file that is not on disk goes away.
CloseTab(f) ==
    /\ Server /\ HostStep
    /\ f \in tabs
    /\ tabs' = tabs \ {f}
    /\ reread' = IF f \in DiskFiles THEN reread \union {f} ELSE reread
    /\ info' = IF f \in DiskFiles THEN info ELSE [info EXCEPT ![f] = NoText]
    /\ unheard' = unheard \union {f}
    /\ UNCHANGED <<pend, ext>>

\* ProjectService.onSourceFileChanged, for files that are not open.
WatchEvent(f) ==
    /\ Server /\ HostStep
    /\ f \in DiskFiles \ tabs /\ dver[f] > 0
    /\ ext' = ext \union {f}
    /\ reread' = IF NeverLoaded(f) THEN reread ELSE reread \union {f}
    /\ unheard' = unheard \ {f}
    /\ UNCHANGED <<info, tabs, pend>>

\* A direct host begins to serve t for f, or (t = NoText) the disk again.
ServeText(f, t) ==
    /\ ~Server /\ HostStep
    /\ info[f] # t
    /\ info' = [info EXCEPT ![f] = t]
    /\ UNCHANGED <<reread, tabs, unheard, pend, ext>>

\* getSourceFile of a program whose host reads a text that is not on disk.
Materialize(f) ==
    /\ ~Server /\ HostStep
    /\ f \in prog \ ext /\ HostText(f) # disk[f]
    /\ ext' = ext \union {f}
    /\ UNCHANGED <<info, reread, tabs, unheard, pend>>

-----------------------------------------------------------------------------
(* planOverlayPush: what one synchronisation sends for the files S, judged  *)
(* by the host's text, the disk, the mirror and the recorded edits.         *)

\* shouldSendHostOverlay.
Diverges(f) == f \in Candidate /\ (disk[f] = NoText \/ disk[f] # HostText(f))

Served(S) == {f \in S \intersect Candidate : HostText(f) # NoText}

\* Mutant: the recorded edits are sent without checking what they give.
DeltaPush_Unchecked(S) ==
    {f \in Served(S) : Diverges(f) /\ mirror[f] \notin {NoText, HostText(f)}
                       /\ pend[f] # <<>> /\ f \in Plain}

DeltaPush(S) ==
    {f \in Served(S) :
        /\ Diverges(f)
        /\ mirror[f] \notin {NoText, HostText(f)}
        /\ pend[f] # <<>> /\ f \in Plain
        /\ ApplyEdits(mirror[f], pend[f]) = HostText(f)}

\* Everything else that differs from the mirror, text back at disk included.
FullPush(S) ==
    {f \in Served(S) \ DeltaPush(S) :
        /\ mirror[f] # HostText(f)
        /\ Diverges(f) \/ mirror[f] # NoText}

\* The host is back at disk: the mirror, its version and the edits go.
Released(S) == {f \in Served(S) : ~Diverges(f) /\ mirror[f] # NoText}

Consumed(S) == Released(S) \union {f \in Served(S) : Diverges(f)}

Pushed(S) == FullPush(S) \union DeltaPush(S)

\* The updateSnapshot parameters: the plan of S, the disk changes, the tabs to
\* close, and the steady part (open files, script names).
PlanRequest(S, changed, closed, open, add) ==
    [full    |-> FullPush(S),
     delta   |-> DeltaPush(S),
     text    |-> [f \in File |-> IF f \in Pushed(S) THEN HostText(f) ELSE NoText],
     edits   |-> [f \in File |-> IF f \in DeltaPush(S) THEN pend[f] ELSE <<>>],
     base    |-> [f \in File |-> IF f \in DeltaPush(S) THEN mver[f] ELSE 0],
     changed |-> changed, closed |-> closed, open |-> open, add |-> add]

\* Mutant: forgetting marks the version as Go does, with -1.
Forget_AsInGo(F, consumed) ==
    /\ mirror' = [f \in File |-> IF f \in F THEN NoText ELSE mirror[f]]
    /\ mver'   = [f \in File |-> IF f \in F THEN NoVersion ELSE mver[f]]
    /\ pend'   = [f \in File |-> IF f \in F \union consumed THEN <<>> ELSE pend[f]]

\* forgetSyncedOverlay for the files F, with the plan's consumption of edits.
Forget(F, consumed) ==
    /\ mirror' = [f \in File |-> IF f \in F THEN NoText ELSE mirror[f]]
    /\ mver'   = [f \in File |-> IF f \in F THEN 0 ELSE mver[f]]
    /\ pend'   = [f \in File |-> IF f \in F \union consumed THEN <<>> ELSE pend[f]]

\* The host texts a tsserver plan reads: a script info that has to (re)read
\* its file signals when that changes its text, too late for this drain.
Unread(S) ==
    IF Server THEN {f \in S \intersect Candidate \intersect DiskFiles : NeverLoaded(f) \/ f \in reread}
              ELSE {}
Reloaded(S) == {f \in Unread(S) : info[f] # disk[f]}
LoadTexts(S) ==
    /\ info' = [f \in File |-> IF f \in Unread(S) THEN disk[f] ELSE info[f]]
    /\ reread' = reread \ Unread(S)
    /\ unheard' = unheard \ Reloaded(S)
    /\ UNCHANGED <<disk, dver, tabs>>

\* drainExternalFileChanges: the part of the signals that rides
\* fileChanges.changed.
DrainedChanged(signals) == {f \in signals \intersect DiskFiles : mirror[f] = NoText}

\* Mutant: only deltas, changes and closes count as something to send.
NothingToSend_NoFull(r) ==
    /\ r.delta \union r.changed \union r.closed = {}
    /\ last = [landed |-> TRUE, open |-> r.open, add |-> r.add]

\* syncSnapshot: an empty delta under the steady parameters that landed last
\* is not sent.
NothingToSend(r) ==
    /\ r.full \union r.delta \union r.changed \union r.closed = {}
    /\ last = [landed |-> TRUE, open |-> r.open, add |-> r.add]

\* What a synchronisation that planned S does, up to its send: it is sending,
\* or done when nothing is left to send.
Synchronise(S, r, nothing, sending, done) ==
    /\ LoadTexts(S)
    /\ Forget(Released(S) \union r.closed, Consumed(S))
    /\ IF nothing THEN phase' = done /\ req' = NoRequest
                  ELSE phase' = sending /\ req' = r
    /\ UNCHANGED goVars

-----------------------------------------------------------------------------
(* Disk stamps of a direct createProgram.                                   *)

\* restampDiskFiles skips what this creation stamped and what is overlaid.
Stampable(F) == {f \in F \ pass.stamped : mirror[f] = NoText /\ f \in DiskFiles}
\* Mutant: only a stamp that could be ordered is compared.
StampMoved_Ordered(F) ==
    {f \in Stampable(F) : stamp[f] \notin {NoStamp, Unordered} /\ stamp[f] # dver[f]}
StampMoved(F) == {f \in Stampable(F) : stamp[f] # NoStamp /\ stamp[f] # dver[f]}

\* Mutant: a first stamp is always kept.
AgedFirstStamps_Any(F, start) == SUBSET {f \in Stampable(F) : stamp[f] = NoStamp}

\* A first stamp is kept only when the file is old enough to be ordered
\* against Go's read; a write since the creation began never is.
AgedFirstStamps(F, start) ==
    SUBSET {f \in Stampable(F) : stamp[f] = NoStamp /\ dver[f] = start[f]}

Restamped(F, aged) ==
    [f \in File |-> IF f \notin Stampable(F) THEN stamp[f]
                    ELSE IF stamp[f] # NoStamp \/ f \in aged THEN dver[f]
                    ELSE Unordered]

-----------------------------------------------------------------------------
(* The synchronisations.                                                    *)

ProgramNames == Roots \union tabs

\* contentCanDiverge, or an external-change signal.
CanDiverge(f, signals) ==
    \/ f \in signals \/ f \notin Plain \/ mirror[f] # NoText
    \/ f \notin DiskFiles \/ f \in tabs

\* The walk is skipped when no file can diverge.
CollectNeeded(signals) ==
    \/ Server \/ signals # {}
    \/ \E f \in File : mirror[f] # NoText
    \/ \E f \in ProgramNames : f \notin Plain \/ f \notin DiskFiles

\* createTsgoProgram up to the first updateSnapshot of ensureProject.
CreateProgram ==
    LET moved   == IF Server THEN {} ELSE StampMoved(known)
        signals == ext \union moved
        needed  == CollectNeeded(signals)
        walked  == IF needed THEN {f \in ProgramNames : CanDiverge(f, signals)} ELSE {}
        closed  == IF Server THEN sent \ tabs ELSE {}
        request == PlanRequest(walked, DrainedChanged(signals), closed,
                               IF Server THEN ProgramNames ELSE {}, ProgramNames)
    IN  /\ phase = "idle"
        /\ IF Server THEN stamp' = stamp /\ pass' = [pass EXCEPT !.collected = ProgramNames]
           ELSE \E aged \in AgedFirstStamps(known, dver) :
                    /\ stamp' = Restamped(known, aged)
                    /\ pass' = [stamped |-> known, start |-> dver,
                                collected |-> IF needed THEN ProgramNames ELSE {}]
        /\ ext' = Reloaded(walked)
        /\ Synchronise(walked, request, NothingToSend(request), "creating", "landed")
        /\ sent' = IF Server THEN tabs ELSE sent
        /\ settled' = "create" /\ asked' = {}
        /\ UNCHANGED <<known, last>>

\* ensureProject after its first updateSnapshot: the files only Go's listing
\* names are decided in a second one.
LatePass ==
    LET moved   == IF Server THEN {} ELSE StampMoved(prog)
        redecided == {f \in prog \ pass.collected :
                          ~Server /\ (mirror[f] # NoText \/ f \in moved)}
        virtual == {f \in prog \ Plain : mirror[f] = NoText}
        walked  == (redecided \union virtual) \intersect Candidate
        request == PlanRequest(walked, moved \ Pushed(walked), {}, last.open, last.add)
    IN  /\ phase = "landed"
        /\ IF Server THEN UNCHANGED stamp
           ELSE \E aged \in AgedFirstStamps(prog, pass.start) :
                    stamp' = Restamped(prog, aged)
        /\ pass' = [NoPass EXCEPT !.collected = IF Server THEN pass.collected \union prog ELSE {}]
        /\ known' = IF Server THEN known ELSE prog
        /\ ext' = ext \union Reloaded(walked)
        /\ Synchronise(walked, request, Pushed(walked) \union moved = {}, "syncing", "idle")
        /\ UNCHANGED <<sent, last, settled, asked>>

\* Mutant: a file that is overlaid already is not looked at again.
QueryNames_Once(named) ==
    (IF Server THEN ProgramNames ELSE {}) \union {f \in named : mirror[f] = NoText}

\* What a query on the files in named plans: in tsserver the program's names too.
QueryNames(named) == (IF Server THEN ProgramNames ELSE {}) \union named

\* pushHostOverlayToTsgo for a query on the files in named (one, or none when the
\* language service only revalidates its program).  tsserver reuses a program
\* only while its root names, tabs included, are those it was created with.
PushOverlay(named) ==
    LET names   == QueryNames(named)
        request == PlanRequest(names, DrainedChanged(ext), {}, names, last.add)
    IN  /\ phase = "idle" /\ last.landed
        /\ named \subseteq prog
        /\ IF Server THEN last.add = ProgramNames ELSE named # {}
        /\ ext' = Reloaded(names)
        /\ Synchronise(names, request,
                       NothingToSend(request) \/ (names = {} /\ request.changed = {}),
                       "syncing", "idle")
        /\ settled' = "push" /\ asked' = named
        /\ UNCHANGED trackVars

-----------------------------------------------------------------------------
(* Go: handleUpdateSnapshot, and the commit of the mirror that follows it.  *)

Entries(r) == r.full \union r.delta

\* CloseFiles releases only what the session holds.
HeldClosed(r) == r.closed \intersect apiOpen

\* applyOverlayEdits: the base must be the text the client thinks Go holds.
Accepts(r, f) ==
    f \notin HeldClosed(r) /\ gver[f] = r.base[f] /\ overlay[f] # NoText

\* Mutant: a closed file keeps the overlay that nothing re-opens.
OverlayAfter_Kept(r, f) ==
    IF f \in r.full THEN r.text[f]
    ELSE IF f \in r.delta THEN ApplyEdits(overlay[f], r.edits[f])
    ELSE overlay[f]

\* Closes are processed before opens.
OverlayAfter(r, f) ==
    IF f \in r.full THEN r.text[f]
    ELSE IF f \in r.delta THEN ApplyEdits(overlay[f], r.edits[f])
    ELSE IF f \in HeldClosed(r) /\ gver[f] # NoVersion THEN NoText
    ELSE overlay[f]

\* Mutant: a full push counts as one more version.
VersionAfter_Bumped(r, f) ==
    IF f \in r.full \union r.delta THEN gver[f] + 1
    ELSE IF f \in HeldClosed(r) THEN NoVersion
    ELSE gver[f]

VersionAfter(r, f) ==
    IF f \in r.full THEN 0
    ELSE IF f \in r.delta THEN gver[f] + 1
    ELSE IF f \in HeldClosed(r) THEN NoVersion
    ELSE gver[f]

\* Files whose SnapshotFS entry is dropped: listed as changed, closed, or
\* found stale by the probe that runs in every Clone.
Dropped(r) ==
    r.changed \union HeldClosed(r)
    \union {f \in Probed : frozen[f] \notin {NoText, disk[f]}}

\* The text of f once the drops are done, should the program read it.
TextAfter(r, f) ==
    IF overlay'[f] # NoText THEN overlay'[f]
    ELSE IF frozen[f] = NoText \/ f \in Dropped(r) THEN disk[f]
    ELSE frozen[f]

\* The program: script names and API-open files (updateAPIRootFiles) with all
\* that they import, as far as it can be read.
ProgramAfter(r) ==
    LET text     == [f \in File |-> TextAfter(r, f)]
        imported == [f \in File |-> IF text[f] = NoText THEN {} ELSE Imports[f, text[f]]]
        closed   == {P \in SUBSET File : /\ r.add \union apiOpen' \subseteq P
                                        /\ \A f \in P : imported[f] \subseteq P}
    IN  {f \in File : text[f] # NoText /\ \A P \in closed : f \in P}

FrozenAfter(r, f) ==
    IF overlay'[f] = NoText /\ f \in prog' THEN TextAfter(r, f)
    ELSE IF f \in Dropped(r) THEN NoText
    ELSE frozen[f]

\* commitSyncedOverlay.
Commit(r) ==
    /\ mirror' = [f \in File |->
                     IF f \in r.full THEN r.text[f]
                     ELSE IF f \in r.delta THEN ApplyEdits(mirror[f], r.edits[f])
                     ELSE mirror[f]]
    /\ mver' = [f \in File |->
                   IF f \in r.full THEN 0
                   ELSE IF f \in r.delta THEN mver[f] + 1
                   ELSE mver[f]]

UpdateSnapshot ==
    /\ phase \in {"creating", "syncing"}
    /\ \A f \in req.delta : Accepts(req, f)
    /\ overlay' = [f \in File |-> OverlayAfter(req, f)]
    /\ gver' = [f \in File |-> VersionAfter(req, f)]
    /\ apiOpen' = (apiOpen \union req.open \union Entries(req)) \ HeldClosed(req)
    /\ last' = [landed |-> TRUE, open |-> req.open, add |-> req.add]
    /\ prog' = ProgramAfter(req)
    /\ frozen' = [f \in File |-> FrozenAfter(req, f)]
    /\ Commit(req)
    /\ phase' = IF phase = "creating" THEN "landed" ELSE "idle"
    /\ req' = NoRequest
    /\ UNCHANGED <<envVars, pend, ext, stamp, sent, known, pass, settled, asked>>

\* tsgoSourceFileNames: a consumer of a direct program lists its files anew.
ListFiles ==
    /\ ~Server /\ phase = "idle" /\ known # prog
    /\ known' = prog
    /\ UNCHANGED <<envVars, mirrorVars, ext, stamp, sent, last, pass, phase, req, settled, asked, goVars>>

-----------------------------------------------------------------------------
Environment ==
    \/ \E f \in File : Materialize(f) \/ WatchEvent(f)
    \/ \E f \in File, t \in Text : WriteDisk(f, t)
    \/ \E f \in Tabbed :
          \/ ReloadTab(f) \/ CloseTab(f)
          \/ \E t \in Text : OpenTab(f, t)
          \/ \E e \in Edit : EditTab(f, e)
          \/ \E t \in MaybeText : ServeText(f, t)

Sync ==
    \/ CreateProgram
    \/ LatePass
    \/ PushOverlay({})
    \/ \E f \in File : PushOverlay({f})
    \/ UpdateSnapshot
    \/ ListFiles

Next == Environment \/ Sync

Spec == Init /\ [][Next]_vars
-----------------------------------------------------------------------------
(* Properties. *)

Request == [full : SUBSET File, delta : SUBSET File, text : [File -> MaybeText],
            edits : [File -> Seq(Edit)], base : [File -> Nat],
            changed : SUBSET File, closed : SUBSET File,
            open : SUBSET File, add : SUBSET File]

\* Every variable stays in the set its code counterpart ranges over; in
\* particular a delta spliced into Go's overlay yields a content of the file.
TypeOK ==
    /\ disk \in [File -> MaybeText] /\ dver \in [File -> Nat]
    /\ info \in [File -> MaybeText]
    /\ reread \subseteq File /\ tabs \subseteq File /\ unheard \subseteq File
    /\ mirror \in [File -> MaybeText] /\ mver \in [File -> Nat]
    /\ pend \in [File -> Seq(Edit)] /\ ext \subseteq File
    /\ stamp \in [File -> Nat \union {NoStamp, Unordered}]
    /\ sent \subseteq File /\ known \subseteq File
    /\ last \in [landed : BOOLEAN, open : SUBSET File, add : SUBSET File]
    /\ phase \in {"idle", "creating", "landed", "syncing"}
    /\ pass \in [stamped : SUBSET File, collected : SUBSET File, start : [File -> Nat]]
    /\ req \in Request
    /\ settled \in {"none", "create", "push"} /\ asked \subseteq File
    /\ overlay \in [File -> MaybeText] /\ gver \in [File -> Nat \union {NoVersion}]
    /\ apiOpen \subseteq File /\ prog \subseteq File
    /\ frozen \in [File -> MaybeText]

\* The mirror is exact: a file the JS side believes overlaid is overlaid in Go
\* with that very text and at that version (tsgoChecker.ts:1065-1070).
MirrorExact ==
    \A f \in File : mirror[f] # NoText => overlay[f] = mirror[f] /\ gver[f] = mver[f]

\* A delta meets the base it was made for: whatever happened between planning and
\* sending, closes in the same request included, the baseVersion tripwire holds
\* and the splice gives the host's text (session_bridge.go applyOverlayEdits).
\* Here every edit is in range; OverlayEdits has those that are not.
DeltaAccepted ==
    \A f \in req.delta : Accepts(req, f) /\ ApplyEdits(overlay[f], req.edits[f]) = req.text[f]

Quiet == phase = "idle" /\ settled # "none"

\* After a synchronisation, a tab with unsaved text is checked with that text.
UnsavedReachesGo ==
    Server /\ Quiet =>
        \A f \in tabs \intersect Candidate : HostText(f) # disk[f] => GoText(f) = HostText(f)

\* An overlay the JS side has forgotten but Go still holds.
Ghost(f) == overlay[f] # NoText /\ mirror[f] = NoText

Heard(f) == f \notin unheard \union ext

\* What the last synchronisation looked at: the script names and tabs, and the
\* files that the query behind it named.
Planned == ProgramNames \union asked

\* Once the host has signalled a change and synchronised, Go serves the host's
\* text: for what the synchronisation plans, also when an earlier drain took the
\* signal away from a file that a query had overlaid (tsgoChecker.ts:1121), and for
\* what Go reads from disk, ghosts left aside.  An overlay of a file that is not
\* planned is as old as the last query on it; a file with an extra extension that
\* is not planned is only looked at by the late pass of a creation
\* (tsgoChecker.ts:8447-8498), once.
HeardReachesGo ==
    Server /\ Quiet =>
        \A f \in prog \intersect Candidate :
            ( /\ Heard(f) /\ ~Ghost(f)
              /\ f \in Planned \/ mirror[f] = NoText
              /\ f \in Planned \union Plain \/ (settled = "create" /\ f \in pass.collected) )
            => GoText(f) = HostText(f)

\* A tab the client closed gives up its overlay and its root with the next
\* program, unless the same request opens it again.
ClosedTabReleased ==
    [][\A f \in File : UpdateSnapshot /\ f \in req.closed \ (Entries(req) \union req.open)
            => overlay'[f] = NoText /\ f \notin apiOpen']_vars

\* The files in every program of the host, whatever the text of the files on disk
\* that lead to them: what only some texts import, or a file that is not there, can
\* enter a program through a query, between two creations, when no stamp is taken
\* of it; a rewrite before its first stamp is lost.
Steady ==
    {f \in File :
        \A P \in SUBSET File :
            /\ Roots \subseteq P
            /\ \A g \in P \intersect DiskFiles, h \in File : (\A t \in Text : h \in Imports[g, t]) => h \in P
            => f \in P}

\* A direct program creation leaves no stale text behind it in the steady files:
\* what Go read before a rewrite is re-read, and the host's own text wins over
\* both (restampDiskFiles, and the late pass that repeats it on Go's listing).  A
\* file neither the host nor the disk has a text of keeps the one Go was sent last.
DirectServed ==
    ~Server /\ phase = "idle" /\ settled = "create" =>
        \A f \in prog \intersect Steady :
            (NeverLoaded(f) \/ mirror[f] # NoText) /\ ~Ghost(f) /\ HostText(f) # NoText
            => GoText(f) = HostText(f)

\* Go's disk text of f is outdated, and the next creation would not see it.
RewriteLost(f) ==
    /\ overlay[f] = NoText /\ frozen[f] # disk[f]
    /\ stamp[f] = dver[f] /\ f \notin ext

\* A rewrite of a steady file behind a direct host is never lost: whenever Go
\* holds an outdated text of it, the stamp still differs from the file's, so
\* the next creation sees it (restampDiskFiles, diskStampOf).
NoSteadyRewriteLost ==
    ~Server /\ phase = "idle" => \A f \in prog \intersect Steady : ~RewriteLost(f)

\* Claimed by tools/triage-external-edits.mjs:3-4 and by the comment at
\* tsgoChecker.ts:1231-1235: a tab whose file is rewritten on disk, and whose
\* change the host signals, is checked with the text the host now serves.
RewriteReachesTabs ==
    Server /\ Quiet =>
        \A f \in tabs \intersect Candidate : Heard(f) => GoText(f) = HostText(f)
=============================================================================
