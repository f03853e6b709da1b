-------------------------- MODULE OverlaySyncProofs --------------------------
(***************************************************************************)
(* For every value of the constants, the mirror that the JS side keeps of   *)
(* Go's overlays is exact and Go refuses no delta.                         *)
(*                                                                         *)
(* Neither is inductive.  A delta in flight must still fit the mirror, and  *)
(* a file that the same request closes must not carry one: that is so       *)
(* because edits outlive a tab only together with a pending re-read of the  *)
(* disk, which makes the host text of a plain file equal to the disk.       *)
(***************************************************************************)
EXTENDS OverlaySync, TLAPS

\* The memo of disk existence is right.
DiskKept == \A f \in File : disk[f] # NoText <=> f \in DiskFiles

\* The script info of an open tab holds a text.
TabsLoaded == \A f \in tabs : info[f] # NoText

\* Edits left behind by a closed tab: its overlay is gone, or the host has
\* yet to read the disk.
LeftEdits ==
    \A f \in File : f \notin tabs /\ pend[f] # <<>> /\ mirror[f] # NoText
                        => NeverLoaded(f) \/ f \in reread

\* Only tsserver has tabs and records edits.
ServerOnly == ~Server => tabs = {} /\ \A f \in File : pend[f] = <<>>

\* What is in flight fits the mirror it was planned from.
InFlight ==
    /\ phase \in {"idle", "landed"} => req = NoRequest
    /\ \A f \in Entries(req) : req.text[f] \in Text /\ pend[f] = <<>>
    /\ \A f \in req.delta :
          /\ mirror[f] # NoText /\ req.base[f] = mver[f]
          /\ ApplyEdits(mirror[f], req.edits[f]) = req.text[f]
    /\ \A f \in req.closed : mirror[f] = NoText

IInv ==
    /\ TypeOK /\ MirrorExact
    /\ DiskKept /\ TabsLoaded /\ LeftEdits /\ ServerOnly /\ InFlight

USE TextAssumption, SpliceAssumption, VirtualAssumption, FilesAssumption, ServerAssumption, BoundsAssumption

-----------------------------------------------------------------------------
(* What the operators of a plan return. *)

LEMMA NoRequestType == NoRequest \in Request /\ NoPass \in [stamped : SUBSET File, collected : SUBSET File, start : [File -> Nat]]
  <1>1. \A f \in File : <<>> \in Seq(Edit)
    OBVIOUS
  <1> QED  BY <1>1 DEF NoRequest, Request, NoPass, MaybeText

\* The host answers with a text of the file, or with none.
LEMMA HostTextType == ASSUME TypeOK, NEW f \in File
                      PROVE  HostText(f) \in MaybeText
  <1>1. RawText(f) \in MaybeText
    BY DEF TypeOK, RawText
  <1> QED  BY <1>1 DEF HostText, MaybeText

LEMMA PlanType ==
    ASSUME TypeOK, NEW S \in SUBSET File, NEW X \in SUBSET File, NEW C \in SUBSET File,
           NEW O \in SUBSET File, NEW A \in SUBSET File
    PROVE  PlanRequest(S, X, C, O, A) \in Request
  <1>1. FullPush(S) \subseteq File /\ DeltaPush(S) \subseteq File
    BY DEF FullPush, DeltaPush, Served
  <1>2. \A f \in File : HostText(f) \in MaybeText
    BY HostTextType
  <1>3. \A f \in File : pend[f] \in Seq(Edit) /\ <<>> \in Seq(Edit) /\ mver[f] \in Nat
    BY DEF TypeOK
  <1> QED  BY <1>1, <1>2, <1>3 DEF PlanRequest, Request, MaybeText

\* Every entry of a plan carries a text and consumes the file's edits.
LEMMA PlanEntries ==
    ASSUME TypeOK, NEW S \in SUBSET File, NEW f \in Pushed(S)
    PROVE  f \in File /\ f \in Consumed(S) /\ HostText(f) \in Text
  <1>1. f \in Served(S) /\ f \in File
    BY DEF Pushed, FullPush, DeltaPush, Served
  <1>2. HostText(f) \in Text
    BY <1>1, HostTextType DEF Served, MaybeText
  <1>3. f \in Consumed(S)
    BY <1>1 DEF Pushed, FullPush, DeltaPush, Consumed, Released
  <1> QED  BY <1>1, <1>2, <1>3

\* A delta of a plan fits the mirror, which keeps the file; it never is for a
\* tab that the client has closed.
LEMMA PlanDelta ==
    ASSUME IInv, NEW S \in SUBSET File, NEW f \in DeltaPush(S)
    PROVE  /\ f \in File /\ mirror[f] # NoText /\ f \notin Released(S)
           /\ ApplyEdits(mirror[f], pend[f]) = HostText(f)
           /\ Server => f \in tabs
  <1>1. f \in File /\ f \in Served(S) /\ Diverges(f) /\ mirror[f] # NoText
        /\ pend[f] # <<>> /\ f \in Plain
        /\ ApplyEdits(mirror[f], pend[f]) = HostText(f)
    BY DEF DeltaPush, Served
  <1>2. f \notin Released(S)
    BY <1>1 DEF Released
  <1>3. ASSUME Server, f \notin tabs
        PROVE  FALSE
    <2>1. RawText(f) = disk[f]
      BY <1>1, <1>3 DEF IInv, LeftEdits, RawText
    <2>2. HostText(f) = disk[f]
      BY <2>1, <1>1 DEF HostText
    <2> QED  BY <2>2, <1>1 DEF Diverges, Served
  <1> QED  BY <1>1, <1>2, <1>3

-----------------------------------------------------------------------------
(* What every synchronisation does: it plans S, forgets what the plan gives *)
(* back and what the client closed, and sends at most the plan.             *)

SyncOf(S, X, C, O, A) ==
    /\ LoadTexts(S)
    /\ Forget(Released(S) \union C, Consumed(S))
    /\ \/ req' = PlanRequest(S, X, C, O, A) /\ phase' \in {"creating", "syncing"}
       \/ req' = NoRequest /\ phase' \in {"idle", "landed"}
    /\ UNCHANGED goVars

\* Texts, mirror, edits and request stay in their sets.
LEMMA SyncType ==
    ASSUME TypeOK, NEW S \in SUBSET File, NEW X \in SUBSET File, NEW C \in SUBSET File,
           NEW O \in SUBSET File, NEW A \in SUBSET File, SyncOf(S, X, C, O, A)
    PROVE  /\ disk' \in [File -> MaybeText] /\ dver' \in [File -> Nat]
           /\ info' \in [File -> MaybeText]
           /\ reread' \subseteq File /\ tabs' \subseteq File /\ unheard' \subseteq File
           /\ mirror' \in [File -> MaybeText] /\ mver' \in [File -> Nat]
           /\ pend' \in [File -> Seq(Edit)]
           /\ req' \in Request
           /\ phase' \in {"idle", "creating", "landed", "syncing"}
  <1>1. req' \in Request
    BY PlanType, NoRequestType DEF SyncOf
  <1>2. info' \in [File -> MaybeText] /\ reread' \subseteq File /\ unheard' \subseteq File
        /\ UNCHANGED <<disk, dver, tabs>>
    BY DEF SyncOf, LoadTexts, TypeOK
  <1>3. mirror' \in [File -> MaybeText] /\ mver' \in [File -> Nat]
        /\ pend' \in [File -> Seq(Edit)]
    <2>1. <<>> \in Seq(Edit)
      OBVIOUS
    <2> QED  BY <2>1 DEF SyncOf, Forget, TypeOK, MaybeText
  <1> QED  BY <1>1, <1>2, <1>3 DEF SyncOf, TypeOK

\* The mirror only loses files, so it stays exact.
LEMMA SyncMirror ==
    ASSUME IInv, NEW S \in SUBSET File, NEW X \in SUBSET File, NEW C \in SUBSET File,
           NEW O \in SUBSET File, NEW A \in SUBSET File, SyncOf(S, X, C, O, A)
    PROVE  MirrorExact'
  BY DEF IInv, MirrorExact, SyncOf, Forget, goVars

\* A re-read that ends the excuse of leftover edits also consumes them.
LEMMA SyncTexts ==
    ASSUME IInv, NEW S \in SUBSET File, NEW X \in SUBSET File, NEW C \in SUBSET File,
           NEW O \in SUBSET File, NEW A \in SUBSET File, SyncOf(S, X, C, O, A)
    PROVE  DiskKept' /\ TabsLoaded' /\ LeftEdits' /\ ServerOnly'
  <1>1. UNCHANGED <<disk, tabs>>
        /\ reread' = reread \ Unread(S)
        /\ \A f \in File : info'[f] = IF f \in Unread(S) THEN disk[f] ELSE info[f]
    BY DEF SyncOf, LoadTexts
  <1>2. \A f \in File :
            /\ mirror'[f] # NoText => mirror[f] = mirror'[f] /\ f \notin Released(S)
            /\ pend'[f] # <<>> => pend[f] = pend'[f] /\ f \notin Consumed(S)
    BY DEF SyncOf, Forget
  <1>3. DiskKept'
    BY <1>1 DEF IInv, DiskKept
  <1>4. TabsLoaded'
    BY <1>1, <1>3 DEF IInv, TypeOK, TabsLoaded, DiskKept, Unread
  <1>5. ServerOnly'
    BY <1>1, <1>2 DEF IInv, ServerOnly
  <1>6. ASSUME NEW f \in File, f \notin tabs', pend'[f] # <<>>, mirror'[f] # NoText
        PROVE  NeverLoaded(f)' \/ f \in reread'
    <2>1. NeverLoaded(f) \/ f \in reread
      BY <1>1, <1>2, <1>6 DEF IInv, LeftEdits
    <2>2. CASE f \notin Unread(S)
      BY <2>1, <2>2, <1>1 DEF NeverLoaded
    <2>3. CASE f \in Unread(S)
      <3>1. f \in S \intersect Candidate /\ disk[f] # NoText
        BY <2>3 DEF Unread, IInv, DiskKept
      <3>2. RawText(f) = disk[f]
        BY <2>1 DEF RawText
      <3>3. disk[f] \in Text
        BY <3>1 DEF IInv, TypeOK, MaybeText
      <3>4. HostText(f) # NoText
        BY <3>1, <3>2, <3>3 DEF HostText
      <3>5. f \in Served(S)
        BY <3>1, <3>4 DEF Served
      <3>6. f \in Consumed(S)
        BY <3>5, <1>2, <1>6 DEF Consumed, Released
      <3> QED  BY <3>6, <1>2, <1>6
    <2> QED  BY <2>2, <2>3
  <1> QED  BY <1>3, <1>4, <1>5, <1>6 DEF LeftEdits

\* What is sent fits the mirror that is left.
LEMMA SyncInFlight ==
    ASSUME IInv, NEW S \in SUBSET File, NEW X \in SUBSET File, NEW C \in SUBSET File,
           NEW O \in SUBSET File, NEW A \in SUBSET File, SyncOf(S, X, C, O, A),
           C = {} \/ (Server /\ C \intersect tabs = {})
    PROVE  InFlight'
  <1>1. CASE req' = NoRequest /\ phase' \in {"idle", "landed"}
    BY <1>1 DEF InFlight, NoRequest, Entries
  <1>2. CASE req' = PlanRequest(S, X, C, O, A) /\ phase' \in {"creating", "syncing"}
    <2>1. /\ req'.full = FullPush(S) /\ req'.delta = DeltaPush(S) /\ req'.closed = C
          /\ \A f \in File : req'.text[f] = IF f \in Pushed(S) THEN HostText(f) ELSE NoText
          /\ \A f \in DeltaPush(S) \intersect File : req'.edits[f] = pend[f] /\ req'.base[f] = mver[f]
      BY <1>2 DEF PlanRequest
    <2>2. \A f \in File :
              /\ mirror'[f] = IF f \in Released(S) \union C THEN NoText ELSE mirror[f]
              /\ mver'[f] = IF f \in Released(S) \union C THEN 0 ELSE mver[f]
              /\ f \in Consumed(S) => pend'[f] = <<>>
      BY DEF SyncOf, Forget
    <2>3. ASSUME NEW f \in Entries(req')
          PROVE  req'.text[f] \in Text /\ pend'[f] = <<>>
      <3>1. f \in Pushed(S)
        BY <2>1 DEF Entries, Pushed
      <3> QED  BY <3>1, <2>1, <2>2, PlanEntries DEF IInv
    <2>4. ASSUME NEW f \in req'.delta
          PROVE  /\ mirror'[f] # NoText /\ req'.base[f] = mver'[f]
                 /\ ApplyEdits(mirror'[f], req'.edits[f]) = req'.text[f]
      <3>1. f \in DeltaPush(S) /\ f \in Pushed(S)
        BY <2>1 DEF Pushed
      <3>2. /\ f \in File /\ mirror[f] # NoText /\ f \notin Released(S)
            /\ ApplyEdits(mirror[f], pend[f]) = HostText(f)
            /\ Server => f \in tabs
        BY <3>1, PlanDelta
      <3>3. mirror'[f] = mirror[f] /\ mver'[f] = mver[f]
        BY <3>2, <2>2
      <3>4. req'.edits[f] = pend[f] /\ req'.base[f] = mver[f] /\ req'.text[f] = HostText(f)
        BY <3>1, <3>2, <2>1
      <3> QED  BY <3>2, <3>3, <3>4
    <2>5. \A f \in req'.closed : mirror'[f] = NoText
      BY <2>1, <2>2
    <2> QED  BY <1>2, <2>3, <2>4, <2>5 DEF InFlight, Entries
  <1> QED  BY <1>1, <1>2 DEF SyncOf

-----------------------------------------------------------------------------
(* The three synchronisations are instances of it. *)

\* A creation plans every tab, closes none that is open, and skips its send
\* only when nothing is pushed.
LEMMA CreateSyncs ==
    ASSUME TypeOK, CreateProgram
    PROVE  \E S, X, C, O, A \in SUBSET File :
              /\ SyncOf(S, X, C, O, A)
              /\ C = {} \/ (Server /\ C \intersect tabs = {})
              /\ Server => tabs \subseteq S
              /\ req' = NoRequest => Pushed(S) = {}
  <1> DEFINE moved   == IF Server THEN {} ELSE StampMoved(known)
             signals == ext \union moved
             needed  == CollectNeeded(signals)
             walked  == IF needed THEN {f \in ProgramNames : CanDiverge(f, signals)} ELSE {}
             closed  == IF Server THEN sent \ tabs ELSE {}
             opened  == IF Server THEN ProgramNames ELSE {}
             request == PlanRequest(walked, DrainedChanged(signals), closed, opened, ProgramNames)
             nothing == NothingToSend(request)
  <1>1. ProgramNames \subseteq File /\ tabs \subseteq File
    BY DEF ProgramNames, TypeOK
  <1>2. walked \in SUBSET File /\ closed \in SUBSET File /\ opened \in SUBSET File
        /\ DrainedChanged(signals) \in SUBSET File
    BY <1>1 DEF TypeOK, DrainedChanged
  <1>3. Synchronise(walked, request, nothing, "creating", "landed")
    BY DEF CreateProgram
  <1>4. request.closed = closed /\ request.full \union request.delta = Pushed(walked)
    BY DEF PlanRequest, Pushed
  <1> HIDE DEF moved, signals, needed, closed, opened, request, nothing
  <1>5. SyncOf(walked, DrainedChanged(signals), closed, opened, ProgramNames)
    <2>1. request = PlanRequest(walked, DrainedChanged(signals), closed, opened, ProgramNames)
      BY DEF request
    <2> HIDE DEF walked
    <2> QED  BY <1>3, <1>4, <2>1 DEF Synchronise, SyncOf
  <1>6. closed = {} \/ (Server /\ closed \intersect tabs = {})
    BY DEF closed
  <1>7. Server => tabs \subseteq walked
    BY DEF needed, CollectNeeded, ProgramNames, CanDiverge
  <1>8. req' = NoRequest => Pushed(walked) = {}
    <2> HIDE DEF walked
    <2>1. CASE nothing
      BY <2>1, <1>4 DEF nothing, NothingToSend
    <2>2. CASE ~nothing
      <3>1. req' = request
        BY <2>2, <1>3 DEF Synchronise
      <3>2. NoRequest.full \union NoRequest.delta = {}
        BY DEF NoRequest
      <3> QED  BY <3>1, <3>2, <1>4
    <2> QED  BY <2>1, <2>2
  <1> QED
    <2> HIDE DEF walked
    <2> QED  BY <1>1, <1>2, <1>5, <1>6, <1>7, <1>8

\* So does a push in tsserver, for the tabs and the files asked.
LEMMA PushSyncs ==
    ASSUME TypeOK, NEW named \in SUBSET File, PushOverlay(named)
    PROVE  \E S, X, O, A \in SUBSET File :
              /\ SyncOf(S, X, {}, O, A)
              /\ Server => tabs \subseteq S
              /\ req' = NoRequest => Pushed(S) = {}
  <1> DEFINE names   == (IF Server THEN ProgramNames ELSE {}) \union named
             request == PlanRequest(names, DrainedChanged(ext), {}, names, last.add)
             nothing == NothingToSend(request) \/ (names = {} /\ request.changed = {})
  <1>1. names \in SUBSET File /\ DrainedChanged(ext) \in SUBSET File /\ last.add \in SUBSET File
        /\ (Server => tabs \subseteq names)
    BY DEF ProgramNames, TypeOK, DrainedChanged
  <1>2. Synchronise(names, request, nothing, "syncing", "idle")
    BY DEF PushOverlay, QueryNames
  <1>3. request.closed = {} /\ request.full \union request.delta = Pushed(names)
    BY DEF PlanRequest, Pushed
  <1>4. names = {} => Pushed(names) = {}
    BY DEF Pushed, FullPush, DeltaPush, Served
  <1>5. SyncOf(names, DrainedChanged(ext), {}, names, last.add)
    <2>1. request = PlanRequest(names, DrainedChanged(ext), {}, names, last.add)
      OBVIOUS
    <2> HIDE DEF names, request, nothing
    <2> QED  BY <1>2, <1>3, <2>1 DEF Synchronise, SyncOf
  <1>6. req' = NoRequest => Pushed(names) = {}
    <2> HIDE DEF names, request
    <2>1. CASE nothing
      BY <2>1, <1>3, <1>4 DEF NothingToSend
    <2>2. CASE ~nothing
      BY <2>2, <1>2, <1>3 DEF Synchronise, NoRequest
    <2> QED  BY <2>1, <2>2
  <1> HIDE DEF names
  <1> QED  BY <1>1, <1>5, <1>6

\* The late pass of tsserver plans only files without an overlay.
LEMMA LateSyncs ==
    ASSUME TypeOK, LatePass
    PROVE  \E S, X, O, A \in SUBSET File :
              /\ SyncOf(S, X, {}, O, A)
              /\ Server => \A f \in S : mirror[f] = NoText
  <1> DEFINE moved   == IF Server THEN {} ELSE StampMoved(prog)
             redecided == {f \in prog \ pass.collected :
                              ~Server /\ (mirror[f] # NoText \/ f \in moved)}
             virtual == {f \in prog \ Plain : mirror[f] = NoText}
             walked  == (redecided \union virtual) \intersect Candidate
             request == PlanRequest(walked, moved \ Pushed(walked), {}, last.open, last.add)
             nothing == Pushed(walked) \union moved = {}
  <1>1. walked \in SUBSET File /\ moved \ Pushed(walked) \in SUBSET File
        /\ last.open \in SUBSET File /\ last.add \in SUBSET File
    BY DEF TypeOK, StampMoved, Stampable, Candidate
  <1>2. Synchronise(walked, request, nothing, "syncing", "idle")
    BY DEF LatePass
  <1>3. request.closed = {}
    BY DEF PlanRequest
  <1>4. Server => \A f \in walked : mirror[f] = NoText
    OBVIOUS
  <1>5. SyncOf(walked, moved \ Pushed(walked), {}, last.open, last.add)
    <2>1. request = PlanRequest(walked, moved \ Pushed(walked), {}, last.open, last.add)
      OBVIOUS
    <2> HIDE DEF walked, request, nothing
    <2> QED  BY <1>2, <1>3, <2>1 DEF Synchronise, SyncOf
  <1> HIDE DEF walked, moved
  <1> QED  BY <1>1, <1>4, <1>5

-----------------------------------------------------------------------------
(* The invariant holds initially and every step preserves it. *)

LEMMA InitInv == Init => IInv
  <1> SUFFICES ASSUME Init PROVE IInv
    OBVIOUS
  <1>1. TypeOK
    <2>1. req \in Request /\ pass \in [stamped : SUBSET File, collected : SUBSET File, start : [File -> Nat]]
      BY NoRequestType DEF Init
    <2>2. pend \in [File -> Seq(Edit)]
      BY DEF Init
    <2> QED  BY <2>1, <2>2 DEF Init, TypeOK, MaybeText, NoStamp, NoVersion
  <1>2. MirrorExact /\ DiskKept /\ TabsLoaded /\ LeftEdits /\ ServerOnly
    BY DEF Init, MirrorExact, DiskKept, TabsLoaded, LeftEdits, ServerOnly
  <1>3. InFlight
    BY DEF Init, InFlight, Entries, NoRequest
  <1> QED  BY <1>1, <1>2, <1>3 DEF IInv

\* Somebody else's write: only the disk moves, under a request or not.
LEMMA WriteDiskInv ==
    ASSUME IInv, NEW f \in File, NEW t \in Text, WriteDisk(f, t)
    PROVE  IInv'
  <1>1. /\ disk' = [disk EXCEPT ![f] = t] /\ dver' = [dver EXCEPT ![f] = @ + 1]
        /\ unheard' = unheard \union {f} /\ settled' = "none" /\ asked' = {} /\ f \in DiskFiles
        /\ UNCHANGED <<info, reread, tabs, mirrorVars, ext, trackVars, phase, req, goVars>>
    BY DEF WriteDisk
  <1>2. TypeOK'
    BY <1>1 DEF IInv, TypeOK, MaybeText, mirrorVars, trackVars, goVars
  <1>3. MirrorExact' /\ DiskKept' /\ TabsLoaded' /\ LeftEdits' /\ ServerOnly'
    BY <1>1 DEF IInv, TypeOK, MirrorExact, DiskKept, TabsLoaded, LeftEdits, ServerOnly,
                NeverLoaded, mirrorVars, goVars
  <1>4. InFlight'
    BY <1>1 DEF IInv, InFlight, Entries, mirrorVars
  <1> QED  BY <1>2, <1>3, <1>4 DEF IInv

\* A step of the host leaves no request in flight and the disk, the mirror and
\* Go alone; what is left is what it does to texts, tabs and edits.
LEMMA HostStepInv ==
    ASSUME IInv, HostStep,
           info' \in [File -> MaybeText], pend' \in [File -> Seq(Edit)],
           reread' \subseteq File, tabs' \subseteq File, unheard' \subseteq File, ext' \subseteq File,
           TabsLoaded', LeftEdits', ServerOnly'
    PROVE  IInv'
  <1>1. TypeOK'
    BY DEF IInv, TypeOK, HostStep, trackVars, goVars
  <1>2. MirrorExact' /\ DiskKept'
    BY DEF IInv, MirrorExact, DiskKept, HostStep, goVars
  <1>3. InFlight'
    BY DEF IInv, InFlight, Entries, HostStep, NoRequest
  <1> QED  BY <1>1, <1>2, <1>3 DEF IInv

LEMMA HostInv ==
    ASSUME IInv, NEW f \in File,
           \/ Materialize(f) \/ WatchEvent(f) \/ ReloadTab(f) \/ CloseTab(f)
           \/ \E t \in Text : OpenTab(f, t)
           \/ \E e \in Edit : EditTab(f, e)
           \/ \E t \in MaybeText : ServeText(f, t)
    PROVE  IInv'
  <1> USE DEF TabsLoaded, LeftEdits, ServerOnly, NeverLoaded
  <1>1. CASE Materialize(f)
    BY <1>1, HostStepInv DEF Materialize, HostStep, IInv, TypeOK
  <1>2. CASE WatchEvent(f)
    BY <1>2, HostStepInv DEF WatchEvent, HostStep, IInv, TypeOK
  <1>3. CASE ReloadTab(f)
    <2>1. disk[f] # NoText
      BY <1>3 DEF ReloadTab, IInv, DiskKept
    <2> QED  BY <1>3, <2>1, HostStepInv DEF ReloadTab, HostStep, IInv, TypeOK
  <1>4. CASE CloseTab(f)
    BY <1>4, HostStepInv DEF CloseTab, HostStep, IInv, TypeOK, MaybeText
  <1>5. ASSUME NEW t \in Text, OpenTab(f, t)
        PROVE  IInv'
    BY <1>5, HostStepInv, ZenonT(40) DEF OpenTab, HostStep, IInv, TypeOK, MaybeText
  <1>6. ASSUME NEW e \in Edit, EditTab(f, e)
        PROVE  IInv'
    <2>1. info[f] \in Text
      BY <1>6 DEF EditTab, IInv, TypeOK, MaybeText
    <2>2. Splice[info[f], e] \in Text
      BY <2>1, <1>6
    <2>3. Append(pend[f], e) \in Seq(Edit)
      BY DEF IInv, TypeOK
    <2>4. /\ info' = [info EXCEPT ![f] = Splice[info[f], e]]
          /\ pend' = [pend EXCEPT ![f] = Append(pend[f], e)]
          /\ ext' = ext \union {f} /\ unheard' = unheard \ {f} /\ f \in tabs /\ Server
          /\ UNCHANGED <<reread, tabs, mirror>> /\ HostStep
      BY <1>6 DEF EditTab, HostStep
    <2>5. info' \in [File -> MaybeText] /\ pend' \in [File -> Seq(Edit)]
      BY <2>2, <2>3, <2>4 DEF IInv, TypeOK, MaybeText
    <2>6. TabsLoaded' /\ LeftEdits' /\ ServerOnly'
      BY <2>2, <2>4 DEF IInv, TypeOK
    <2> QED  BY <2>4, <2>5, <2>6, HostStepInv DEF IInv, TypeOK
  <1>7. ASSUME NEW t \in MaybeText, ServeText(f, t)
        PROVE  IInv'
    <2>1. /\ info' = [info EXCEPT ![f] = t] /\ ~Server /\ HostStep
          /\ UNCHANGED <<reread, tabs, unheard, pend, ext, mirror>>
      BY <1>7 DEF ServeText, HostStep
    <2>2. tabs = {} /\ ServerOnly' /\ LeftEdits'
      BY <2>1 DEF IInv
    <2> QED  BY <2>1, <2>2, HostStepInv DEF IInv, TypeOK
  <1> QED  BY <1>1, <1>2, <1>3, <1>4, <1>5, <1>6, <1>7

\* Stamps written by a creation.
LEMMA StampType ==
    ASSUME TypeOK, NEW F \in SUBSET File, NEW aged
    PROVE  Restamped(F, aged) \in [File -> Nat \union {NoStamp, Unordered}]
  BY DEF TypeOK, Restamped

LEMMA CreateInv == ASSUME IInv, CreateProgram PROVE IInv'
  <1>1. PICK S \in SUBSET File, X \in SUBSET File, C \in SUBSET File, O \in SUBSET File, A \in SUBSET File :
            SyncOf(S, X, C, O, A) /\ (C = {} \/ (Server /\ C \intersect tabs = {}))
    BY CreateSyncs DEF IInv
  <1>2. /\ disk' \in [File -> MaybeText] /\ dver' \in [File -> Nat]
        /\ info' \in [File -> MaybeText]
        /\ reread' \subseteq File /\ tabs' \subseteq File /\ unheard' \subseteq File
        /\ mirror' \in [File -> MaybeText] /\ mver' \in [File -> Nat]
        /\ pend' \in [File -> Seq(Edit)] /\ req' \in Request
        /\ phase' \in {"idle", "creating", "landed", "syncing"}
    BY <1>1, SyncType DEF IInv
  <1>3. stamp' \in [File -> Nat \union {NoStamp, Unordered}]
    <2>1. CASE Server
      BY <2>1 DEF CreateProgram, IInv, TypeOK
    <2>2. CASE ~Server
      <3>1. PICK aged : stamp' = Restamped(known, aged)
        BY <2>2 DEF CreateProgram
      <3>2. known \in SUBSET File
        BY DEF IInv, TypeOK
      <3>3. TypeOK
        BY DEF IInv
      <3> QED  BY <3>1, <3>2, <3>3, StampType
    <2> QED  BY <2>1, <2>2
  <1>4. pass' \in [stamped : SUBSET File, collected : SUBSET File, start : [File -> Nat]]
    <2>1. ProgramNames \in SUBSET File
      BY DEF ProgramNames, IInv, TypeOK
    <2>2. CASE Server
      BY <2>1, <2>2 DEF CreateProgram, IInv, TypeOK
    <2>3. CASE ~Server
      <3>1. pass' = [stamped |-> known, start |-> dver, collected |-> pass'.collected]
            /\ pass'.collected \in {ProgramNames, {}}
        BY <2>3 DEF CreateProgram
      <3> QED  BY <2>1, <3>1 DEF IInv, TypeOK
    <2> QED  BY <2>2, <2>3
  <1>5. /\ ext' \subseteq File /\ sent' \subseteq File /\ settled' = "create" /\ asked' = {}
        /\ UNCHANGED <<known, last>> /\ UNCHANGED goVars
    BY <1>1 DEF CreateProgram, Reloaded, Unread, IInv, TypeOK, SyncOf
  <1>6. TypeOK'
    BY <1>2, <1>3, <1>4, <1>5 DEF IInv, TypeOK, goVars
  <1> QED  BY <1>1, <1>6, SyncMirror, SyncTexts, SyncInFlight DEF IInv

LEMMA LateInv == ASSUME IInv, LatePass PROVE IInv'
  <1>1. PICK S \in SUBSET File, X \in SUBSET File, O \in SUBSET File, A \in SUBSET File :
            SyncOf(S, X, {}, O, A)
    BY LateSyncs DEF IInv
  <1>2. /\ disk' \in [File -> MaybeText] /\ dver' \in [File -> Nat]
        /\ info' \in [File -> MaybeText]
        /\ reread' \subseteq File /\ tabs' \subseteq File /\ unheard' \subseteq File
        /\ mirror' \in [File -> MaybeText] /\ mver' \in [File -> Nat]
        /\ pend' \in [File -> Seq(Edit)] /\ req' \in Request
        /\ phase' \in {"idle", "creating", "landed", "syncing"}
    BY <1>1, SyncType DEF IInv
  <1>3. stamp' \in [File -> Nat \union {NoStamp, Unordered}]
    <2>1. CASE Server
      BY <2>1 DEF LatePass, IInv, TypeOK
    <2>2. CASE ~Server
      <3>1. PICK aged : stamp' = Restamped(prog, aged)
        BY <2>2 DEF LatePass
      <3>2. prog \in SUBSET File
        BY DEF IInv, TypeOK
      <3>3. TypeOK
        BY DEF IInv
      <3> QED  BY <3>1, <3>2, <3>3, StampType
    <2> QED  BY <2>1, <2>2
  <1>4. /\ ext' \subseteq File /\ known' \subseteq File
        /\ pass' \in [stamped : SUBSET File, collected : SUBSET File, start : [File -> Nat]]
        /\ UNCHANGED <<sent, last, settled, asked>> /\ UNCHANGED goVars
    BY <1>1 DEF LatePass, NoPass, Reloaded, Unread, IInv, TypeOK, SyncOf
  <1>5. TypeOK'
    BY <1>2, <1>3, <1>4 DEF IInv, TypeOK, goVars
  <1> QED  BY <1>1, <1>5, SyncMirror, SyncTexts, SyncInFlight DEF IInv

LEMMA PushInv == ASSUME IInv, NEW named \in SUBSET File, PushOverlay(named) PROVE IInv'
  <1>1. PICK S \in SUBSET File, X \in SUBSET File, O \in SUBSET File, A \in SUBSET File :
            SyncOf(S, X, {}, O, A)
    BY PushSyncs DEF IInv
  <1>2. /\ disk' \in [File -> MaybeText] /\ dver' \in [File -> Nat]
        /\ info' \in [File -> MaybeText]
        /\ reread' \subseteq File /\ tabs' \subseteq File /\ unheard' \subseteq File
        /\ mirror' \in [File -> MaybeText] /\ mver' \in [File -> Nat]
        /\ pend' \in [File -> Seq(Edit)] /\ req' \in Request
        /\ phase' \in {"idle", "creating", "landed", "syncing"}
    BY <1>1, SyncType DEF IInv
  <1>3. /\ ext' \subseteq File /\ settled' = "push" /\ asked' = named
        /\ UNCHANGED trackVars /\ UNCHANGED goVars
    BY <1>1 DEF PushOverlay, Reloaded, Unread, IInv, TypeOK, SyncOf
  <1>4. TypeOK'
    BY <1>2, <1>3 DEF IInv, TypeOK, trackVars, goVars
  <1> QED  BY <1>1, <1>4, SyncMirror, SyncTexts, SyncInFlight DEF IInv

\* In Go, a request that fits the mirror lands exactly as it is committed.
LEMMA UpdateInv == ASSUME IInv, UpdateSnapshot PROVE IInv'
  <1>1. /\ \A f \in File : overlay'[f] = OverlayAfter(req, f) /\ gver'[f] = VersionAfter(req, f)
        /\ \A f \in File : mirror'[f] = IF f \in req.full THEN req.text[f]
                                        ELSE IF f \in req.delta THEN ApplyEdits(mirror[f], req.edits[f])
                                        ELSE mirror[f]
        /\ \A f \in File : mver'[f] = IF f \in req.full THEN 0
                                      ELSE IF f \in req.delta THEN mver[f] + 1
                                      ELSE mver[f]
        /\ UNCHANGED <<envVars, pend, ext, stamp, sent, known, pass, settled, asked>>
        /\ req' = NoRequest /\ phase' \in {"landed", "idle"}
    BY DEF UpdateSnapshot, Commit
  <1>2. \A f \in req.delta : overlay[f] = mirror[f] /\ gver[f] = mver[f]
                             /\ ApplyEdits(mirror[f], req.edits[f]) = req.text[f]
    BY DEF IInv, TypeOK, Request, MirrorExact, InFlight
  <1>3. MirrorExact'
    <2> SUFFICES ASSUME NEW f \in File, mirror'[f] # NoText
                 PROVE  overlay'[f] = mirror'[f] /\ gver'[f] = mver'[f]
      BY DEF MirrorExact
    <2>1. CASE f \in req.full
      BY <2>1, <1>1 DEF OverlayAfter, VersionAfter
    <2>2. CASE f \in req.delta \ req.full
      BY <2>2, <1>1, <1>2 DEF OverlayAfter, VersionAfter
    <2>3. CASE f \notin Entries(req)
      <3>1. mirror[f] # NoText /\ mirror'[f] = mirror[f] /\ mver'[f] = mver[f]
        BY <2>3, <1>1 DEF Entries
      <3>2. f \notin HeldClosed(req)
        BY <3>1 DEF IInv, InFlight, HeldClosed
      <3> QED  BY <2>3, <3>1, <3>2, <1>1 DEF IInv, MirrorExact, OverlayAfter, VersionAfter, Entries
    <2> QED  BY <2>1, <2>2, <2>3 DEF Entries
  <1>4. \A f \in Entries(req) : req.text[f] \in MaybeText
    BY DEF IInv, InFlight, MaybeText
  <1>5. mirror' \in [File -> MaybeText] /\ mver' \in [File -> Nat]
    BY <1>1, <1>2, <1>4 DEF UpdateSnapshot, Commit, IInv, TypeOK, Entries
  <1>6. overlay' \in [File -> MaybeText]
    <2>1. \A f \in File : OverlayAfter(req, f) \in MaybeText
      BY <1>2, <1>4 DEF OverlayAfter, IInv, TypeOK, Entries, MaybeText
    <2> QED  BY <2>1 DEF UpdateSnapshot
  <1>7. gver' \in [File -> Nat \union {NoVersion}]
    <2>1. \A f \in File : VersionAfter(req, f) \in Nat \union {NoVersion}
      BY <1>2 DEF VersionAfter, IInv, TypeOK, NoVersion
    <2> QED  BY <2>1 DEF UpdateSnapshot
  <1>8. apiOpen' \subseteq File /\ prog' \subseteq File
    BY DEF UpdateSnapshot, ProgramAfter, Entries, IInv, TypeOK, Request
  <1>9. frozen' \in [File -> MaybeText]
    <2>1. \A f \in File : TextAfter(req, f) \in MaybeText
      BY <1>6 DEF TextAfter, IInv, TypeOK
    <2>2. \A f \in File : FrozenAfter(req, f) \in MaybeText
      BY <2>1 DEF FrozenAfter, IInv, TypeOK, MaybeText
    <2> QED  BY <2>2 DEF UpdateSnapshot
  <1>10. last' \in [landed : BOOLEAN, open : SUBSET File, add : SUBSET File] /\ req' \in Request
    BY NoRequestType DEF UpdateSnapshot, IInv, TypeOK, Request
  <1>11. TypeOK'
    BY <1>1, <1>5, <1>6, <1>7, <1>8, <1>9, <1>10 DEF IInv, TypeOK, envVars
  <1>12. DiskKept' /\ TabsLoaded' /\ ServerOnly'
    BY <1>1 DEF IInv, DiskKept, TabsLoaded, ServerOnly, envVars
  <1>13. LeftEdits'
    <2> SUFFICES ASSUME NEW f \in File, f \notin tabs', pend'[f] # <<>>, mirror'[f] # NoText
                 PROVE  NeverLoaded(f)' \/ f \in reread'
      BY DEF LeftEdits
    <2>1. f \notin Entries(req)
      BY <1>1 DEF IInv, InFlight
    <2> QED  BY <2>1, <1>1 DEF IInv, LeftEdits, NeverLoaded, Entries, envVars
  <1>14. InFlight'
    BY <1>1 DEF InFlight, Entries, NoRequest
  <1> QED  BY <1>3, <1>11, <1>12, <1>13, <1>14 DEF IInv

LEMMA ListFilesInv == ASSUME IInv, ListFiles PROVE IInv'
  <1>1. TypeOK'
    BY DEF ListFiles, IInv, TypeOK, envVars, mirrorVars, goVars
  <1>2. MirrorExact' /\ DiskKept' /\ TabsLoaded' /\ LeftEdits' /\ ServerOnly' /\ InFlight'
    BY DEF ListFiles, IInv, MirrorExact, DiskKept, TabsLoaded, LeftEdits, ServerOnly, InFlight,
           NeverLoaded, Entries, envVars, mirrorVars, goVars
  <1> QED  BY <1>1, <1>2 DEF IInv

LEMMA StutterInv == ASSUME IInv, UNCHANGED vars PROVE IInv'
  <1>1. TypeOK'
    BY DEF IInv, TypeOK, vars, envVars, mirrorVars, trackVars, goVars
  <1>2. MirrorExact' /\ DiskKept' /\ TabsLoaded' /\ LeftEdits' /\ ServerOnly' /\ InFlight'
    BY DEF IInv, MirrorExact, DiskKept, TabsLoaded, LeftEdits, ServerOnly, InFlight,
           NeverLoaded, Entries, vars, envVars, mirrorVars, goVars
  <1> QED  BY <1>1, <1>2 DEF IInv

LEMMA NextInv == IInv /\ [Next]_vars => IInv'
  <1> SUFFICES ASSUME IInv, [Next]_vars PROVE IInv'
    OBVIOUS
  <1>1. CASE Environment
    <2>1. CASE \E f \in File, t \in Text : WriteDisk(f, t)
      BY <2>1, WriteDiskInv
    <2>2. CASE \E f \in File : Materialize(f) \/ WatchEvent(f)
      BY <2>2, HostInv
    <2>3. CASE \E f \in Tabbed :
                  \/ ReloadTab(f) \/ CloseTab(f)
                  \/ \E t \in Text : OpenTab(f, t)
                  \/ \E e \in Edit : EditTab(f, e)
                  \/ \E t \in MaybeText : ServeText(f, t)
      BY <2>3, HostInv
    <2> QED  BY <1>1, <2>1, <2>2, <2>3 DEF Environment
  <1>2. CASE Sync
    <2>1. CASE CreateProgram
      BY <2>1, CreateInv
    <2>2. CASE LatePass
      BY <2>2, LateInv
    <2>3. CASE PushOverlay({})
      BY <2>3, PushInv
    <2>4. CASE \E f \in File : PushOverlay({f})
      BY <2>4, PushInv
    <2>5. CASE UpdateSnapshot
      BY <2>5, UpdateInv
    <2>6. CASE ListFiles
      BY <2>6, ListFilesInv
    <2> QED  BY <1>2, <2>1, <2>2, <2>3, <2>4, <2>5, <2>6 DEF Sync
  <1>3. CASE UNCHANGED vars
    BY <1>3, StutterInv
  <1> QED  BY <1>1, <1>2, <1>3 DEF Next

LEMMA InvHolds == Spec => []IInv
  BY InitInv, NextInv, PTL DEF Spec

-----------------------------------------------------------------------------
(* The theorems. *)

\* Every variable stays in its set, whatever the files, texts and edits.
THEOREM TypeCorrect == Spec => []TypeOK
  <1>1. IInv => TypeOK
    BY DEF IInv
  <1> QED  BY <1>1, InvHolds, PTL

\* The mirror never claims an overlay, or a version, that Go does not hold.
THEOREM MirrorIsExact == Spec => []MirrorExact
  <1>1. IInv => MirrorExact
    BY DEF IInv
  <1> QED  BY <1>1, InvHolds, PTL

\* No interleaving makes Go refuse a delta or splice it into another text
\* than the host's.
THEOREM DeltasFit == Spec => []DeltaAccepted
  <1>1. IInv => DeltaAccepted
    <2> SUFFICES ASSUME IInv, NEW f \in req.delta
                 PROVE  Accepts(req, f) /\ ApplyEdits(overlay[f], req.edits[f]) = req.text[f]
      BY DEF DeltaAccepted
    <2>1. f \in File /\ mirror[f] # NoText /\ req.base[f] = mver[f]
          /\ ApplyEdits(mirror[f], req.edits[f]) = req.text[f]
      BY DEF IInv, TypeOK, Request, InFlight
    <2>2. overlay[f] = mirror[f] /\ gver[f] = mver[f]
      BY <2>1 DEF IInv, MirrorExact
    <2>3. f \notin HeldClosed(req)
      BY <2>1 DEF IInv, InFlight, HeldClosed
    <2> QED  BY <2>1, <2>2, <2>3 DEF Accepts
  <1> QED  BY <1>1, InvHolds, PTL

-----------------------------------------------------------------------------
(* Unsaved text reaches Go.  Once a synchronisation has planned the tabs, a  *)
(* diverging one is in the mirror or in flight with the host's text, until   *)
(* the environment moves.                                                    *)

\* An open tab never waits for a re-read of the disk.
TabsRead == tabs \intersect reread = {}

SettledTabs ==
    Server /\ settled # "none" =>
        \A f \in tabs \intersect Candidate :
            Diverges(f) => IF f \in Entries(req) THEN req.text[f] = HostText(f)
                                                 ELSE mirror[f] = HostText(f)

SInv == IInv /\ TabsRead /\ SettledTabs

\* Reading the disk for the first time does not change what the host answers.
LEMMA HostTextKept ==
    ASSUME NEW S \in SUBSET File, LoadTexts(S), NEW f \in File
    PROVE  HostText(f)' = HostText(f) /\ (Diverges(f)' <=> Diverges(f))
  <1>1. UNCHANGED disk /\ reread' = reread \ Unread(S)
        /\ info'[f] = IF f \in Unread(S) THEN disk[f] ELSE info[f]
    BY DEF LoadTexts
  <1>2. f \in Unread(S) => NeverLoaded(f) \/ f \in reread
    BY DEF Unread
  <1>3. RawText(f)' = RawText(f)
    BY <1>1, <1>2 DEF RawText, NeverLoaded
  <1> QED  BY <1>1, <1>3 DEF HostText, Diverges

\* The host has a text for every tab.
LEMMA TabText ==
    ASSUME SInv, NEW f \in tabs
    PROVE  f \in File /\ HostText(f) # NoText
  <1>1. f \in File /\ info[f] \in Text /\ RawText(f) = info[f]
    BY DEF SInv, IInv, TypeOK, TabsLoaded, TabsRead, RawText, NeverLoaded, MaybeText
  <1> QED  BY <1>1 DEF HostText

\* A creation or a push plans all the tabs.
LEMMA SyncSettles ==
    ASSUME SInv, NEW S \in SUBSET File, NEW X \in SUBSET File, NEW C \in SUBSET File,
           NEW O \in SUBSET File, NEW A \in SUBSET File, SyncOf(S, X, C, O, A),
           C = {} \/ (Server /\ C \intersect tabs = {}),
           Server => tabs \subseteq S, req' = NoRequest => Pushed(S) = {}
    PROVE  SettledTabs'
  <1> SUFFICES ASSUME Server, NEW f \in tabs \intersect Candidate, Diverges(f)
               PROVE  IF f \in Entries(req') THEN req'.text[f] = HostText(f)
                                            ELSE mirror'[f] = HostText(f)
    BY HostTextKept DEF SyncOf, LoadTexts, SettledTabs, Candidate
  <1>1. f \in Served(S)
    BY TabText DEF Served
  <1>2. f \notin Released(S) \union C /\ f \in File
    BY <1>1 DEF Released, Served
  <1>3. mirror'[f] = mirror[f]
    BY <1>2 DEF SyncOf, Forget
  <1>4. mirror[f] = HostText(f) \/ f \in Pushed(S)
    BY <1>1 DEF Pushed, FullPush
  <1>5. CASE req' = NoRequest
    BY <1>3, <1>4, <1>5 DEF NoRequest, Entries
  <1>6. CASE req' = PlanRequest(S, X, C, O, A)
    <2>1. Entries(req') = Pushed(S) /\ (f \in Pushed(S) => req'.text[f] = HostText(f))
      BY <1>6, <1>2 DEF PlanRequest, Entries, Pushed
    <2> QED  BY <2>1, <1>3, <1>4
  <1> QED  BY <1>5, <1>6 DEF SyncOf

\* The late pass leaves alone what is mirrored already.
LEMMA LateKeeps ==
    ASSUME SInv, phase = "landed", UNCHANGED settled,
           NEW S \in SUBSET File, NEW X \in SUBSET File, NEW O \in SUBSET File, NEW A \in SUBSET File,
           SyncOf(S, X, {}, O, A), Server => \A f \in S : mirror[f] = NoText
    PROVE  SettledTabs'
  <1> SUFFICES ASSUME Server, settled # "none", NEW f \in tabs \intersect Candidate, Diverges(f)
               PROVE  IF f \in Entries(req') THEN req'.text[f] = HostText(f)
                                            ELSE mirror'[f] = HostText(f)
    BY HostTextKept DEF SyncOf, LoadTexts, SettledTabs, Candidate
  <1>1. mirror[f] = HostText(f) /\ f \in File /\ mirror[f] # NoText
    BY TabText DEF SInv, IInv, InFlight, SettledTabs, NoRequest, Entries
  <1>2. f \notin S
    BY <1>1
  <1>3. f \notin Pushed(S) /\ f \notin Released(S)
    BY <1>2 DEF Pushed, FullPush, DeltaPush, Released, Served
  <1>4. mirror'[f] = mirror[f]
    BY <1>1, <1>3 DEF SyncOf, Forget
  <1>5. f \notin Entries(req')
    BY <1>3 DEF SyncOf, PlanRequest, NoRequest, Entries, Pushed
  <1> QED  BY <1>1, <1>4, <1>5

LEMMA SInvNext == SInv /\ [Next]_vars => SInv'
  <1> SUFFICES ASSUME SInv, [Next]_vars PROVE SInv'
    OBVIOUS
  <1>1. IInv /\ IInv'
    BY NextInv DEF SInv
  <1>2. TabsRead'
    <2>1. CASE Environment
      BY <2>1 DEF Environment, SInv, TabsRead, HostStep, WriteDisk, Materialize, WatchEvent,
                  ReloadTab, CloseTab, OpenTab, EditTab, ServeText
    <2>2. ASSUME NEW S, LoadTexts(S)
          PROVE  TabsRead'
      BY <2>2 DEF LoadTexts, SInv, TabsRead
    <2>3. CASE Sync
      BY <2>2, <2>3 DEF Sync, CreateProgram, LatePass, PushOverlay, UpdateSnapshot, ListFiles,
                        Synchronise, SInv, TabsRead, envVars
    <2>4. CASE UNCHANGED vars
      BY <2>4 DEF SInv, TabsRead, vars, envVars
    <2> QED  BY <2>1, <2>3, <2>4 DEF Next
  <1>3. SettledTabs'
    <2>1. CASE Environment
      <3>1. settled' = "none"
        BY <2>1 DEF Environment, HostStep, WriteDisk, Materialize, WatchEvent,
                    ReloadTab, CloseTab, OpenTab, EditTab, ServeText
      <3> QED  BY <3>1 DEF SettledTabs
    <2>2. CASE CreateProgram
      <3>1. PICK S \in SUBSET File, X \in SUBSET File, C \in SUBSET File,
                 O \in SUBSET File, A \in SUBSET File :
                /\ SyncOf(S, X, C, O, A)
                /\ C = {} \/ (Server /\ C \intersect tabs = {})
                /\ Server => tabs \subseteq S
                /\ req' = NoRequest => Pushed(S) = {}
        BY <2>2, <1>1, CreateSyncs DEF IInv
      <3> QED  BY <3>1, SyncSettles
    <2>3. ASSUME NEW named \in SUBSET File, PushOverlay(named)
          PROVE  SettledTabs'
      <3>1. PICK S \in SUBSET File, X \in SUBSET File, O \in SUBSET File, A \in SUBSET File :
                /\ SyncOf(S, X, {}, O, A)
                /\ Server => tabs \subseteq S
                /\ req' = NoRequest => Pushed(S) = {}
        BY <2>3, <1>1, PushSyncs DEF IInv
      <3> QED  BY <3>1, SyncSettles
    <2>4. CASE LatePass
      <3>1. PICK S \in SUBSET File, X \in SUBSET File, O \in SUBSET File, A \in SUBSET File :
                /\ SyncOf(S, X, {}, O, A)
                /\ Server => \A f \in S : mirror[f] = NoText
        BY <2>4, <1>1, LateSyncs DEF IInv
      <3>2. phase = "landed" /\ UNCHANGED settled
        BY <2>4 DEF LatePass
      <3> QED  BY <3>1, <3>2, LateKeeps
    <2>5. CASE UpdateSnapshot
      <3>1. UNCHANGED <<envVars, settled>> /\ req' = NoRequest /\ Commit(req)
        BY <2>5 DEF UpdateSnapshot
      <3>2. \A f \in File : HostText(f)' = HostText(f) /\ (Diverges(f)' <=> Diverges(f))
        BY <3>1 DEF envVars, HostText, RawText, NeverLoaded, Diverges
      <3>3. \A f \in File : mirror'[f] = IF f \in Entries(req) THEN req.text[f] ELSE mirror[f]
        BY <3>1 DEF Commit, Entries, SInv, IInv, InFlight
      <3>4. Entries(req') = {}
        BY <3>1 DEF Entries, NoRequest
      <3> QED  BY <3>1, <3>2, <3>3, <3>4 DEF SInv, SettledTabs, Candidate, envVars
    <2>6. CASE ListFiles
      BY <2>6 DEF ListFiles, SettledTabs
    <2>7. CASE UNCHANGED vars
      BY <2>7 DEF SInv, SettledTabs, HostText, RawText, NeverLoaded, Diverges, Entries,
                  vars, envVars, mirrorVars
    <2> QED  BY <2>1, <2>2, <2>3, <2>4, <2>5, <2>6, <2>7 DEF Next, Sync
  <1> QED  BY <1>1, <1>2, <1>3 DEF SInv

LEMMA SInvHolds == Spec => []SInv
  <1>1. Init => TabsRead /\ SettledTabs
    BY DEF Init, TabsRead, SettledTabs
  <1>2. Init => SInv
    BY <1>1, InitInv DEF SInv
  <1> QED  BY <1>2, SInvNext, PTL DEF Spec

\* After a synchronisation every tab with unsaved text is checked with it.
THEOREM UnsavedTextServed == Spec => []UnsavedReachesGo
  <1>1. SInv => UnsavedReachesGo
    <2> SUFFICES ASSUME SInv, Server, Quiet, NEW f \in tabs \intersect Candidate, HostText(f) # disk[f]
                 PROVE  GoText(f) = HostText(f)
      BY DEF UnsavedReachesGo
    <2>1. f \in File /\ HostText(f) # NoText
      BY TabText
    <2>2. mirror[f] = HostText(f)
      BY DEF SInv, IInv, InFlight, SettledTabs, Quiet, NoRequest, Entries, Diverges
    <2>3. overlay[f] = HostText(f)
      BY <2>1, <2>2 DEF SInv, IInv, MirrorExact
    <2> QED  BY <2>1, <2>3 DEF GoText
  <1> QED  BY <1>1, SInvHolds, PTL

-----------------------------------------------------------------------------
(***************************************************************************)
(* For every value of the constants: what the checker in Go sees of a file  *)
(* is what the host gives for it, once both sides have synchronised, and a  *)
(* closed tab leaves nothing behind.                                        *)
(*                                                                         *)
(* Go reads a file from the overlay or, without one, as it was on disk when *)
(* SnapshotFS cached it.  The overlay is the matter of the theorems above;  *)
(* here every way in which the cached text can fall behind the disk is      *)
(* matched with what will make Go read again: a signal not yet drained, a   *)
(* change listed in the request in flight or, for a direct host, a stamp    *)
(* that differs from the file's.                                           *)
(***************************************************************************)


\* The text Go has, or is being sent, for an overlaid file.
Landing(f) == IF f \in Entries(req) THEN req.text[f] ELSE mirror[f]

-----------------------------------------------------------------------------
(* What each kind of step does, file by file. *)

\* The host and the tools leave alone what the synchronisations keep.
LEMMA EnvironmentKeeps ==
    ASSUME Environment
    PROVE  /\ UNCHANGED <<mirror, mver, stamp, sent, known, last, pass, phase, req, goVars>>
           /\ settled' = "none"
  BY DEF Environment, HostStep, WriteDisk, Materialize, WatchEvent, ReloadTab, CloseTab, OpenTab,
         EditTab, ServeText, mirrorVars, trackVars, goVars

\* The disk and the signals under a step of the environment: a rewrite is noted
\* as unheard, and what stops being unheard is signalled.
LEMMA EnvironmentReads ==
    ASSUME IInv, Environment
    PROVE  /\ unheard \union ext \subseteq unheard' \union ext' /\ ext \subseteq ext'
           /\ \A f \in File :
                 /\ dver[f] \in Nat /\ dver'[f] \in Nat /\ dver[f] <= dver'[f]
                 /\ disk'[f] # disk[f] => f \in unheard' /\ dver[f] < dver'[f]
                 /\ disk'[f] = disk[f] => dver'[f] = dver[f]
  <1>0. disk \in [File -> MaybeText] /\ dver \in [File -> Nat]
    BY DEF IInv, TypeOK
  <1>1. ASSUME NEW g \in File, NEW t \in Text, WriteDisk(g, t)
        PROVE  /\ unheard \union ext \subseteq unheard' \union ext' /\ ext \subseteq ext'
               /\ \A f \in File :
                     /\ dver[f] \in Nat /\ dver'[f] \in Nat /\ dver[f] <= dver'[f]
                     /\ disk'[f] # disk[f] => f \in unheard' /\ dver[f] < dver'[f]
                     /\ disk'[f] = disk[f] => dver'[f] = dver[f]
    <2>1. /\ disk' = [disk EXCEPT ![g] = t] /\ dver' = [dver EXCEPT ![g] = @ + 1] /\ t # disk[g]
          /\ unheard' = unheard \union {g} /\ ext' = ext
      BY <1>1 DEF WriteDisk
    <2> QED  BY <1>0, <2>1
  <1>2. ASSUME HostStep, unheard \union ext \subseteq unheard' \union ext', ext \subseteq ext'
        PROVE  \A f \in File :
                 /\ dver[f] \in Nat /\ dver'[f] \in Nat /\ dver[f] <= dver'[f]
                 /\ disk'[f] # disk[f] => f \in unheard' /\ dver[f] < dver'[f]
                 /\ disk'[f] = disk[f] => dver'[f] = dver[f]
    BY <1>0, <1>2 DEF HostStep
  <1>3. ASSUME NEW f \in File,
               \/ Materialize(f) \/ WatchEvent(f) \/ ReloadTab(f) \/ CloseTab(f)
               \/ \E t \in Text : OpenTab(f, t)
               \/ \E e \in Edit : EditTab(f, e)
               \/ \E t \in MaybeText : ServeText(f, t)
        PROVE  HostStep /\ unheard \union ext \subseteq unheard' \union ext' /\ ext \subseteq ext'
    BY <1>3 DEF Materialize, WatchEvent, ReloadTab, CloseTab, OpenTab, EditTab, ServeText
  <1> QED  BY <1>1, <1>2, <1>3 DEF Environment

\* What UpdateSnapshot leaves in Go for each file.
LEMMA UpdateServes ==
    ASSUME IInv, UpdateSnapshot, NEW f \in File
    PROVE  /\ f \in Entries(req) => overlay'[f] = req.text[f] /\ overlay'[f] # NoText
           /\ f \notin Entries(req) => overlay'[f] = overlay[f]
                                       \/ (overlay'[f] = NoText /\ f \in HeldClosed(req))
           /\ mirror'[f] = Landing(f)
           /\ frozen'[f] \in {disk[f], frozen[f], NoText}
           /\ overlay'[f] = NoText /\ f \in prog' => frozen'[f] # NoText
           /\ f \in req.changed \union HeldClosed(req) => frozen'[f] \in {disk[f], NoText}
  <1>1. /\ overlay'[f] = OverlayAfter(req, f)
        /\ frozen'[f] = FrozenAfter(req, f)
        /\ prog' = ProgramAfter(req) /\ Commit(req)
    BY DEF UpdateSnapshot
  <1>2. /\ f \in Entries(req) => req.text[f] \in Text
        /\ f \in req.delta => overlay[f] = mirror[f] /\ ApplyEdits(mirror[f], req.edits[f]) = req.text[f]
    BY DEF IInv, InFlight, MirrorExact, Entries
  <1>3. /\ f \in Entries(req) => overlay'[f] = req.text[f] /\ overlay'[f] # NoText
        /\ f \notin Entries(req) => overlay'[f] = overlay[f]
                                    \/ (overlay'[f] = NoText /\ f \in HeldClosed(req))
    BY <1>1, <1>2 DEF OverlayAfter, Entries
  <1>4. mirror'[f] = Landing(f)
    BY <1>1, <1>2 DEF Commit, Landing, Entries
  <1>5. TextAfter(req, f) \in {overlay'[f], disk[f], frozen[f]}
        /\ (overlay'[f] = NoText => TextAfter(req, f) \in {disk[f], frozen[f]})
        /\ (overlay'[f] = NoText /\ f \in Dropped(req) => TextAfter(req, f) = disk[f])
    BY DEF TextAfter
  <1>6. f \in prog' => TextAfter(req, f) # NoText
    BY <1>1 DEF ProgramAfter
  <1>7. f \in req.changed \union HeldClosed(req) => f \in Dropped(req)
    BY DEF Dropped
  <1> QED  BY <1>1, <1>3, <1>4, <1>5, <1>6, <1>7 DEF FrozenAfter

-----------------------------------------------------------------------------
(* Closed tabs.  What is overlaid is held open by the session, unless it is a *)
(* script name, which the next request opens again.                         *)

Releasable ==
    /\ \A f \in File : overlay[f] # NoText => gver[f] # NoVersion /\ (f \in Roots \/ f \in apiOpen)
    /\ req.closed # {} => Roots \subseteq req.open
    /\ req.closed \intersect Entries(req) \subseteq Roots

\* A creation closes tabs that are not open any more and opens the script names;
\* the other synchronisations close nothing.
LEMMA ClosesFit ==
    ASSUME TypeOK, CreateProgram \/ LatePass \/ \E named \in SUBSET File : PushOverlay(named)
    PROVE  /\ req'.closed # {} => Roots \subseteq req'.open
           /\ req'.closed \intersect Entries(req') \subseteq Roots
           /\ UNCHANGED goVars
  <1>1. CASE CreateProgram
    <2> DEFINE moved   == IF Server THEN {} ELSE StampMoved(known)
               signals == ext \union moved
               needed  == CollectNeeded(signals)
               walked  == IF needed THEN {f \in ProgramNames : CanDiverge(f, signals)} ELSE {}
               closed  == IF Server THEN sent \ tabs ELSE {}
               opened  == IF Server THEN ProgramNames ELSE {}
               request == PlanRequest(walked, DrainedChanged(signals), closed, opened, ProgramNames)
    <2>1. Synchronise(walked, request, NothingToSend(request), "creating", "landed")
      BY <1>1 DEF CreateProgram
    <2>2. walked \subseteq Roots \union tabs
      BY DEF ProgramNames
    <2>3. request.closed = closed /\ request.open = opened /\ Entries(request) = Pushed(walked)
      BY DEF PlanRequest, Entries, Pushed
    <2>4. closed # {} => Roots \subseteq opened
      BY DEF ProgramNames
    <2>5. closed \intersect tabs = {}
      OBVIOUS
    <2> HIDE DEF moved, signals, needed, walked, closed, opened, request
    <2>6. Pushed(walked) \subseteq walked
      BY DEF Pushed, FullPush, DeltaPush, Served
    <2>7. CASE req' = request
      BY <2>1, <2>2, <2>3, <2>4, <2>5, <2>6, <2>7 DEF Synchronise
    <2>8. CASE req' = NoRequest
      BY <2>1, <2>8 DEF Synchronise, NoRequest
    <2> QED  BY <2>1, <2>7, <2>8 DEF Synchronise
  <1>2. ASSUME NEW S \in SUBSET File, NEW X \in SUBSET File, NEW O \in SUBSET File, NEW A \in SUBSET File,
               SyncOf(S, X, {}, O, A)
        PROVE  req'.closed = {} /\ UNCHANGED goVars
    BY <1>2 DEF SyncOf, PlanRequest, NoRequest
  <1>3. CASE LatePass
    BY <1>3, <1>2, LateSyncs
  <1>4. ASSUME NEW named \in SUBSET File, PushOverlay(named)
        PROVE  req'.closed = {} /\ UNCHANGED goVars
    BY <1>4, <1>2, PushSyncs
  <1> QED  BY <1>1, <1>3, <1>4

LEMMA ReleasableNext == IInv /\ Releasable /\ [Next]_vars => Releasable'
  <1> SUFFICES ASSUME IInv, Releasable, [Next]_vars PROVE Releasable'
    OBVIOUS
  <1>1. CASE Environment
    BY <1>1, EnvironmentKeeps DEF Releasable, Entries, goVars
  <1>2. CASE CreateProgram \/ LatePass \/ \E named \in SUBSET File : PushOverlay(named)
    BY <1>2, ClosesFit DEF IInv, Releasable, goVars
  <1>3. CASE UpdateSnapshot
    <2>1. /\ req' = NoRequest
          /\ apiOpen' = (apiOpen \union req.open \union Entries(req)) \ HeldClosed(req)
          /\ \A f \in File : gver'[f] = VersionAfter(req, f) /\ overlay'[f] = OverlayAfter(req, f)
          /\ \A f \in req.delta : Accepts(req, f)
      BY <1>3 DEF UpdateSnapshot
    <2>2. ASSUME NEW f \in File, overlay'[f] # NoText
          PROVE  gver'[f] # NoVersion /\ (f \in Roots \/ f \in apiOpen')
      <3>1. CASE f \in Entries(req)
        <4>1. f \in req.delta => gver[f] \in Nat
          BY <2>1 DEF Accepts, IInv, TypeOK, Request
        <4>2. gver'[f] # NoVersion
          BY <2>1, <3>1, <4>1 DEF VersionAfter, Entries, NoVersion
        <4>3. f \in HeldClosed(req) => f \in Roots
          BY <3>1 DEF Releasable, HeldClosed
        <4> QED  BY <2>1, <3>1, <4>2, <4>3
      <3>2. CASE f \notin Entries(req)
        <4>1. overlay[f] # NoText /\ gver[f] # NoVersion
          BY <2>1, <2>2, <3>2 DEF OverlayAfter, Entries, Releasable
        <4>2. f \notin HeldClosed(req)
          BY <2>1, <2>2, <3>2, <4>1 DEF OverlayAfter, Entries
        <4> QED  BY <2>1, <3>2, <4>1, <4>2 DEF VersionAfter, Entries, Releasable
      <3> QED  BY <3>1, <3>2
    <2>3. req'.closed = {}
      BY <2>1 DEF NoRequest
    <2> QED  BY <2>2, <2>3 DEF Releasable
  <1>4. CASE ListFiles \/ UNCHANGED vars
    BY <1>4 DEF ListFiles, vars, goVars, Releasable, Entries
  <1> QED  BY <1>1, <1>2, <1>3, <1>4 DEF Next, Sync

LEMMA ReleasableHolds == Spec => []Releasable
  <1>1. Init => Releasable
    BY DEF Init, Releasable, NoRequest
  <1> QED  BY <1>1, InvHolds, ReleasableNext, PTL DEF Spec

\* A tab that the client closed gives up its overlay and its place among the roots
\* with the next program, unless the same request opens it again, whatever was
\* pushed for it and by whichever synchronisation (tsgoChecker.ts:8405-8424).
THEOREM ClosedTabsReleased == Spec => ClosedTabReleased
  <1>1. ASSUME IInv, Releasable, NEW f \in File,
               UpdateSnapshot, f \in req.closed \ (Entries(req) \union req.open)
        PROVE  overlay'[f] = NoText /\ f \notin apiOpen'
    <2>1. f \notin Roots
      BY <1>1 DEF Releasable
    <2>2. f \notin apiOpen'
      BY <1>1 DEF UpdateSnapshot, HeldClosed
    <2>3. overlay'[f] = OverlayAfter(req, f)
      BY <1>1 DEF UpdateSnapshot
    <2> QED  BY <1>1, <2>1, <2>2, <2>3 DEF OverlayAfter, Entries, HeldClosed, Releasable
  <1>2. IInv /\ Releasable /\ [Next]_vars =>
            [\A f \in File : UpdateSnapshot /\ f \in req.closed \ (Entries(req) \union req.open)
                => overlay'[f] = NoText /\ f \notin apiOpen']_vars
    BY <1>1
  <1> QED  BY <1>2, InvHolds, ReleasableHolds, PTL DEF Spec, ClosedTabReleased

-----------------------------------------------------------------------------
(* The plans of the three synchronisations, in full. *)

\* What a synchronisation of S leaves: the request carries its plan, or nothing
\* when there is nothing to push and nothing changed.
Sends(S, X, C, O, A) ==
    /\ SyncOf(S, X, C, O, A)
    /\ phase' \in {"idle", "landed"} => Pushed(S) = {} /\ X = {} /\ C = {}

\* What was sent, and what is left of the mirror, of the texts and of Go.
Sent(S, X, C, A) ==
    /\ Entries(req') = Pushed(S) /\ Pushed(S) \subseteq S
    /\ req'.changed = X /\ req'.closed \subseteq C
    /\ phase' \in {"creating", "syncing"} => req'.add = A
    /\ phase' \in {"idle", "landed"} => Pushed(S) = {} /\ X = {} /\ C = {}
    /\ \A f \in Pushed(S) : req'.text[f] = HostText(f) /\ HostText(f) # NoText
    /\ \A f \in File : /\ f \in Released(S) \union C => mirror'[f] = NoText
                       /\ f \notin Released(S) \union C => mirror'[f] = mirror[f]
    /\ UNCHANGED goVars /\ UNCHANGED <<disk, dver, tabs>>
    /\ unheard' = unheard \ Reloaded(S)
    /\ \A f \in File : HostText(f)' = HostText(f)

LEMMA SendsFacts ==
    ASSUME TypeOK, NEW S \in SUBSET File, NEW X \in SUBSET File, NEW C \in SUBSET File,
           NEW O \in SUBSET File, NEW A \in SUBSET File, Sends(S, X, C, O, A)
    PROVE  Sent(S, X, C, A)
  <1>1. Pushed(S) \subseteq S /\ Pushed(S) \subseteq File
    BY DEF Pushed, FullPush, DeltaPush, Served
  <1>2. \A f \in Pushed(S) : HostText(f) # NoText
    BY PlanEntries
  <1>5. LoadTexts(S) /\ Forget(Released(S) \union C, Consumed(S)) /\ UNCHANGED goVars
    BY DEF Sends, SyncOf
  <1>6. \A f \in File : HostText(f)' = HostText(f)
    BY <1>5, HostTextKept
  <1>7. /\ UNCHANGED <<disk, dver, tabs>> /\ unheard' = unheard \ Reloaded(S)
        /\ \A f \in File : /\ f \in Released(S) \union C => mirror'[f] = NoText
                           /\ f \notin Released(S) \union C => mirror'[f] = mirror[f]
    BY <1>5 DEF LoadTexts, Forget
  <1>8. /\ Entries(req') = Pushed(S) /\ req'.changed = X
        /\ phase' \in {"creating", "syncing"} => req'.add = A
        /\ req'.closed \subseteq C
        /\ \A f \in Pushed(S) : req'.text[f] = HostText(f)
    <2>1. \/ req' = NoRequest /\ phase' \in {"idle", "landed"}
          \/ req' = PlanRequest(S, X, C, O, A) /\ phase' \in {"creating", "syncing"}
      BY DEF Sends, SyncOf
    <2>2. CASE req' = NoRequest /\ phase' \in {"idle", "landed"}
      BY <2>2 DEF Sends, NoRequest, Entries
    <2>3. CASE req' = PlanRequest(S, X, C, O, A) /\ phase' \in {"creating", "syncing"}
      BY <1>1, <2>3 DEF PlanRequest, Entries, Pushed
    <2> QED  BY <2>1, <2>2, <2>3
  <1> QED  BY <1>1, <1>2, <1>5, <1>6, <1>7, <1>8 DEF Sent, Sends

LEMMA CreatePlan ==
    ASSUME TypeOK, CreateProgram
    PROVE  \E S, X, C \in SUBSET File :
              /\ Sent(S, X, C, ProgramNames)
              /\ C = {} \/ (Server /\ C \intersect tabs = {})
              /\ S \subseteq ProgramNames
              /\ \A f \in ProgramNames \ S :
                    f \in Plain /\ f \in DiskFiles /\ mirror[f] = NoText /\ (Server => f \notin tabs)
              /\ X = DrainedChanged(ext \union (IF Server THEN {} ELSE StampMoved(known)))
              /\ phase' \in {"creating", "landed"}
              /\ phase' = "landed" => last.landed /\ last.add = ProgramNames
              /\ ext' = Reloaded(S)
  <1> DEFINE moved   == IF Server THEN {} ELSE StampMoved(known)
             signals == ext \union moved
             needed  == CollectNeeded(signals)
             walked  == IF needed THEN {f \in ProgramNames : CanDiverge(f, signals)} ELSE {}
             closed  == IF Server THEN sent \ tabs ELSE {}
             opened  == IF Server THEN ProgramNames ELSE {}
             request == PlanRequest(walked, DrainedChanged(signals), closed, opened, ProgramNames)
             nothing == NothingToSend(request)
  <1>1. ProgramNames \subseteq File /\ tabs \subseteq File
    BY DEF ProgramNames, TypeOK
  <1>2. walked \in SUBSET File /\ closed \in SUBSET File /\ opened \in SUBSET File
        /\ DrainedChanged(signals) \in SUBSET File
    BY <1>1 DEF TypeOK, DrainedChanged
  <1>3. Synchronise(walked, request, nothing, "creating", "landed") /\ ext' = Reloaded(walked)
    BY DEF CreateProgram
  <1>4. /\ request.closed = closed /\ request.full \union request.delta = Pushed(walked)
        /\ request.changed = DrainedChanged(signals) /\ request.add = ProgramNames
    BY DEF PlanRequest, Pushed
  <1>5. closed = {} \/ (Server /\ closed \intersect tabs = {})
    OBVIOUS
  <1>6. walked \subseteq ProgramNames
    OBVIOUS
  <1>7. \A f \in ProgramNames \ walked :
            f \in Plain /\ f \in DiskFiles /\ mirror[f] = NoText /\ (Server => f \notin tabs)
    <2>1. CASE needed
      BY <2>1 DEF CanDiverge
    <2>2. CASE ~needed
      BY <1>1, <2>2 DEF CollectNeeded
    <2> QED  BY <2>1, <2>2
  <1>8. request = PlanRequest(walked, DrainedChanged(signals), closed, opened, ProgramNames)
    OBVIOUS
  <1> HIDE DEF closed, opened, walked, request, nothing, needed
  <1>9. SyncOf(walked, DrainedChanged(signals), closed, opened, ProgramNames)
    BY <1>3, <1>4, <1>8 DEF Synchronise, SyncOf
  <1>10. phase' \in {"creating", "landed"} /\ (phase' = "landed" => nothing)
    BY <1>3 DEF Synchronise
  <1>11. nothing => /\ Pushed(walked) = {} /\ DrainedChanged(signals) = {} /\ closed = {}
                    /\ last.landed /\ last.add = ProgramNames
    <2> HIDE DEF signals
    <2>1. nothing => Pushed(walked) \union request.changed \union request.closed = {}
                     /\ last = [landed |-> TRUE, open |-> request.open, add |-> request.add]
      BY <1>4 DEF nothing, NothingToSend
    <2>2. nothing => last.landed /\ last.add = request.add
      BY <2>1
    <2> QED  BY <1>4, <2>1, <2>2
  <1>12. Sent(walked, DrainedChanged(signals), closed, ProgramNames)
    <2>1. Sends(walked, DrainedChanged(signals), closed, opened, ProgramNames)
      BY <1>9, <1>10, <1>11 DEF Sends
    <2> HIDE DEF signals
    <2> QED  BY <1>1, <1>2, <2>1, SendsFacts
  <1>13. DrainedChanged(signals) = DrainedChanged(ext \union (IF Server THEN {} ELSE StampMoved(known)))
    OBVIOUS
  <1> HIDE DEF signals
  <1> QED  BY <1>2, <1>3, <1>5, <1>6, <1>7, <1>10, <1>11, <1>12, <1>13

LEMMA LatePlan ==
    ASSUME TypeOK, LatePass,
           NEW M, M = IF Server THEN {} ELSE StampMoved(prog)
    PROVE  \E S, X \in SUBSET File :
              /\ Sent(S, X, {}, last.add)
              /\ S = ({f \in prog \ pass.collected : ~Server /\ (mirror[f] # NoText \/ f \in M)}
                      \union {f \in prog \ Plain : mirror[f] = NoText}) \intersect Candidate
              /\ X = M \ Pushed(S)
              /\ phase' \in {"syncing", "idle"}
              /\ ext' = ext \union Reloaded(S)
  <1> DEFINE walked  == ({f \in prog \ pass.collected : ~Server /\ (mirror[f] # NoText \/ f \in M)}
                         \union {f \in prog \ Plain : mirror[f] = NoText}) \intersect Candidate
             request == PlanRequest(walked, M \ Pushed(walked), {}, last.open, last.add)
             nothing == Pushed(walked) \union M = {}
  <1>1. walked \in SUBSET File /\ M \ Pushed(walked) \in SUBSET File
        /\ last.open \in SUBSET File /\ last.add \in SUBSET File
    BY DEF TypeOK, StampMoved, Stampable, Candidate
  <1>2. Synchronise(walked, request, nothing, "syncing", "idle") /\ ext' = ext \union Reloaded(walked)
    BY DEF LatePass
  <1>3. request.closed = {} /\ request = PlanRequest(walked, M \ Pushed(walked), {}, last.open, last.add)
    BY DEF PlanRequest
  <1>4. walked = ({f \in prog \ pass.collected : ~Server /\ (mirror[f] # NoText \/ f \in M)}
                  \union {f \in prog \ Plain : mirror[f] = NoText}) \intersect Candidate
    OBVIOUS
  <1> HIDE DEF walked, request, nothing
  <1>5. SyncOf(walked, M \ Pushed(walked), {}, last.open, last.add)
    BY <1>2, <1>3 DEF Synchronise, SyncOf
  <1>6. phase' \in {"syncing", "idle"} /\ (phase' = "idle" => nothing)
    BY <1>2 DEF Synchronise
  <1>7. nothing => Pushed(walked) = {} /\ M \ Pushed(walked) = {}
    BY DEF nothing
  <1>8. Sent(walked, M \ Pushed(walked), {}, last.add)
    <2>1. Sends(walked, M \ Pushed(walked), {}, last.open, last.add)
      BY <1>5, <1>6, <1>7 DEF Sends
    <2> QED  BY <1>1, <2>1, SendsFacts
  <1> QED  BY <1>1, <1>2, <1>4, <1>6, <1>8

LEMMA PushPlan ==
    ASSUME TypeOK, NEW named \in SUBSET File, PushOverlay(named)
    PROVE  \E S, X \in SUBSET File :
              /\ Sent(S, X, {}, last.add)
              /\ S = (IF Server THEN ProgramNames ELSE {}) \union named
              /\ X = DrainedChanged(ext)
              /\ phase' \in {"syncing", "idle"}
              /\ ext' = Reloaded(S)
  <1> DEFINE names   == (IF Server THEN ProgramNames ELSE {}) \union named
             request == PlanRequest(names, DrainedChanged(ext), {}, names, last.add)
             nothing == NothingToSend(request) \/ (names = {} /\ request.changed = {})
  <1>1. names \in SUBSET File /\ DrainedChanged(ext) \in SUBSET File /\ last.add \in SUBSET File
    BY DEF ProgramNames, TypeOK, DrainedChanged
  <1>2. Synchronise(names, request, nothing, "syncing", "idle") /\ ext' = Reloaded(names)
    BY DEF PushOverlay, QueryNames
  <1>3. /\ request.closed = {} /\ request.full \union request.delta = Pushed(names)
        /\ request.changed = DrainedChanged(ext)
        /\ request = PlanRequest(names, DrainedChanged(ext), {}, names, last.add)
    BY DEF PlanRequest, Pushed
  <1>4. names = {} => Pushed(names) = {}
    BY DEF Pushed, FullPush, DeltaPush, Served
  <1>5. names = (IF Server THEN ProgramNames ELSE {}) \union named
    OBVIOUS
  <1> HIDE DEF names, request, nothing
  <1>6. SyncOf(names, DrainedChanged(ext), {}, names, last.add)
    BY <1>2, <1>3 DEF Synchronise, SyncOf
  <1>7. phase' \in {"syncing", "idle"} /\ (phase' = "idle" => nothing)
    BY <1>2 DEF Synchronise
  <1>8. nothing => Pushed(names) = {} /\ DrainedChanged(ext) = {}
    BY <1>3, <1>4 DEF nothing, NothingToSend
  <1>9. Sent(names, DrainedChanged(ext), {}, last.add)
    <2>1. Sends(names, DrainedChanged(ext), {}, names, last.add)
      BY <1>6, <1>7, <1>8 DEF Sends
    <2> QED  BY <1>1, <2>1, SendsFacts
  <1> QED  BY <1>1, <1>2, <1>5, <1>7, <1>9

\* How a plan judges a file that it looks at and the host has a text of: it is
\* pushed, or the mirror has that very text, or the disk has it and no overlay
\* stays on the client's side.
LEMMA Judged ==
    ASSUME TypeOK, NEW S \in SUBSET File, NEW f \in S \intersect Candidate, HostText(f) # NoText
    PROVE  \/ f \in Pushed(S)
           \/ f \notin Released(S) /\ Diverges(f) /\ mirror[f] = HostText(f)
           \/ HostText(f) = disk[f] /\ (mirror[f] = NoText \/ f \in Released(S))
  <1>1. f \in Served(S)
    BY DEF Served
  <1> QED  BY <1>1 DEF Pushed, FullPush, Released, Diverges

-----------------------------------------------------------------------------
(* What Go has read from disk. *)

\* A file of the program without an overlay has been read; what was read is on
\* disk still, unless a signal or the request in flight will have it read again.
DiskRead ==
    \A f \in File :
        /\ frozen[f] # NoText => f \in DiskFiles
        /\ f \in prog /\ overlay[f] = NoText => frozen[f] # NoText
        /\ overlay[f] = NoText /\ frozen[f] # NoText =>
               frozen[f] = disk[f] \/ f \in unheard \union ext \union req.changed

\* A synchronisation turns every signal it drains into a change of its request,
\* and what it reads itself into a signal.
LEMMA SyncDrains ==
    ASSUME IInv, CreateProgram \/ LatePass \/ \E named \in SUBSET File : PushOverlay(named)
    PROVE  /\ UNCHANGED goVars /\ UNCHANGED disk
           /\ \A f \in DiskFiles :
                  mirror[f] = NoText /\ f \in unheard \union ext
                  => f \in unheard' \union ext' \union req'.changed
           /\ req.changed = {}
  <1>1. TypeOK
    BY DEF IInv
  <1>2. req.changed = {}
    <2>1. CreateProgram => phase = "idle"
      BY DEF CreateProgram
    <2>2. LatePass => phase = "landed"
      BY DEF LatePass
    <2>3. \A named \in SUBSET File : PushOverlay(named) => phase = "idle"
      BY DEF PushOverlay
    <2>4. phase \in {"idle", "landed"}
      BY <2>1, <2>2, <2>3
    <2> QED  BY <2>4 DEF IInv, InFlight, NoRequest
  <1>3. CASE CreateProgram
    <2>1. PICK S \in SUBSET File, X \in SUBSET File, C \in SUBSET File :
              /\ Sent(S, X, C, ProgramNames) /\ ext' = Reloaded(S)
              /\ X = DrainedChanged(ext \union (IF Server THEN {} ELSE StampMoved(known)))
      BY <1>1, <1>3, CreatePlan
    <2>3. req'.changed = X /\ UNCHANGED goVars /\ UNCHANGED disk /\ unheard' = unheard \ Reloaded(S)
      BY <2>1 DEF Sent
    <2> QED  BY <1>2, <2>1, <2>3 DEF DrainedChanged
  <1>4. CASE LatePass
    <2> DEFINE M == IF Server THEN {} ELSE StampMoved(prog)
    <2>1. PICK S \in SUBSET File, X \in SUBSET File :
              Sent(S, X, {}, last.add) /\ ext' = ext \union Reloaded(S)
      <3> HIDE DEF M
      <3> QED  BY <1>1, <1>4, LatePlan DEF M
    <2>3. UNCHANGED goVars /\ UNCHANGED disk /\ unheard' = unheard \ Reloaded(S)
      BY <2>1 DEF Sent
    <2> QED  BY <1>2, <2>1, <2>3
  <1>5. ASSUME NEW named \in SUBSET File, PushOverlay(named)
        PROVE  /\ UNCHANGED goVars /\ UNCHANGED disk
               /\ \A f \in DiskFiles : mirror[f] = NoText /\ f \in unheard \union ext
                                       => f \in unheard' \union ext' \union req'.changed
    <2>1. PICK S \in SUBSET File, X \in SUBSET File :
              Sent(S, X, {}, last.add) /\ ext' = Reloaded(S) /\ X = DrainedChanged(ext)
      BY <1>1, <1>5, PushPlan
    <2>3. req'.changed = X /\ UNCHANGED goVars /\ UNCHANGED disk /\ unheard' = unheard \ Reloaded(S)
      BY <2>1 DEF Sent
    <2> QED  BY <2>1, <2>3 DEF DrainedChanged
  <1> QED  BY <1>2, <1>3, <1>4, <1>5

LEMMA DiskReadNext == IInv /\ DiskRead /\ [Next]_vars => DiskRead'
  <1> SUFFICES ASSUME IInv, DiskRead, [Next]_vars, NEW f \in File
               PROVE  /\ frozen'[f] # NoText => f \in DiskFiles
                      /\ f \in prog' /\ overlay'[f] = NoText => frozen'[f] # NoText
                      /\ overlay'[f] = NoText /\ frozen'[f] # NoText =>
                             frozen'[f] = disk'[f] \/ f \in unheard' \union ext' \union req'.changed
    BY DEF DiskRead
  <1>1. CASE Environment
    BY <1>1, EnvironmentKeeps, EnvironmentReads DEF DiskRead, goVars
  <1>2. CASE CreateProgram \/ LatePass \/ \E named \in SUBSET File : PushOverlay(named)
    <2>1. overlay[f] = NoText => mirror[f] = NoText
      BY DEF IInv, MirrorExact
    <2> QED  BY <1>2, <2>1, SyncDrains DEF DiskRead, goVars
  <1>3. CASE UpdateSnapshot
    <2>1. UNCHANGED <<disk, unheard, ext>> /\ (disk[f] # NoText => f \in DiskFiles)
      BY <1>3 DEF UpdateSnapshot, envVars, IInv, DiskKept
    <2>2. /\ f \in Entries(req) => overlay'[f] # NoText
          /\ f \notin Entries(req) => overlay'[f] = overlay[f]
                                      \/ (overlay'[f] = NoText /\ f \in HeldClosed(req))
          /\ frozen'[f] \in {disk[f], frozen[f], NoText}
          /\ overlay'[f] = NoText /\ f \in prog' => frozen'[f] # NoText
          /\ f \in req.changed \union HeldClosed(req) => frozen'[f] \in {disk[f], NoText}
      BY <1>3, UpdateServes
    <2> QED  BY <2>1, <2>2 DEF DiskRead
  <1>4. CASE ListFiles \/ UNCHANGED vars
    BY <1>4 DEF ListFiles, vars, envVars, goVars, DiskRead
  <1> QED  BY <1>1, <1>2, <1>3, <1>4 DEF Next, Sync

LEMMA DiskReadHolds == Spec => []DiskRead
  <1>1. Init => DiskRead
    BY DEF Init, DiskRead
  <1> QED  BY <1>1, InvHolds, DiskReadNext, PTL DEF Spec

-----------------------------------------------------------------------------
(* What tsserver has read from disk. *)

\* The text of a script info that is not open is the disk's, unless it is to be
\* read again or the rewrite was not heard of.
InfoRead ==
    Server =>
        /\ reread \subseteq DiskFiles
        /\ \A f \in File \ tabs :
               info[f] # NoText /\ f \notin reread => f \in DiskFiles /\ (info[f] = disk[f] \/ f \in unheard)

\* What is not on disk is mirrored or pushed only for an open tab.
OffDisk ==
    Server => \A f \in File \ (DiskFiles \union tabs \union unheard) : mirror[f] = NoText /\ f \notin Entries(req)

LEMMA RawRead ==
    ASSUME IInv, InfoRead, Server, NEW f \in File \ (tabs \union unheard)
    PROVE  RawText(f) = disk[f] /\ (f \in Plain => HostText(f) = disk[f])
           /\ (f \notin DiskFiles => HostText(f) = NoText)
  <1>1. RawText(f) = disk[f]
    BY DEF InfoRead, RawText, NeverLoaded
  <1> QED  BY <1>1 DEF HostText, IInv, DiskKept

LEMMA InfoReadNext == IInv /\ InfoRead /\ [Next]_vars => InfoRead'
  <1> SUFFICES ASSUME IInv, InfoRead, [Next]_vars, Server PROVE InfoRead'
    BY DEF InfoRead
  <1>1. ASSUME NEW g \in File, NEW t \in Text, WriteDisk(g, t) PROVE InfoRead'
    BY <1>1 DEF WriteDisk, InfoRead, IInv, TypeOK
  <1>2. ASSUME NEW g \in File, NEW t \in Text, OpenTab(g, t) PROVE InfoRead'
    BY <1>2 DEF OpenTab, HostStep, InfoRead, IInv, TypeOK
  <1>3. ASSUME NEW g \in File, NEW e \in Edit, EditTab(g, e) PROVE InfoRead'
    BY <1>3 DEF EditTab, HostStep, InfoRead, IInv, TypeOK
  <1>4. ASSUME NEW g \in File, ReloadTab(g) \/ WatchEvent(g) PROVE InfoRead'
    BY <1>4 DEF ReloadTab, WatchEvent, HostStep, NeverLoaded, InfoRead, IInv, TypeOK
  <1>5. ASSUME NEW g \in File, CloseTab(g) PROVE InfoRead'
    BY <1>5 DEF CloseTab, HostStep, InfoRead, IInv, TypeOK
  <1>6. ASSUME NEW g \in File, Materialize(g) \/ \E t \in MaybeText : ServeText(g, t) PROVE InfoRead'
    BY <1>6 DEF Materialize, ServeText
  <1>7. CASE Environment
    BY <1>1, <1>2, <1>3, <1>4, <1>5, <1>6, <1>7 DEF Environment
  <1>8. ASSUME NEW S, LoadTexts(S) PROVE InfoRead'
    BY <1>8 DEF LoadTexts, Unread, Reloaded, InfoRead
  <1>9. CASE Sync
    BY <1>8, <1>9 DEF Sync, CreateProgram, LatePass, PushOverlay, UpdateSnapshot, ListFiles,
                      Synchronise, InfoRead, envVars
  <1>10. CASE UNCHANGED vars
    BY <1>10 DEF vars, envVars, InfoRead
  <1> QED  BY <1>7, <1>9, <1>10 DEF Next

LEMMA InfoReadHolds == Spec => []InfoRead
  <1>1. Init => InfoRead
    BY DEF Init, InfoRead
  <1> QED  BY <1>1, InvHolds, InfoReadNext, PTL DEF Spec

LEMMA OffDiskSync ==
    ASSUME IInv, InfoRead, OffDisk,
           NEW S \in SUBSET File, NEW X, NEW C, NEW A, Sent(S, X, C, A)
    PROVE  OffDisk'
  <1> SUFFICES ASSUME Server, NEW f \in File \ (DiskFiles \union tabs' \union unheard')
               PROVE  mirror'[f] = NoText /\ f \notin Entries(req')
    BY DEF OffDisk
  <1>2. /\ Entries(req') = Pushed(S) /\ tabs' = tabs /\ unheard' = unheard \ Reloaded(S)
        /\ mirror'[f] \in {mirror[f], NoText}
        /\ f \in Pushed(S) => HostText(f) # NoText
    BY DEF Sent
  <1>3. f \notin tabs \union unheard
    BY <1>2 DEF Reloaded, Unread
  <1>4. mirror[f] = NoText /\ HostText(f) = NoText
    BY <1>3, RawRead DEF OffDisk
  <1> QED  BY <1>2, <1>4

LEMMA OffDiskNext == IInv /\ InfoRead /\ OffDisk /\ [Next]_vars => OffDisk'
  <1> SUFFICES ASSUME IInv, InfoRead, OffDisk, [Next]_vars PROVE OffDisk'
    OBVIOUS
  <1>0. TypeOK
    BY DEF IInv
  <1>1. CASE Environment
    <2>1. Server => \A f \in File \ DiskFiles : f \in tabs \union unheard => f \in tabs' \union unheard'
      <3>1. ASSUME NEW g \in File, \/ \E t \in Text : WriteDisk(g, t) \/ OpenTab(g, t)
                                   \/ CloseTab(g)
            PROVE  tabs \union unheard \subseteq tabs' \union unheard'
        BY <3>1 DEF WriteDisk, OpenTab, CloseTab
      <3>2. ASSUME NEW g \in File, \/ ReloadTab(g) \/ WatchEvent(g) \/ Materialize(g)
                                   \/ \E e \in Edit : EditTab(g, e)
                                   \/ \E t \in MaybeText : ServeText(g, t)
            PROVE  tabs' = tabs /\ unheard \subseteq unheard' \union tabs \union DiskFiles
        BY <3>2 DEF ReloadTab, WatchEvent, Materialize, EditTab, ServeText
      <3> QED  BY <1>1, <3>1, <3>2 DEF Environment
    <2> QED  BY <1>1, <2>1, EnvironmentKeeps DEF OffDisk
  <1>2. CASE CreateProgram
    <2>2. PICK S \in SUBSET File, X \in SUBSET File, C \in SUBSET File :
              Sent(S, X, C, ProgramNames)
      BY <1>0, <1>2, CreatePlan
    <2> QED  BY <2>2, OffDiskSync
  <1>3. CASE LatePass
    <2> DEFINE M == IF Server THEN {} ELSE StampMoved(prog)
    <2>2. PICK S \in SUBSET File, X \in SUBSET File : Sent(S, X, {}, last.add)
      <3> HIDE DEF M
      <3> QED  BY <1>0, <1>3, LatePlan DEF M
    <2> QED  BY <2>2, OffDiskSync
  <1>4. ASSUME NEW named \in SUBSET File, PushOverlay(named) PROVE OffDisk'
    <2>2. PICK S \in SUBSET File, X \in SUBSET File : Sent(S, X, {}, last.add)
      BY <1>0, <1>4, PushPlan
    <2> QED  BY <2>2, OffDiskSync
  <1>5. CASE UpdateSnapshot
    <2>1. UNCHANGED <<tabs, unheard>> /\ Entries(req') = {}
      BY <1>5 DEF UpdateSnapshot, envVars, Entries, NoRequest
    <2>2. \A f \in File : mirror'[f] = Landing(f)
      BY <1>5, UpdateServes
    <2> QED  BY <2>1, <2>2 DEF OffDisk, Landing
  <1>6. CASE ListFiles \/ UNCHANGED vars
    BY <1>6 DEF ListFiles, vars, envVars, mirrorVars, OffDisk
  <1> QED  BY <1>1, <1>2, <1>3, <1>4, <1>5, <1>6 DEF Next, Sync

LEMMA OffDiskHolds == Spec => []OffDisk
  <1>1. Init => OffDisk
    BY DEF Init, OffDisk, NoRequest, Entries
  <1> QED  BY <1>1, InvHolds, InfoReadHolds, OffDiskNext, PTL DEF Spec

-----------------------------------------------------------------------------
(* The names a program is created with. *)

\* A creation asks for the script names and the tabs; every program holds what
\* is on disk of the names it was asked with, and its late pass comes before
\* any other synchronisation.
Names ==
    /\ phase \in {"landed", "syncing"} => last.landed
    /\ phase = "creating" => req.add = ProgramNames
    /\ phase = "landed" => last.add = ProgramNames
    /\ phase = "syncing" => req.add = last.add
    /\ ~Server /\ last.landed => last.add = Roots
    /\ last.landed => last.add \intersect DiskFiles \subseteq prog
    /\ phase \in {"creating", "landed"} /\ settled # "none" =>
           settled = "create" /\ (Server => pass.collected = ProgramNames)

\* A program reads every file on disk that it is asked for.
LEMMA RootsRead ==
    ASSUME IInv, UpdateSnapshot
    PROVE  req.add \intersect DiskFiles \subseteq prog'
  <1> SUFFICES ASSUME NEW f \in req.add \intersect DiskFiles PROVE f \in prog'
    OBVIOUS
  <1>1. f \in File /\ disk[f] # NoText
    BY DEF IInv, DiskKept
  <1>2. TextAfter(req, f) # NoText
    BY <1>1 DEF TextAfter
  <1> HIDE DEF TextAfter
  <1>3. prog' = ProgramAfter(req)
    BY DEF UpdateSnapshot
  <1> QED  BY <1>1, <1>2, <1>3 DEF ProgramAfter

LEMMA NamesNext == IInv /\ Names /\ [Next]_vars => Names'
  <1> SUFFICES ASSUME IInv, Names, [Next]_vars PROVE Names'
    OBVIOUS
  <1>0. TypeOK /\ (~Server => ProgramNames = Roots)
    BY DEF IInv, ServerOnly, ProgramNames
  <1>1. CASE Environment
    <2>1. phase # "idle" => UNCHANGED tabs
      BY <1>1 DEF Environment, HostStep, WriteDisk, Materialize, WatchEvent, ReloadTab, CloseTab,
                  OpenTab, EditTab, ServeText
    <2> QED  BY <1>1, <2>1, EnvironmentKeeps DEF Names, ProgramNames, goVars
  <1>2. CASE CreateProgram
    <2>2. PICK S \in SUBSET File, X \in SUBSET File, C \in SUBSET File :
              /\ Sent(S, X, C, ProgramNames) /\ phase' \in {"creating", "landed"}
              /\ phase' = "landed" => last.landed /\ last.add = ProgramNames
      BY <1>0, <1>2, CreatePlan
    <2>3. UNCHANGED goVars /\ UNCHANGED tabs
          /\ (phase' \in {"creating", "syncing"} => req'.add = ProgramNames)
      BY <2>2 DEF Sent
    <2>4. last' = last /\ settled' = "create"
      BY <1>2 DEF CreateProgram
    <2>5. Server => pass'.collected = ProgramNames
      BY <1>0, <1>2 DEF CreateProgram, TypeOK
    <2> QED  BY <2>2, <2>3, <2>4, <2>5 DEF Names, ProgramNames, goVars
  <1>3. CASE LatePass
    <2>1. phase = "landed" /\ last' = last
      BY <1>3 DEF LatePass
    <2> DEFINE M == IF Server THEN {} ELSE StampMoved(prog)
    <2>2. PICK S \in SUBSET File, X \in SUBSET File :
              Sent(S, X, {}, last.add) /\ phase' \in {"syncing", "idle"}
      <3> HIDE DEF M
      <3> QED  BY <1>0, <1>3, LatePlan DEF M
    <2>3. UNCHANGED goVars /\ (phase' \in {"creating", "syncing"} => req'.add = last.add)
      BY <2>1, <2>2 DEF Sent
    <2> QED  BY <2>1, <2>2, <2>3 DEF Names, goVars
  <1>4. ASSUME NEW named \in SUBSET File, PushOverlay(named) PROVE Names'
    <2>1. last.landed /\ last' = last
      BY <1>4 DEF PushOverlay, trackVars
    <2>2. PICK S \in SUBSET File, X \in SUBSET File :
              Sent(S, X, {}, last.add) /\ phase' \in {"syncing", "idle"}
      BY <1>0, <1>4, PushPlan
    <2>3. UNCHANGED goVars /\ (phase' \in {"creating", "syncing"} => req'.add = last.add)
      BY <2>1, <2>2 DEF Sent
    <2> QED  BY <2>1, <2>2, <2>3 DEF Names, goVars
  <1>5. CASE UpdateSnapshot
    <2>1. /\ last' = [landed |-> TRUE, open |-> req.open, add |-> req.add]
          /\ phase \in {"creating", "syncing"}
          /\ phase = "creating" => phase' = "landed"
          /\ phase = "syncing" => phase' = "idle"
          /\ UNCHANGED <<tabs, settled, pass>>
      BY <1>5 DEF UpdateSnapshot, envVars
    <2>2. last'.landed /\ last'.add = req.add
      BY <2>1
    <2>3. req.add \intersect DiskFiles \subseteq prog'
      BY <1>5, RootsRead
    <2> QED  BY <1>0, <2>1, <2>2, <2>3 DEF Names, ProgramNames
  <1>6. CASE ListFiles
    BY <1>6 DEF ListFiles, envVars, goVars, Names, ProgramNames
  <1>7. CASE UNCHANGED vars
    BY <1>7 DEF vars, envVars, goVars, trackVars, Names, ProgramNames
  <1> QED  BY <1>1, <1>2, <1>3, <1>4, <1>5, <1>6, <1>7 DEF Next, Sync

LEMMA NamesHold == Spec => []Names
  <1>1. Init => Names
    BY DEF Init, Names
  <1> QED  BY <1>1, InvHolds, NamesNext, PTL DEF Spec

-----------------------------------------------------------------------------
(* Heard changes reach Go. *)

\* After a synchronisation, and until the environment moves on, a name that is
\* not excused by a signal yet to be drained either lands as the host has it, or
\* has no overlay and is as on disk.  A name with an extra extension that has
\* no overlay is decided by the late pass only.
SettledNames ==
    Server /\ settled # "none" =>
        /\ settled = "create" => asked = {}
        /\ \A f \in Candidate \ (unheard \union ext) :
            /\ f \in Planned /\ Landing(f) # NoText => Landing(f) = HostText(f)
            /\ Landing(f) = NoText
               /\ (f \in Planned \/ (settled = "create" /\ f \in pass.collected))
               /\ (f \in Plain \/ phase \in {"idle", "syncing"})
               => HostText(f) = disk[f]

\* Where the host has no text there is no tab, no file and no overlay.
LEMMA Unserved ==
    ASSUME SInv, InfoRead, OffDisk, Server, NEW f \in File \ unheard, HostText(f) = NoText
    PROVE  f \notin tabs /\ disk[f] = NoText /\ mirror[f] = NoText
  <1>1. f \notin tabs
    BY TabText
  <1>2. RawText(f) = disk[f]
    BY <1>1, RawRead DEF SInv
  <1>3. disk[f] \in MaybeText
    BY DEF SInv, IInv, TypeOK
  <1>4. disk[f] = NoText
    BY <1>2, <1>3 DEF HostText, MaybeText
  <1> QED  BY <1>1, <1>4 DEF OffDisk, SInv, IInv, DiskKept

LEMMA SettledCreate ==
    ASSUME SInv, InfoRead, OffDisk, Server, CreateProgram
    PROVE  SettledNames'
  <1>0. TypeOK /\ IInv /\ ProgramNames \in SUBSET File
    BY DEF SInv, IInv, TypeOK, ProgramNames
  <1>1. PICK S \in SUBSET File, X \in SUBSET File, C \in SUBSET File :
            /\ Sent(S, X, C, ProgramNames)
            /\ C = {} \/ (Server /\ C \intersect tabs = {})
            /\ \A f \in ProgramNames \ S :
                  f \in Plain /\ f \in DiskFiles /\ mirror[f] = NoText /\ (Server => f \notin tabs)
            /\ phase' \in {"creating", "landed"}
            /\ ext' = Reloaded(S)
    BY <1>0, CreatePlan
  <1>2. /\ Entries(req') = Pushed(S) /\ Pushed(S) \subseteq S
        /\ \A f \in Pushed(S) : req'.text[f] = HostText(f) /\ HostText(f) # NoText
        /\ \A f \in File : /\ f \in Released(S) \union C => mirror'[f] = NoText
                           /\ f \notin Released(S) \union C => mirror'[f] = mirror[f]
        /\ UNCHANGED <<disk, tabs>>
        /\ unheard' = unheard \ Reloaded(S)
        /\ \A f \in File : HostText(f)' = HostText(f)
    BY <1>1 DEF Sent
  <1>3. pass'.collected = ProgramNames /\ Planned' = ProgramNames /\ asked' = {}
    BY <1>0, <1>2 DEF CreateProgram, TypeOK, ProgramNames, Planned
  <1> SUFFICES ASSUME NEW f \in Candidate \ (unheard' \union ext'), f \in ProgramNames
               PROVE  /\ Landing(f)' # NoText => Landing(f)' = HostText(f)
                      /\ Landing(f)' = NoText /\ f \in Plain => HostText(f) = disk[f]
    BY <1>1, <1>2, <1>3 DEF SettledNames, Candidate
  <1>4. f \in File \ unheard
    BY <1>1, <1>2 DEF Candidate
  <1>5. CASE f \in Pushed(S)
    BY <1>2, <1>5 DEF Landing
  <1>6. ASSUME f \notin Pushed(S)
        PROVE  Landing(f)' = mirror'[f]
    BY <1>2, <1>6 DEF Landing
  <1>7. f \notin tabs /\ f \in Plain => HostText(f) = disk[f]
    BY <1>0, <1>4, RawRead
  <1>8. CASE f \notin S
    BY <1>1, <1>2, <1>4, <1>6, <1>7, <1>8
  <1>9. CASE f \in S \ Pushed(S) /\ HostText(f) = NoText
    BY <1>2, <1>4, <1>6, <1>9, Unserved
  <1>10. CASE f \in S \ Pushed(S) /\ HostText(f) # NoText
    <2>1. \/ f \notin Released(S) /\ mirror[f] = HostText(f)
          \/ HostText(f) = disk[f] /\ (mirror[f] = NoText \/ f \in Released(S))
      BY <1>0, <1>10, Judged
    <2>2. mirror'[f] = NoText \/ mirror'[f] = mirror[f]
      BY <1>2, <1>4
    <2>3. CASE f \in C
      BY <1>1, <1>2, <1>4, <1>6, <1>7, <1>10, <2>3
    <2> QED  BY <1>2, <1>4, <1>6, <1>10, <2>1, <2>2, <2>3
  <1> QED  BY <1>5, <1>8, <1>9, <1>10

LEMMA SettledLate ==
    ASSUME SInv, InfoRead, OffDisk, Names, SettledNames, Server, LatePass
    PROVE  SettledNames'
  <1> SUFFICES ASSUME settled # "none" PROVE SettledNames'
    BY DEF LatePass, SettledNames
  <1>0. /\ TypeOK /\ IInv /\ ProgramNames \in SUBSET File
        /\ last.open \in SUBSET File /\ last.add \in SUBSET File
    BY DEF SInv, IInv, TypeOK, ProgramNames
  <1>1. /\ phase = "landed" /\ settled' = settled /\ asked' = asked /\ pass' = [NoPass EXCEPT !.collected = pass.collected \union prog]
    BY DEF LatePass
  <1>2. /\ pass'.collected = ProgramNames \union prog /\ settled = "create"
        /\ ProgramNames \intersect DiskFiles \subseteq prog
        /\ req = NoRequest
    BY <1>0, <1>1 DEF Names, NoPass, IInv, InFlight
  <1>3. PICK S \in SUBSET File, X \in SUBSET File :
            /\ Sent(S, X, {}, last.add)
            /\ S = {f \in prog \ Plain : mirror[f] = NoText} \intersect Candidate
            /\ phase' \in {"syncing", "idle"}
            /\ ext' = ext \union Reloaded(S)
    <2>0. {} = IF Server THEN {} ELSE StampMoved(prog)
      OBVIOUS
    <2>1. PICK S \in SUBSET File, X \in SUBSET File :
            /\ Sent(S, X, {}, last.add)
            /\ S = ({f \in prog \ pass.collected : ~Server /\ (mirror[f] # NoText \/ f \in {})}
                    \union {f \in prog \ Plain : mirror[f] = NoText}) \intersect Candidate
            /\ phase' \in {"syncing", "idle"}
            /\ ext' = ext \union Reloaded(S)
      BY <1>0, <2>0, LatePlan
    <2>2. S = {f \in prog \ Plain : mirror[f] = NoText} \intersect Candidate
      BY <2>1
    <2> QED  BY <2>1, <2>2
  <1>4. /\ Entries(req') = Pushed(S)
        /\ \A f \in Pushed(S) : req'.text[f] = HostText(f) /\ HostText(f) # NoText
        /\ \A f \in File : f \notin Released(S) => mirror'[f] = mirror[f]
        /\ UNCHANGED <<disk, tabs>>
        /\ unheard' = unheard \ Reloaded(S)
        /\ \A f \in File : HostText(f)' = HostText(f)
    BY <1>3 DEF Sent
  <1>5. Planned' = ProgramNames /\ Planned = ProgramNames /\ asked = {} /\ Released(S) = {}
    BY <1>1, <1>2, <1>3, <1>4 DEF ProgramNames, Planned, Released, Served, SettledNames
  <1> SUFFICES ASSUME NEW f \in Candidate \ (unheard' \union ext')
               PROVE  /\ f \in ProgramNames /\ Landing(f)' # NoText => Landing(f)' = HostText(f)
                      /\ Landing(f)' = NoText /\ f \in ProgramNames \union prog => HostText(f) = disk[f]
    BY <1>1, <1>2, <1>4, <1>5 DEF SettledNames, Candidate
  <1>6. f \in File \ unheard /\ f \notin ext
    BY <1>3, <1>4 DEF Candidate
  <1>7. CASE f \in Pushed(S)
    BY <1>4, <1>7 DEF Landing
  <1>8. CASE f \notin Pushed(S)
    <2>1. Landing(f) = mirror[f] /\ Landing(f)' = mirror[f]
      BY <1>2, <1>4, <1>5, <1>6, <1>8 DEF Landing, Entries, NoRequest
    <2>2. f \in ProgramNames /\ mirror[f] # NoText => mirror[f] = HostText(f)
      BY <1>5, <1>6, <2>1 DEF SettledNames
    <2>3. f \in ProgramNames /\ f \in Plain /\ mirror[f] = NoText => HostText(f) = disk[f]
      BY <1>5, <1>6, <2>1 DEF SettledNames
    <2>4. f \notin tabs /\ f \in Plain => HostText(f) = disk[f]
      BY <1>0, <1>6, RawRead
    <2>5. HostText(f) = NoText => HostText(f) = disk[f]
      BY <1>6, Unserved
    <2>6. ASSUME f \in S, HostText(f) # NoText
          PROVE  HostText(f) = disk[f]
      BY <1>0, <1>3, <1>8, <2>6, Judged
    <2>7. ASSUME f \in ProgramNames \ prog, f \notin Plain, mirror[f] = NoText
          PROVE  HostText(f) = disk[f]
      <3>1. disk[f] = NoText
        BY <1>0, <1>2, <1>6, <2>7 DEF IInv, DiskKept
      <3>2. CASE f \in tabs
        BY <1>2, <2>7, <3>1, <3>2, TabText DEF SInv, SettledTabs, Diverges, Entries, NoRequest
      <3>3. CASE f \notin tabs
        BY <1>0, <1>2, <1>6, <2>7, <3>1, <3>3, RawRead
      <3> QED  BY <3>2, <3>3
    <2>8. f \in prog \ Plain /\ mirror[f] = NoText => f \in S
      BY <1>3
    <2>9. f \in tabs => f \in ProgramNames
      BY DEF ProgramNames
    <2> QED  BY <2>1, <2>2, <2>3, <2>4, <2>5, <2>6, <2>7, <2>8, <2>9
  <1> QED  BY <1>7, <1>8

LEMMA SettledPush ==
    ASSUME SInv, InfoRead, OffDisk, Server, NEW named \in SUBSET File, PushOverlay(named)
    PROVE  SettledNames'
  <1>0. TypeOK /\ IInv /\ last.add \in SUBSET File
    BY DEF SInv, IInv, TypeOK
  <1>1. PICK S \in SUBSET File, X \in SUBSET File :
            /\ Sent(S, X, {}, last.add)
            /\ ProgramNames \union named \subseteq S
            /\ ext' = Reloaded(S)
    BY <1>0, PushPlan
  <1>2. /\ Entries(req') = Pushed(S)
        /\ \A f \in Pushed(S) : req'.text[f] = HostText(f) /\ HostText(f) # NoText
        /\ \A f \in File : /\ f \in Released(S) => mirror'[f] = NoText
                           /\ f \notin Released(S) => mirror'[f] = mirror[f]
        /\ UNCHANGED <<disk, tabs>>
        /\ unheard' = unheard \ Reloaded(S)
        /\ \A f \in File : HostText(f)' = HostText(f)
    BY <1>1 DEF Sent
  <1>3. settled' = "push" /\ Planned' = ProgramNames \union named
    BY <1>2 DEF PushOverlay, ProgramNames, Planned
  <1> SUFFICES ASSUME NEW f \in Candidate \ (unheard' \union ext'), f \in ProgramNames \union named
               PROVE  /\ Landing(f)' # NoText => Landing(f)' = HostText(f)
                      /\ Landing(f)' = NoText => HostText(f) = disk[f]
    BY <1>2, <1>3 DEF SettledNames, Candidate
  <1>4. f \in File \ unheard /\ f \in S
    BY <1>1, <1>2 DEF Candidate
  <1>5. CASE f \in Pushed(S)
    BY <1>2, <1>5 DEF Landing
  <1>6. CASE f \notin Pushed(S)
    <2>1. Landing(f)' = mirror'[f] /\ (mirror'[f] = mirror[f] \/ (f \in Released(S) /\ mirror'[f] = NoText))
      BY <1>2, <1>4, <1>6 DEF Landing
    <2>2. CASE HostText(f) = NoText
      BY <1>4, <2>1, <2>2, Unserved
    <2>3. CASE HostText(f) # NoText
      <3>1. \/ f \notin Released(S) /\ mirror[f] = HostText(f)
            \/ HostText(f) = disk[f] /\ (mirror[f] = NoText \/ f \in Released(S))
        BY <1>0, <1>4, <1>6, <2>3, Judged
      <3> QED  BY <1>2, <1>4, <2>1, <2>3, <3>1
    <2> QED  BY <2>2, <2>3
  <1> QED  BY <1>5, <1>6

LEMMA SettledNext == SInv /\ InfoRead /\ OffDisk /\ Names /\ SettledNames /\ [Next]_vars => SettledNames'
  <1> SUFFICES ASSUME SInv, InfoRead, OffDisk, Names, SettledNames, [Next]_vars, Server
               PROVE  SettledNames'
    BY DEF SettledNames
  <1>1. CASE Environment
    BY <1>1, EnvironmentKeeps DEF SettledNames
  <1>2. CASE CreateProgram
    BY <1>2, SettledCreate
  <1>3. CASE LatePass
    BY <1>3, SettledLate
  <1>4. ASSUME NEW named \in SUBSET File, PushOverlay(named) PROVE SettledNames'
    BY <1>4, SettledPush
  <1>5. CASE UpdateSnapshot
    <2>1. /\ UNCHANGED <<disk, info, reread, tabs, unheard, ext, pass, settled, asked>> /\ Entries(req') = {}
          /\ phase' = "idle" => phase = "syncing"
          /\ phase' # "syncing"
      BY <1>5 DEF UpdateSnapshot, envVars, Entries, NoRequest
    <2>2. \A f \in File : Landing(f)' = Landing(f)
      BY <1>5, <2>1, UpdateServes DEF SInv, Landing
    <2>3. \A f \in File : HostText(f)' = HostText(f)
      BY <2>1 DEF HostText, RawText, NeverLoaded
    <2> QED  BY <2>1, <2>2, <2>3 DEF SettledNames, Candidate, ProgramNames, Planned
  <1>6. CASE UNCHANGED vars
    BY <1>6 DEF vars, envVars, mirrorVars, trackVars, SettledNames, HostText, RawText, NeverLoaded,
                Landing, Entries, ProgramNames, Planned
  <1>7. ~ListFiles
    BY DEF ListFiles
  <1> QED  BY <1>1, <1>2, <1>3, <1>4, <1>5, <1>6, <1>7 DEF Next, Sync

LEMMA SettledHolds == Spec => []SettledNames
  <1>1. Init => SettledNames
    BY DEF Init, SettledNames
  <1> QED  BY <1>1, SInvHolds, InfoReadHolds, OffDiskHolds, NamesHold, SettledNext, PTL DEF Spec

\* Once the host has signalled a change and synchronised, Go serves the host's text
\* of every file of the program that the synchronisation plans (a script name, a tab,
\* the file the query named) or that Go reads from disk; ghosts, and files with an
\* extra extension that neither it nor its late pass looked at, are left aside.
THEOREM HeardChangesServed == Spec => []HeardReachesGo
  <1>1. SInv /\ DiskRead /\ InfoRead /\ SettledNames => HeardReachesGo
    <2> SUFFICES ASSUME SInv, DiskRead, InfoRead, SettledNames, Server, Quiet,
                        NEW f \in prog \intersect Candidate,
                        Heard(f), ~Ghost(f), f \in Planned \/ mirror[f] = NoText,
                        f \in Planned \union Plain \/ (settled = "create" /\ f \in pass.collected)
                 PROVE  GoText(f) = HostText(f)
      BY DEF HeardReachesGo
    <2>1. /\ f \in File /\ f \in Candidate \ (unheard \union ext) /\ phase = "idle" /\ settled # "none"
          /\ req = NoRequest /\ Landing(f) = mirror[f] /\ req.changed = {}
      BY DEF Candidate, Heard, Quiet, SInv, IInv, InFlight, Landing, NoRequest, Entries
    <2>2. CASE mirror[f] # NoText
      <3>1. mirror[f] = HostText(f)
        BY <2>1, <2>2 DEF SettledNames
      <3>2. overlay[f] = mirror[f]
        BY <2>1, <2>2 DEF SInv, IInv, MirrorExact
      <3> QED  BY <2>2, <3>1, <3>2 DEF GoText
    <2>3. CASE mirror[f] = NoText
      <3>1. overlay[f] = NoText /\ frozen[f] = disk[f]
        BY <2>1, <2>3 DEF Ghost, DiskRead
      <3>2. CASE f \in Planned \/ (settled = "create" /\ f \in pass.collected)
        BY <2>1, <2>3, <3>1, <3>2 DEF SettledNames, GoText
      <3>3. CASE f \in Plain \ Planned
        <4>1. HostText(f) = disk[f]
          BY <2>1, <3>3, RawRead DEF ProgramNames, Planned, SInv
        <4> QED  BY <3>1, <4>1 DEF GoText
      <3> QED  BY <3>2, <3>3
    <2> QED  BY <2>2, <2>3
  <1> QED  BY <1>1, SInvHolds, DiskReadHolds, InfoReadHolds, SettledHolds, PTL

-----------------------------------------------------------------------------
(* A direct host: what each synchronisation does to the stamps. *)

\* The stamps of the files F: the first one of a file is ordered, and so
\* comparable, only if the file has not been written since start.
StampStep(F, start) ==
    \A f \in File :
        /\ stamp'[f] \in {stamp[f], dver[f], Unordered}
        /\ stamp[f] # NoStamp => stamp'[f] # NoStamp
        /\ f \notin Stampable(F) => stamp'[f] = stamp[f]
        /\ f \in Stampable(F) => stamp'[f] # NoStamp
        /\ f \in Stampable(F) /\ stamp[f] = NoStamp /\ stamp'[f] = dver[f] => dver[f] = start[f]

LEMMA Restamps ==
    ASSUME TypeOK, NEW F, NEW start, NEW aged \in AgedFirstStamps(F, start),
           stamp' = Restamped(F, aged)
    PROVE  StampStep(F, start)
  <1> SUFFICES ASSUME NEW f \in File
               PROVE  /\ stamp'[f] \in {stamp[f], dver[f], Unordered}
                      /\ stamp[f] # NoStamp => stamp'[f] # NoStamp
                      /\ f \notin Stampable(F) => stamp'[f] = stamp[f]
                      /\ f \in Stampable(F) => stamp'[f] # NoStamp
                      /\ f \in Stampable(F) /\ stamp[f] = NoStamp /\ stamp'[f] = dver[f] => dver[f] = start[f]
    BY DEF StampStep
  <1>1. dver[f] \in Nat /\ NoStamp \notin Nat /\ Unordered \notin Nat /\ NoStamp # Unordered
    BY DEF TypeOK, NoStamp, Unordered
  <1>2. /\ f \notin Stampable(F) => stamp'[f] = stamp[f]
        /\ f \in Stampable(F) /\ (stamp[f] # NoStamp \/ f \in aged) => stamp'[f] = dver[f]
        /\ f \in Stampable(F) /\ stamp[f] = NoStamp /\ f \notin aged => stamp'[f] = Unordered
    BY DEF Restamped
  <1>3. f \in aged => dver[f] = start[f]
    BY DEF AgedFirstStamps
  <1> QED  BY <1>1, <1>2, <1>3

LEMMA DirectCreate ==
    ASSUME IInv, ~Server, CreateProgram
    PROVE  /\ phase = "idle" /\ req = NoRequest /\ settled' = "create"
           /\ phase' \in {"creating", "landed"} /\ ext' = {} /\ req'.closed = {}
           /\ phase' = "landed" => last.landed /\ req'.changed = {}
           /\ pass'.stamped = known /\ pass'.start = dver /\ pass'.collected \subseteq Roots
           /\ last' = last /\ known' = known /\ disk' = disk /\ dver' = dver /\ UNCHANGED goVars
           /\ \A f \in DiskFiles : mirror[f] = NoText /\ f \in ext \union StampMoved(known)
                                   => f \in req'.changed
           /\ StampStep(known, dver)
  <1>0. TypeOK /\ ProgramNames = Roots /\ ProgramNames \in SUBSET File
    BY DEF IInv, ServerOnly, ProgramNames
  <1>1. PICK S \in SUBSET File, X \in SUBSET File, C \in SUBSET File :
            /\ Sent(S, X, C, ProgramNames) /\ C = {}
            /\ X = DrainedChanged(ext \union StampMoved(known))
            /\ phase' \in {"creating", "landed"}
            /\ phase' = "landed" => last.landed
            /\ ext' = Reloaded(S)
    BY <1>0, CreatePlan
  <1>2. req'.changed = X /\ req'.closed \subseteq C /\ disk' = disk /\ dver' = dver /\ UNCHANGED goVars
    BY <1>1 DEF Sent
  <1>3. phase' = "landed" => X = {}
    BY <1>1 DEF Sent
  <1>4. ext' = {}
    BY <1>1 DEF Reloaded, Unread
  <1>5. phase = "idle" /\ settled' = "create" /\ last' = last /\ known' = known
    BY DEF CreateProgram
  <1>6. PICK aged \in AgedFirstStamps(known, dver) :
            /\ stamp' = Restamped(known, aged)
            /\ pass'.stamped = known /\ pass'.start = dver /\ pass'.collected \subseteq ProgramNames
    BY DEF CreateProgram
  <1>7. StampStep(known, dver)
    BY <1>0, <1>6, Restamps
  <1>8. req = NoRequest
    BY <1>5 DEF IInv, InFlight
  <1> QED  BY <1>0, <1>1, <1>2, <1>3, <1>4, <1>5, <1>6, <1>7, <1>8 DEF DrainedChanged

LEMMA DirectLate ==
    ASSUME IInv, ~Server, LatePass
    PROVE  /\ phase = "landed" /\ req = NoRequest /\ settled' = settled
           /\ phase' \in {"syncing", "idle"} /\ ext' = ext /\ req'.closed = {}
           /\ pass' = NoPass /\ known' = prog
           /\ last' = last /\ disk' = disk /\ dver' = dver /\ UNCHANGED goVars
           /\ \A f \in StampMoved(prog) : f \in req'.changed \union Entries(req')
           /\ StampStep(prog, pass.start)
  <1>0. TypeOK /\ last.open \in SUBSET File /\ last.add \in SUBSET File
    BY DEF IInv, TypeOK
  <1>1. PICK S \in SUBSET File, X \in SUBSET File :
            /\ Sent(S, X, {}, last.add)
            /\ X = StampMoved(prog) \ Pushed(S)
            /\ phase' \in {"syncing", "idle"}
            /\ ext' = ext \union Reloaded(S)
    BY <1>0, LatePlan
  <1>2. /\ Entries(req') = Pushed(S) /\ req'.changed = X /\ req'.closed \subseteq {}
        /\ disk' = disk /\ dver' = dver /\ UNCHANGED goVars
    BY <1>1 DEF Sent
  <1>3. ext' = ext
    BY <1>1 DEF Reloaded, Unread
  <1>4. phase = "landed" /\ settled' = settled /\ last' = last /\ known' = prog
        /\ pass' = [NoPass EXCEPT !.collected = {}]
    BY DEF LatePass
  <1>5. PICK aged \in AgedFirstStamps(prog, pass.start) : stamp' = Restamped(prog, aged)
    BY DEF LatePass
  <1>6. StampStep(prog, pass.start)
    BY <1>0, <1>5, Restamps
  <1>7. req = NoRequest /\ pass' = NoPass
    BY <1>4 DEF IInv, InFlight, NoPass
  <1> QED  BY <1>1, <1>2, <1>3, <1>4, <1>6, <1>7

LEMMA DirectPush ==
    ASSUME IInv, ~Server, NEW named \in SUBSET File, PushOverlay(named)
    PROVE  /\ phase = "idle" /\ last.landed /\ req = NoRequest /\ settled' = "push"
           /\ phase' \in {"syncing", "idle"} /\ ext' = {} /\ req'.closed = {}
           /\ disk' = disk /\ dver' = dver /\ UNCHANGED goVars /\ UNCHANGED <<stamp, known, last, pass>>
           /\ \A f \in DiskFiles : mirror[f] = NoText /\ f \in ext => f \in req'.changed
  <1>0. TypeOK /\ last.add \in SUBSET File
    BY DEF IInv, TypeOK
  <1>1. PICK S \in SUBSET File, X \in SUBSET File :
            /\ Sent(S, X, {}, last.add)
            /\ X = DrainedChanged(ext)
            /\ phase' \in {"syncing", "idle"}
            /\ ext' = Reloaded(S)
    BY <1>0, PushPlan
  <1>2. req'.changed = X /\ req'.closed \subseteq {} /\ disk' = disk /\ dver' = dver /\ UNCHANGED goVars
    BY <1>1 DEF Sent
  <1>3. ext' = {}
    BY <1>1 DEF Reloaded, Unread
  <1>4. phase = "idle" /\ last.landed /\ settled' = "push" /\ UNCHANGED <<stamp, known, last, pass>>
    BY DEF PushOverlay, trackVars
  <1>5. req = NoRequest
    BY <1>4 DEF IInv, InFlight
  <1> QED  BY <1>1, <1>2, <1>3, <1>4, <1>5 DEF DrainedChanged

-----------------------------------------------------------------------------
(* A direct host: no rewrite of a steady file is lost. *)

\* A steady file that Go reads from disk.
OnDisk(f) == f \in Steady \intersect DiskFiles /\ overlay[f] = NoText

\* Stamps never run ahead of the file.  Once a program exists, the steady files
\* are in it and, but for the moment between a first program and its late pass,
\* stamped; a stamp that equals the file's vouches for what Go has read, unless a
\* signal or the request in flight will have it read again.
Stamps ==
    ~Server =>
        /\ ~last.landed => prog = {} /\ known = {} /\ \A f \in File : frozen[f] = NoText
        /\ phase \in {"idle", "syncing"} => pass.stamped = {}
        /\ \A f \in File : stamp[f] <= dver[f] /\ pass.start[f] <= dver[f]
        /\ req.closed = {}
        /\ pass.collected \subseteq Roots
        /\ \A f \in Steady : last.landed /\ (f \in DiskFiles \/ overlay[f] # NoText) => f \in prog
        /\ \A f \in File : OnDisk(f) =>
              /\ last.landed /\ phase # "landed" => stamp[f] # NoStamp
              /\ phase \in {"creating", "landed"} /\ f \in pass.stamped => stamp[f] # NoStamp
              /\ stamp[f] = dver[f] /\ frozen[f] # NoText
                 => frozen[f] = disk[f] \/ f \in ext \union req.changed \union Entries(req)
              /\ phase = "landed" /\ stamp[f] = NoStamp /\ dver[f] = pass.start[f] => frozen[f] = disk[f]

\* A program asked for the script names holds every steady file that can be read,
\* for its own list of files is closed under what every text imports.
LEMMA SteadyRead ==
    ASSUME IInv, UpdateSnapshot, req.add = Roots,
           NEW f \in Steady, f \in DiskFiles \/ overlay'[f] # NoText
    PROVE  f \in prog'
  <1>1. f \in File /\ (f \in DiskFiles => disk[f] # NoText)
    BY DEF Steady, IInv, DiskKept
  <1>2. \A g \in File : disk[g] \in MaybeText /\ frozen[g] \in MaybeText /\ overlay'[g] \in MaybeText
    <2>1. IInv'
      BY NextInv DEF Next, Sync
    <2> QED  BY <2>1 DEF IInv, TypeOK
  <1>3. \A g \in File : TextAfter(req, g) \in MaybeText
    BY <1>2 DEF TextAfter
  <1>4. \A g \in File : g \in DiskFiles \/ overlay'[g] # NoText => TextAfter(req, g) # NoText
    BY DEF TextAfter, IInv, DiskKept
  <1> HIDE DEF TextAfter
  <1> DEFINE text == [g \in File |-> TextAfter(req, g)]
             imported == [g \in File |-> IF text[g] = NoText THEN {} ELSE Imports[g, text[g]]]
  <1>5. ASSUME NEW P \in SUBSET File, Roots \subseteq P, \A g \in P : imported[g] \subseteq P
        PROVE  f \in P
    <2>1. ASSUME NEW g \in P \intersect DiskFiles, NEW h \in File, \A t \in Text : h \in Imports[g, t]
          PROVE  h \in P
      <3>1. text[g] = TextAfter(req, g) /\ text[g] \in Text
        BY <1>3, <1>4 DEF MaybeText
      <3>2. imported[g] = Imports[g, text[g]]
        BY <3>1
      <3> QED  BY <1>5, <2>1, <3>1, <3>2
    <2> QED  BY <1>5, <2>1 DEF Steady
  <1>6. prog' = ProgramAfter(req)
    BY DEF UpdateSnapshot
  <1>7. text[f] # NoText
    BY <1>1, <1>4
  <1> QED  BY <1>1, <1>5, <1>6, <1>7 DEF ProgramAfter

\* What UpdateSnapshot does to a file that Go reads from disk afterwards.
LEMMA DirectUpdate ==
    ASSUME IInv, Names, ~Server, req.closed = {}, UpdateSnapshot, NEW f \in File, OnDisk(f)'
    PROVE  /\ OnDisk(f) /\ f \notin Entries(req) /\ frozen'[f] # NoText
           /\ frozen'[f] = disk[f] \/ (frozen'[f] = frozen[f] /\ f \notin req.changed)
  <1>1. f \in Steady \intersect DiskFiles /\ overlay'[f] = NoText
    BY DEF OnDisk, Steady
  <1>2. /\ f \in Entries(req) => overlay'[f] # NoText
        /\ f \notin Entries(req) => overlay'[f] = overlay[f] \/ f \in HeldClosed(req)
        /\ frozen'[f] \in {disk[f], frozen[f], NoText}
        /\ f \in prog' => frozen'[f] # NoText
        /\ f \in req.changed => frozen'[f] \in {disk[f], NoText}
    BY <1>1, UpdateServes
  <1>3. HeldClosed(req) = {}
    BY DEF HeldClosed
  <1>4. req.add = Roots
    BY DEF Names, UpdateSnapshot, IInv, ServerOnly, ProgramNames
  <1>5. f \in prog'
    BY <1>1, <1>4, SteadyRead
  <1> QED  BY <1>1, <1>2, <1>3, <1>5 DEF OnDisk

LEMMA StampNumbers ==
    ASSUME IInv, NEW f \in File
    PROVE  dver[f] \in Nat /\ stamp[f] \in Int /\ pass.start[f] \in Nat
  <1>1. dver[f] \in Nat /\ stamp[f] \in Nat \union {NoStamp, Unordered} /\ pass.start[f] \in Nat
    BY DEF IInv, TypeOK
  <1> QED  BY <1>1 DEF NoStamp, Unordered

LEMMA StampsEnvironment == ASSUME IInv, Stamps, ~Server, Environment PROVE Stamps'
  <1>1. /\ UNCHANGED <<mirror, mver, stamp, sent, known, last, pass, phase, req, goVars>>
        /\ ext \subseteq ext'
        /\ \A f \in File :
              /\ dver[f] \in Nat /\ dver'[f] \in Nat /\ dver[f] <= dver'[f]
              /\ disk'[f] # disk[f] => dver[f] < dver'[f]
              /\ disk'[f] = disk[f] => dver'[f] = dver[f]
    BY EnvironmentKeeps, EnvironmentReads
  <1>2. \A f \in File : stamp[f] \in Int /\ pass.start[f] \in Nat
    BY StampNumbers
  <1>3. \A f \in File : stamp'[f] <= dver'[f] /\ pass'.start[f] <= dver'[f]
    BY <1>1, <1>2 DEF Stamps
  <1>4. \A f \in File : OnDisk(f)' <=> OnDisk(f)
    BY <1>1 DEF OnDisk, goVars
  <1>5. ASSUME NEW f \in File, disk'[f] # disk[f]
        PROVE  stamp'[f] # dver'[f] /\ dver'[f] # pass'.start[f]
    BY <1>1, <1>2, <1>5 DEF Stamps
  <1>6. /\ ~last'.landed => prog' = {} /\ known' = {} /\ \A f \in File : frozen'[f] = NoText
        /\ phase' \in {"idle", "syncing"} => pass'.stamped = {}
    BY <1>1 DEF Stamps, goVars
  <1>7. ASSUME NEW f \in File, OnDisk(f)
        PROVE  /\ last'.landed /\ phase' # "landed" => stamp'[f] # NoStamp
               /\ phase' \in {"creating", "landed"} /\ f \in pass'.stamped => stamp'[f] # NoStamp
               /\ stamp'[f] = dver'[f] /\ frozen'[f] # NoText
                  => frozen'[f] = disk'[f] \/ f \in ext' \union req'.changed \union Entries(req')
               /\ phase' = "landed" /\ stamp'[f] = NoStamp /\ dver'[f] = pass'.start[f]
                  => frozen'[f] = disk'[f]
    <2>1. /\ last.landed /\ phase # "landed" => stamp[f] # NoStamp
          /\ phase \in {"creating", "landed"} /\ f \in pass.stamped => stamp[f] # NoStamp
          /\ stamp[f] = dver[f] /\ frozen[f] # NoText
             => frozen[f] = disk[f] \/ f \in ext \union req.changed \union Entries(req)
          /\ phase = "landed" /\ stamp[f] = NoStamp /\ dver[f] = pass.start[f] => frozen[f] = disk[f]
      BY <1>7 DEF Stamps
    <2> QED  BY <1>1, <1>5, <2>1 DEF Entries, goVars
  <1> QED  BY <1>1, <1>3, <1>4, <1>6, <1>7 DEF Stamps, goVars

LEMMA StampsCreate == ASSUME IInv, Names, Stamps, ~Server, CreateProgram PROVE Stamps'
  <1>1. /\ phase = "idle" /\ req = NoRequest
        /\ phase' \in {"creating", "landed"} /\ ext' = {} /\ req'.closed = {}
        /\ phase' = "landed" => last.landed
        /\ pass'.stamped = known /\ pass'.start = dver /\ pass'.collected \subseteq Roots
        /\ last' = last /\ known' = known /\ disk' = disk /\ dver' = dver /\ UNCHANGED goVars
        /\ \A f \in DiskFiles : mirror[f] = NoText /\ f \in ext \union StampMoved(known)
                                => f \in req'.changed
        /\ StampStep(known, dver)
    BY DirectCreate
  <1>2. \A f \in File : dver[f] \in Nat /\ stamp[f] \in Int /\ stamp[f] <= dver[f]
    BY StampNumbers DEF Stamps
  <1>3. \A f \in File : stamp'[f] <= dver'[f] /\ pass'.start[f] <= dver'[f]
    BY <1>1, <1>2 DEF StampStep, Unordered
  <1>4. ASSUME NEW f \in File, OnDisk(f)
        PROVE  /\ last.landed => stamp'[f] # NoStamp
               /\ f \in known => stamp'[f] # NoStamp
               /\ stamp'[f] = dver[f] /\ frozen[f] # NoText
                  => frozen[f] = disk[f] \/ f \in req'.changed
    <2>1. last.landed => stamp[f] # NoStamp
      BY <1>1, <1>4 DEF Stamps
    <2>2. f \in known \/ frozen[f] # NoText => last.landed
      BY DEF Stamps
    <2>3. stamp[f] # NoStamp => stamp'[f] # NoStamp
      BY <1>1 DEF StampStep
    <2>4. ASSUME stamp'[f] = dver[f], frozen[f] # NoText, f \notin req'.changed
          PROVE  frozen[f] = disk[f]
      <3>1. f \in DiskFiles /\ mirror[f] = NoText
        BY <1>4 DEF OnDisk, IInv, MirrorExact
      <3>2. f \notin ext /\ f \notin StampMoved(known)
        BY <1>1, <2>4, <3>1
      <3>3. f \in Stampable(known) => stamp[f] = dver[f]
        BY <2>1, <2>2, <2>4, <3>2 DEF StampMoved
      <3>4. stamp[f] = dver[f]
        BY <1>1, <2>4, <3>3 DEF StampStep
      <3> QED  BY <1>1, <1>4, <2>4, <3>2, <3>4 DEF Stamps, NoRequest, Entries
    <2> QED  BY <2>1, <2>2, <2>3, <2>4
  <1>5. \A f \in File : OnDisk(f)' <=> OnDisk(f)
    BY <1>1 DEF OnDisk, goVars
  <1> QED  BY <1>1, <1>3, <1>4, <1>5 DEF Stamps, goVars

LEMMA StampsLate == ASSUME IInv, Names, Stamps, ~Server, LatePass PROVE Stamps'
  <1>1. /\ phase = "landed" /\ req = NoRequest
        /\ phase' \in {"syncing", "idle"} /\ ext' = ext /\ req'.closed = {}
        /\ pass' = NoPass /\ known' = prog
        /\ last' = last /\ disk' = disk /\ dver' = dver /\ UNCHANGED goVars
        /\ \A f \in StampMoved(prog) : f \in req'.changed \union Entries(req')
        /\ StampStep(prog, pass.start)
    BY DirectLate
  <1>2. \A f \in File : dver[f] \in Nat /\ stamp[f] \in Int /\ stamp[f] <= dver[f]
    BY StampNumbers DEF Stamps
  <1>3. \A f \in File : stamp'[f] <= dver'[f] /\ pass'.start[f] <= dver'[f]
    BY <1>1, <1>2 DEF StampStep, Unordered, NoPass
  <1>4. ASSUME NEW f \in File, OnDisk(f)
        PROVE  /\ stamp'[f] # NoStamp
               /\ stamp'[f] = dver[f] /\ frozen[f] # NoText
                  => frozen[f] = disk[f] \/ f \in ext \union req'.changed \union Entries(req')
    <2>1. f \in DiskFiles /\ mirror[f] = NoText /\ f \in Steady
      BY <1>4 DEF OnDisk, IInv, MirrorExact, Steady
    <2>2. f \in prog
      BY <1>1, <2>1 DEF Stamps, Names
    <2>3. f \in Stampable(prog) \/ (f \in pass.stamped /\ f \notin Stampable(prog))
      BY <2>1, <2>2 DEF Stampable
    <2>4. f \in pass.stamped => stamp[f] # NoStamp
      BY <1>1, <1>4 DEF Stamps
    <2>5. ASSUME stamp'[f] = dver[f], frozen[f] # NoText, f \notin ext \union req'.changed \union Entries(req')
          PROVE  frozen[f] = disk[f]
      <3>1. f \notin StampMoved(prog)
        BY <1>1, <2>5
      <3>2. CASE stamp[f] = dver[f]
        BY <1>1, <1>4, <2>5, <3>2 DEF Stamps, NoRequest, Entries
      <3>3. CASE stamp[f] # dver[f]
        <4>1. f \in Stampable(prog) /\ stamp[f] = NoStamp
          BY <1>1, <2>5, <3>1, <3>3 DEF StampStep, StampMoved
        <4>2. dver[f] = pass.start[f]
          BY <1>1, <2>5, <4>1 DEF StampStep
        <4> QED  BY <1>1, <1>4, <4>1, <4>2 DEF Stamps
      <3> QED  BY <3>2, <3>3
    <2> QED  BY <1>1, <2>3, <2>4, <2>5 DEF StampStep
  <1>5. \A f \in File : OnDisk(f)' <=> OnDisk(f)
    BY <1>1 DEF OnDisk, goVars
  <1>6. last.landed
    BY <1>1 DEF Names
  <1> QED  BY <1>1, <1>3, <1>4, <1>5, <1>6 DEF Stamps, goVars, NoPass

LEMMA StampsPush ==
    ASSUME IInv, Stamps, ~Server, NEW named \in SUBSET File, PushOverlay(named)
    PROVE  Stamps'
  <1>1. /\ phase = "idle" /\ last.landed /\ req = NoRequest
        /\ phase' \in {"syncing", "idle"} /\ ext' = {} /\ req'.closed = {}
        /\ disk' = disk /\ dver' = dver /\ UNCHANGED goVars /\ UNCHANGED <<stamp, known, last, pass>>
        /\ \A f \in DiskFiles : mirror[f] = NoText /\ f \in ext => f \in req'.changed
    BY DirectPush
  <1>2. \A f \in File : OnDisk(f)' <=> OnDisk(f)
    BY <1>1 DEF OnDisk, goVars
  <1>3. ASSUME NEW f \in File, OnDisk(f)
        PROVE  /\ stamp[f] # NoStamp
               /\ stamp[f] = dver[f] /\ frozen[f] # NoText
                  => frozen[f] = disk[f] \/ f \in req'.changed
    <2>1. f \in DiskFiles /\ mirror[f] = NoText
      BY <1>3 DEF OnDisk, IInv, MirrorExact
    <2> QED  BY <1>1, <1>3, <2>1 DEF Stamps, NoRequest, Entries
  <1> QED  BY <1>1, <1>2, <1>3 DEF Stamps, goVars

LEMMA StampsUpdate == ASSUME IInv, DiskRead, Names, Stamps, ~Server, UpdateSnapshot PROVE Stamps'
  <1>1. /\ last' = [landed |-> TRUE, open |-> req.open, add |-> req.add]
        /\ phase \in {"creating", "syncing"}
        /\ phase = "creating" => phase' = "landed"
        /\ phase = "syncing" => phase' = "idle"
        /\ req' = NoRequest
        /\ UNCHANGED <<disk, dver, ext, stamp, known, pass>>
    BY DEF UpdateSnapshot, envVars
  <1>2. last'.landed /\ req'.closed = {}
    BY <1>1 DEF NoRequest
  <1>3. req.add = Roots /\ req.closed = {}
    BY <1>1 DEF Names, Stamps, IInv, ServerOnly, ProgramNames
  <1>4. \A f \in Steady : f \in DiskFiles \/ overlay'[f] # NoText => f \in prog'
    BY <1>3, SteadyRead
  <1>5. ASSUME NEW f \in File, OnDisk(f)'
        PROVE  /\ phase' # "landed" => stamp[f] # NoStamp
               /\ phase' \in {"creating", "landed"} /\ f \in pass.stamped => stamp[f] # NoStamp
               /\ stamp[f] = dver[f] /\ frozen'[f] # NoText
                  => frozen'[f] = disk[f] \/ f \in ext
               /\ phase' = "landed" /\ stamp[f] = NoStamp /\ dver[f] = pass.start[f] => frozen'[f] = disk[f]
    <2>1. /\ OnDisk(f) /\ f \notin Entries(req) /\ frozen'[f] # NoText
          /\ frozen'[f] = disk[f] \/ (frozen'[f] = frozen[f] /\ f \notin req.changed)
      BY <1>3, <1>5, DirectUpdate
    <2>2. phase' # "landed" => stamp[f] # NoStamp
      BY <1>1, <2>1 DEF Stamps, Names
    <2>3. phase' \in {"creating", "landed"} /\ f \in pass.stamped => stamp[f] # NoStamp
      BY <1>1, <2>1 DEF Stamps
    <2>4. stamp[f] = dver[f] => frozen'[f] = disk[f] \/ f \in ext
      BY <2>1 DEF Stamps
    <2>5. phase' = "landed" /\ stamp[f] = NoStamp => frozen'[f] = disk[f]
      BY <1>1, <2>1 DEF Stamps
    <2> QED  BY <2>2, <2>3, <2>4, <2>5
  <1> QED  BY <1>1, <1>2, <1>4, <1>5 DEF Stamps

LEMMA StampsNext == IInv /\ DiskRead /\ Names /\ Stamps /\ [Next]_vars => Stamps'
  <1> SUFFICES ASSUME IInv, DiskRead, Names, Stamps, [Next]_vars, ~Server PROVE Stamps'
    BY DEF Stamps
  <1>1. CASE ListFiles
    <2>1. UNCHANGED <<envVars, mirrorVars, ext, stamp, sent, last, pass, phase, req, settled, goVars>>
          /\ known' = prog
      BY <1>1 DEF ListFiles
    <2> QED  BY <2>1 DEF envVars, goVars, Stamps, OnDisk, Entries
  <1>2. CASE UNCHANGED vars
    BY <1>2 DEF vars, envVars, goVars, trackVars, Stamps, OnDisk, Entries
  <1> QED  BY <1>1, <1>2, StampsEnvironment, StampsCreate, StampsLate, StampsPush, StampsUpdate
           DEF Next, Sync

LEMMA StampsHold == Spec => []Stamps
  <1>1. Init => Stamps
    <2>1. Init => \A f \in File : stamp[f] <= dver[f] /\ pass.start[f] <= dver[f]
      BY DEF Init, NoPass, NoStamp
    <2> QED  BY <2>1 DEF Init, Stamps, NoPass, NoRequest
  <1> QED  BY <1>1, InvHolds, DiskReadHolds, NamesHold, StampsNext, PTL DEF Spec

\* A rewrite of a file that every program of a direct host holds is never lost:
\* while Go has an outdated text of it, its stamp differs from the file's, so that
\* the next creation reads it again, however the rewrite fell among the passes.
THEOREM RewritesNotLost == Spec => []NoSteadyRewriteLost
  <1>1. IInv /\ DiskRead /\ Stamps => NoSteadyRewriteLost
    <2> SUFFICES ASSUME IInv, DiskRead, Stamps, ~Server, phase = "idle",
                        NEW f \in prog \intersect Steady, RewriteLost(f)
                 PROVE  FALSE
      BY DEF NoSteadyRewriteLost
    <2>1. f \in File /\ req = NoRequest
      BY DEF IInv, TypeOK, InFlight
    <2>2. frozen[f] # NoText /\ OnDisk(f)
      BY <2>1 DEF RewriteLost, DiskRead, OnDisk
    <2> QED  BY <2>1, <2>2 DEF RewriteLost, Stamps, NoRequest, Entries
  <1> QED  BY <1>1, InvHolds, DiskReadHolds, StampsHold, PTL

-----------------------------------------------------------------------------
(* A direct host: a creation leaves no stale text behind. *)

\* While nothing has moved since a creation, its signals are spent, and what Go
\* has read of a steady file is on disk still, or is being read again; before the
\* late pass that is known only of what the creation stamped or Go read first.
\* The host's own text of a script name lands after the creation's request, and
\* that of every steady file after the late pass.
Created ==
    ~Server /\ settled = "create" =>
        /\ phase \in {"creating", "landed"} => pass.start = dver
        /\ ext = {}
        /\ \A f \in File : OnDisk(f) /\ frozen[f] # NoText =>
              /\ phase \in {"idle", "syncing"} => frozen[f] = disk[f] \/ f \in req.changed \union Entries(req)
              /\ phase = "landed" /\ (stamp[f] = NoStamp \/ f \in pass.stamped) => frozen[f] = disk[f]
              /\ phase = "creating" =>
                    /\ stamp[f] # NoStamp
                    /\ f \in pass.stamped => frozen[f] = disk[f] \/ f \in req.changed \union Entries(req)
        /\ \A f \in Steady : HostText(f) # NoText /\ Landing(f) # NoText
                             /\ (f \in Roots \/ phase \in {"idle", "syncing"}) => Landing(f) = HostText(f)
        /\ \A f \in (Steady \intersect DiskFiles) \ Plain :
              HostText(f) # NoText /\ Landing(f) = NoText /\ overlay[f] = NoText /\ phase \in {"idle", "syncing"}
              => HostText(f) = disk[f]

\* Only what the host may decide is ever mirrored or pushed.
CandidatesOnly == \A f \in File : mirror[f] # NoText \/ f \in Entries(req) => f \in Candidate

LEMMA CandidatesSync ==
    ASSUME IInv, CandidatesOnly, NEW S \in SUBSET File, NEW X, NEW C, NEW A, Sent(S, X, C, A)
    PROVE  CandidatesOnly'
  <1>1. \A f \in File : mirror'[f] = NoText \/ mirror'[f] = mirror[f]
    BY DEF Sent
  <1>2. Entries(req') = Pushed(S)
    BY DEF Sent
  <1>3. Pushed(S) \subseteq Candidate
    BY DEF Pushed, FullPush, DeltaPush, Served
  <1> QED  BY <1>1, <1>2, <1>3 DEF CandidatesOnly, Candidate

LEMMA CandidatesNext == IInv /\ CandidatesOnly /\ [Next]_vars => CandidatesOnly'
  <1> SUFFICES ASSUME IInv, CandidatesOnly, [Next]_vars PROVE CandidatesOnly'
    OBVIOUS
  <1>0. TypeOK
    BY DEF IInv
  <1>1. CASE Environment
    BY <1>1, EnvironmentKeeps DEF CandidatesOnly, Candidate
  <1>2. CASE CreateProgram
    BY <1>0, <1>2, CreatePlan, CandidatesSync
  <1>3. CASE LatePass
    <2> DEFINE M == IF Server THEN {} ELSE StampMoved(prog)
    <2>1. PICK S \in SUBSET File, X \in SUBSET File : Sent(S, X, {}, last.add)
      <3> HIDE DEF M
      <3> QED  BY <1>0, <1>3, LatePlan DEF M
    <2> QED  BY <2>1, CandidatesSync
  <1>4. ASSUME NEW named \in SUBSET File, PushOverlay(named) PROVE CandidatesOnly'
    BY <1>0, <1>4, PushPlan, CandidatesSync
  <1>5. CASE UpdateSnapshot
    <2>1. Entries(req') = {}
      BY <1>5 DEF UpdateSnapshot, Entries, NoRequest
    <2>2. \A f \in File : mirror'[f] = Landing(f)
      BY <1>5, UpdateServes
    <2> QED  BY <2>1, <2>2 DEF CandidatesOnly, Landing, Candidate
  <1>6. CASE ListFiles \/ UNCHANGED vars
    BY <1>6 DEF ListFiles, vars, mirrorVars, CandidatesOnly, Candidate
  <1> QED  BY <1>1, <1>2, <1>3, <1>4, <1>5, <1>6 DEF Next, Sync

LEMMA CandidatesHold == Spec => []CandidatesOnly
  <1>1. Init => CandidatesOnly
    BY DEF Init, CandidatesOnly, NoRequest, Entries
  <1> QED  BY <1>1, InvHolds, CandidatesNext, PTL DEF Spec

\* A file is judged alike by a creation and by its late pass, for what lands.
LEMMA LandsJudged ==
    ASSUME IInv, NEW S \in SUBSET File, NEW X, NEW A, Sent(S, X, {}, A),
           NEW f \in S \intersect Candidate, HostText(f) # NoText
    PROVE  /\ Landing(f)' # NoText => Landing(f)' = HostText(f)
           /\ Landing(f)' = NoText => HostText(f) = disk[f]
  <1>1. TypeOK /\ f \in File
    BY DEF IInv, Candidate
  <1>2. /\ Entries(req') = Pushed(S)
        /\ f \in Pushed(S) => req'.text[f] = HostText(f)
        /\ f \in Released(S) => mirror'[f] = NoText
        /\ f \notin Released(S) => mirror'[f] = mirror[f]
    BY <1>1 DEF Sent
  <1>3. \/ f \in Pushed(S)
        \/ f \notin Released(S) /\ mirror[f] = HostText(f)
        \/ HostText(f) = disk[f] /\ (mirror[f] = NoText \/ f \in Released(S))
    BY <1>1, Judged
  <1> QED  BY <1>2, <1>3 DEF Landing

LEMMA CreatedCreate == ASSUME IInv, Stamps, CandidatesOnly, ~Server, CreateProgram PROVE Created'
  <1>1. /\ phase = "idle" /\ req = NoRequest
        /\ phase' \in {"creating", "landed"} /\ ext' = {}
        /\ phase' = "landed" => last.landed /\ req'.changed = {}
        /\ pass'.stamped = known /\ pass'.start = dver
        /\ disk' = disk /\ dver' = dver /\ UNCHANGED goVars
        /\ \A f \in DiskFiles : mirror[f] = NoText /\ f \in ext \union StampMoved(known)
                                => f \in req'.changed
        /\ StampStep(known, dver)
    BY DirectCreate
  <1>2. ASSUME NEW f \in File, OnDisk(f), frozen[f] # NoText
        PROVE  /\ stamp'[f] # NoStamp
               /\ f \in known => frozen[f] = disk[f] \/ f \in req'.changed
    <2>1. stamp[f] # NoStamp /\ f \in DiskFiles /\ mirror[f] = NoText
      BY <1>1, <1>2 DEF Stamps, OnDisk, IInv, MirrorExact
    <2>2. ASSUME f \in known, f \notin req'.changed
          PROVE  frozen[f] = disk[f]
      <3>1. f \notin ext /\ f \notin StampMoved(known)
        BY <1>1, <2>1, <2>2
      <3>2. f \in Stampable(known)
        BY <1>1, <2>1, <2>2 DEF Stampable, Stamps
      <3>3. stamp[f] = dver[f]
        BY <2>1, <3>1, <3>2 DEF StampMoved
      <3> QED  BY <1>1, <1>2, <3>1, <3>3 DEF Stamps, NoRequest, Entries
    <2> QED  BY <1>1, <2>1, <2>2 DEF StampStep
  <1>3. PICK S \in SUBSET File, X \in SUBSET File :
            /\ Sent(S, X, {}, ProgramNames)
            /\ \A f \in ProgramNames \ S : mirror[f] = NoText
    <2>1. TypeOK
      BY DEF IInv
    <2>2. PICK S \in SUBSET File, X \in SUBSET File, C \in SUBSET File :
              /\ Sent(S, X, C, ProgramNames) /\ C = {}
              /\ \A f \in ProgramNames \ S : mirror[f] = NoText
      BY <2>1, CreatePlan
    <2> QED  BY <2>2
  <1>4. /\ Entries(req') = Pushed(S) /\ Pushed(S) \subseteq S
        /\ \A f \in File : f \notin Released(S) => mirror'[f] = mirror[f]
        /\ \A f \in File : HostText(f)' = HostText(f)
    BY <1>3 DEF Sent
  <1>5. ASSUME NEW f \in Roots, HostText(f) # NoText, Landing(f)' # NoText
        PROVE  Landing(f)' = HostText(f)
    <2>1. f \in Candidate
      BY <1>3, <1>5, CandidatesSync DEF CandidatesOnly, Landing, Candidate
    <2>2. CASE f \in S
      BY <1>3, <1>5, <2>1, <2>2, LandsJudged
    <2>3. CASE f \notin S
      BY <1>3, <1>4, <1>5, <2>3 DEF Landing, ProgramNames, Released, Served
    <2> QED  BY <2>2, <2>3
  <1>6. \A f \in File : OnDisk(f)' <=> OnDisk(f)
    BY <1>1 DEF OnDisk, goVars
  <1>7. \A f \in Steady : f \in File
    BY DEF Steady
  <1> QED  BY <1>1, <1>2, <1>4, <1>5, <1>6, <1>7 DEF Created, goVars

LEMMA CreatedLate ==
    ASSUME IInv, Names, Stamps, CandidatesOnly, Created, ~Server, LatePass
    PROVE  Created'
  <1> SUFFICES ASSUME settled = "create" PROVE Created'
    BY DEF Created, LatePass
  <1>1. /\ phase = "landed" /\ req = NoRequest
        /\ phase' \in {"syncing", "idle"} /\ ext' = ext
        /\ disk' = disk /\ dver' = dver /\ UNCHANGED goVars
        /\ \A f \in StampMoved(prog) : f \in req'.changed \union Entries(req')
    BY DirectLate
  <1>2. last.landed /\ ext = {}
    BY <1>1 DEF Names, Created
  <1>3. ASSUME NEW f \in File, OnDisk(f), frozen[f] # NoText, f \notin req'.changed \union Entries(req')
        PROVE  frozen[f] = disk[f]
    <2>1. f \in DiskFiles /\ mirror[f] = NoText /\ f \in prog
      BY <1>2, <1>3 DEF OnDisk, IInv, MirrorExact, Stamps
    <2>2. f \in Stampable(prog) \/ f \in pass.stamped
      BY <2>1 DEF Stampable
    <2>3. CASE stamp[f] = NoStamp \/ f \in pass.stamped
      BY <1>1, <1>3, <2>3 DEF Created
    <2>4. CASE stamp[f] # NoStamp /\ f \in Stampable(prog)
      <3>1. stamp[f] = dver[f]
        BY <1>1, <1>3, <2>4 DEF StampMoved
      <3> QED  BY <1>1, <1>2, <1>3, <3>1 DEF Stamps, NoRequest, Entries
    <2> QED  BY <2>2, <2>3, <2>4
  <1>4. PICK S \in SUBSET File, X \in SUBSET File :
            /\ Sent(S, X, {}, last.add)
            /\ S = ({f \in prog \ pass.collected : ~Server /\ (mirror[f] # NoText \/ f \in StampMoved(prog))}
                    \union {f \in prog \ Plain : mirror[f] = NoText}) \intersect Candidate
    <2>1. TypeOK
      BY DEF IInv
    <2> QED  BY <2>1, LatePlan
  <1>5. /\ Entries(req') = Pushed(S) /\ Pushed(S) \subseteq S
        /\ \A f \in File : /\ f \in Released(S) => mirror'[f] = NoText
                           /\ f \notin Released(S) => mirror'[f] = mirror[f]
        /\ \A f \in File : HostText(f)' = HostText(f)
    BY <1>4 DEF Sent
  <1>6. ASSUME NEW f \in Steady, HostText(f) # NoText, Landing(f)' # NoText
        PROVE  Landing(f)' = HostText(f)
    <2>1. f \in Candidate /\ f \in File
      BY <1>4, <1>6, CandidatesSync DEF CandidatesOnly, Landing, Candidate, Steady
    <2>2. CASE f \in S
      BY <1>4, <1>6, <2>1, <2>2, LandsJudged
    <2>3. CASE f \notin S
      <3>1. Landing(f)' = mirror[f] /\ mirror[f] # NoText
        BY <1>5, <1>6, <2>1, <2>3 DEF Landing
      <3>2. f \in prog
        BY <1>2, <1>6, <2>1, <3>1 DEF Stamps, IInv, MirrorExact
      <3>3. f \in pass.collected
        BY <1>4, <2>1, <2>3, <3>1, <3>2
      <3>4. f \in Roots /\ Landing(f) = mirror[f]
        BY <1>1, <3>3 DEF Stamps, Landing, NoRequest, Entries
      <3> QED  BY <1>6, <3>1, <3>4 DEF Created
    <2> QED  BY <2>2, <2>3
  <1>7. ASSUME NEW f \in (Steady \intersect DiskFiles) \ Plain,
               HostText(f) # NoText, Landing(f)' = NoText, overlay[f] = NoText
        PROVE  HostText(f) = disk[f]
    <2>1. f \in Candidate /\ f \in File
      BY DEF Candidate, Steady
    <2>2. f \in prog /\ mirror[f] = NoText
      BY <1>2, <1>7, <2>1 DEF Stamps, IInv, MirrorExact
    <2>3. f \in S
      BY <1>4, <2>1, <2>2
    <2> QED  BY <1>4, <1>7, <2>1, <2>3, LandsJudged
  <1>8. \A f \in File : OnDisk(f)' <=> OnDisk(f)
    BY <1>1 DEF OnDisk, goVars
  <1>9. \A f \in Steady : f \in File
    BY DEF Steady
  <1> QED  BY <1>1, <1>2, <1>3, <1>5, <1>6, <1>7, <1>8, <1>9 DEF Created, goVars

LEMMA CreatedUpdate ==
    ASSUME IInv, Names, Stamps, Created, ~Server, UpdateSnapshot
    PROVE  Created'
  <1> SUFFICES ASSUME settled = "create" PROVE Created'
    BY DEF Created, UpdateSnapshot
  <1>1. /\ phase \in {"creating", "syncing"}
        /\ phase = "creating" => phase' = "landed"
        /\ phase = "syncing" => phase' = "idle"
        /\ req' = NoRequest
        /\ UNCHANGED <<envVars, ext, stamp, pass>>
    BY DEF UpdateSnapshot
  <1>2. Entries(req') = {}
    BY <1>1 DEF Entries, NoRequest
  <1>3. \A f \in File : Landing(f)' = Landing(f)
    BY <1>2, UpdateServes DEF Landing
  <1>4. \A f \in File : HostText(f)' = HostText(f)
    BY <1>1 DEF envVars, HostText, RawText, NeverLoaded
  <1>5. ASSUME NEW f \in File, OnDisk(f)'
        PROVE  /\ OnDisk(f)
               /\ phase' = "idle" => frozen'[f] = disk[f]
               /\ phase' = "landed" /\ (stamp[f] = NoStamp \/ f \in pass.stamped) => frozen'[f] = disk[f]
    <2>1. req.closed = {}
      BY DEF Stamps
    <2>2. /\ OnDisk(f) /\ f \notin Entries(req) /\ frozen'[f] # NoText
          /\ frozen'[f] = disk[f] \/ (frozen'[f] = frozen[f] /\ f \notin req.changed)
      BY <1>5, <2>1, DirectUpdate
    <2> QED  BY <1>1, <2>2 DEF Created
  <1>6. \A f \in Steady : f \in File
    BY DEF Steady
  <1>7. \A f \in File : overlay'[f] = NoText /\ f \in Steady \intersect DiskFiles => overlay[f] = NoText
    BY <1>5 DEF OnDisk
  <1> QED  BY <1>1, <1>3, <1>4, <1>5, <1>6, <1>7 DEF Created, envVars

LEMMA CreatedNext ==
    IInv /\ Names /\ Stamps /\ CandidatesOnly /\ Created /\ [Next]_vars => Created'
  <1> SUFFICES ASSUME IInv, Names, Stamps, CandidatesOnly, Created, [Next]_vars, ~Server PROVE Created'
    BY DEF Created
  <1>1. CASE Environment
    BY <1>1, EnvironmentKeeps DEF Created
  <1>2. ASSUME NEW named \in SUBSET File, PushOverlay(named) PROVE Created'
    BY <1>2 DEF PushOverlay, Created
  <1>3. CASE ListFiles \/ UNCHANGED vars
    BY <1>3 DEF ListFiles, vars, envVars, mirrorVars, trackVars, goVars, Created, OnDisk, Entries, Landing,
                HostText, RawText, NeverLoaded
  <1> QED  BY <1>1, <1>2, <1>3, CreatedCreate, CreatedLate, CreatedUpdate DEF Next, Sync

LEMMA CreatedHolds == Spec => []Created
  <1>1. Init => Created
    BY DEF Init, Created
  <1> QED  BY <1>1, InvHolds, NamesHold, StampsHold, CandidatesHold, CreatedNext, PTL DEF Spec

\* A direct program creation leaves no stale text in the steady files: what Go read
\* before a rewrite is read again, and the host's own text wins over the disk's.
THEOREM CreationServes == Spec => []DirectServed
  <1>1. IInv /\ DiskRead /\ Created => DirectServed
    <2> SUFFICES ASSUME IInv, DiskRead, Created, ~Server, phase = "idle", settled = "create",
                        NEW f \in prog \intersect Steady,
                        NeverLoaded(f) \/ mirror[f] # NoText, ~Ghost(f), HostText(f) # NoText
                 PROVE  GoText(f) = HostText(f)
      BY DEF DirectServed
    <2>1. f \in File /\ req = NoRequest /\ Landing(f) = mirror[f]
      BY DEF IInv, TypeOK, InFlight, Landing, NoRequest, Entries
    <2>2. CASE mirror[f] # NoText
      BY <2>1, <2>2 DEF Created, IInv, MirrorExact, GoText
    <2>3. CASE mirror[f] = NoText
      <3>1. overlay[f] = NoText /\ frozen[f] # NoText /\ f \in DiskFiles
        BY <2>1, <2>3 DEF Ghost, DiskRead
      <3>2. frozen[f] = disk[f]
        BY <2>1, <3>1 DEF Created, OnDisk, NoRequest, Entries
      <3>3. HostText(f) = disk[f]
        <4>1. CASE f \in Plain
          BY <2>3, <4>1 DEF HostText, RawText
        <4>2. CASE f \notin Plain
          BY <2>1, <2>3, <3>1, <4>2 DEF Created
        <4> QED  BY <4>1, <4>2
      <3> QED  BY <3>1, <3>2, <3>3 DEF GoText
    <2> QED  BY <2>2, <2>3
  <1> QED  BY <1>1, InvHolds, DiskReadHolds, CreatedHolds, PTL

=============================================================================
