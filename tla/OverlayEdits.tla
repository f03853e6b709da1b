---------------------------- MODULE OverlayEdits ----------------------------
(***************************************************************************)
(* Requests that Go refuses.  An updateSnapshot carries full texts and      *)
(* deltas of several tabs; one delta that does not fit, or one text that    *)
(* the decoder does not take, fails the whole request, after the client has *)
(* consumed its edits and after Go has moved some of its versions.  This    *)
(* module takes the texts of OverlaySync apart into UTF-16 units and its    *)
(* synchronisations together into one step each: planOverlayPush for the    *)
(* script names and tabs, handleUpdateSnapshot up to its error, and the     *)
(* commit of the mirror if there was none.  The disk does not change.       *)
(***************************************************************************)
EXTENDS SpliceUTF16

CONSTANTS
    File,       \* the files of one tsconfig project, all on disk, without extra extensions
    Roots,      \* the script names of the host, apart from its tabs
    Texts,      \* Texts[f]: the texts a tab of f can have
    Disk,       \* Disk[f]: the text of f on disk
    Inserts,    \* the texts that edits insert
    Split,      \* the files whose client cuts characters in two
    NoText,     \* no overlay, no mirror entry
    MaxEdits,   \* bound: edits recorded for a file and not yet consumed
    MaxVersion  \* bound: deltas between two full texts of a file

ASSUME FilesAssumption == Roots \subseteq File /\ Split \subseteq File
ASSUME TextsAssumption ==
    \A f \in File :
        /\ Texts[f] \subseteq Seq(Units) /\ Disk[f] \in Seq(Units)
        /\ WellFormed(Disk[f])
        /\ f \notin Split => \A t \in Texts[f] : WellFormed(t)
        /\ NoText \notin Texts[f] \union {Disk[f]}
ASSUME InsertsAssumption == Inserts \subseteq Seq(Units)
ASSUME BoundsAssumption == MaxEdits \in Nat /\ MaxVersion \in Nat

VARIABLES
    tabs,     \* the files open in the client
    info,     \* info[f]: the text of the tab f
    mirror,   \* _syncedOverlayContentByFile
    mver,     \* _syncedOverlayVersionByFile (0 when absent)
    pend,     \* _pendingOverlayEditsByFile
    sent,     \* _sessionSentOpenTabs
    strict,   \* whether the decoder refuses a surrogate on its own
    overlay,  \* Go: the overlay text of a file
    gver,     \* Go: overlayVersions
    fed,      \* Go: overlayOpenFiles
    apiOpen,  \* Go: openFiles of the API session
    outcome,  \* of the last request, "none" once the client moved on
    cut       \* history: files with a delta, since their last full text, that
              \* cuts a character of the text it was spliced into

jsVars == <<mirror, mver, pend, sent>>
goVars == <<overlay, gver, fed, apiOpen>>
vars == <<tabs, info, jsVars, strict, goVars, outcome, cut>>

NoVersion == -1       \* no entry in overlayVersions

\* The host's text: a file without a tab is read from disk.
HostText(f) == IF f \in tabs THEN info[f] ELSE Disk[f]

ProgramNames == Roots \union tabs

\* The edits a client may make of the text t of f.
EditsOf(f, t) ==
    {e \in [start : 0..Len(t), deleteLength : 0..Len(t), insertText : Inserts] :
        /\ e.start + e.deleteLength <= Len(t)
        /\ f \notin Split => Whole(t, e)
        /\ JsSplice(t, e) \in Texts[f] \ {t}}

Init ==
    /\ tabs = {} /\ sent = {}
    /\ info = [f \in File |-> Disk[f]]
    /\ mirror = [f \in File |-> NoText]
    /\ mver = [f \in File |-> 0]
    /\ pend = [f \in File |-> <<>>]
    /\ strict \in BOOLEAN
    /\ overlay = [f \in File |-> NoText]
    /\ gver = [f \in File |-> NoVersion]
    /\ fed = {} /\ apiOpen = {}
    /\ outcome = "none" /\ cut = {}

-----------------------------------------------------------------------------
(* The client.                                                              *)

ClientStep ==
    /\ outcome' = "none"
    /\ UNCHANGED <<mirror, mver, sent, strict, goVars, cut>>

\* ScriptInfo.open with the client's text.
OpenTab(f, t) ==
    /\ ClientStep
    /\ f \notin tabs
    /\ tabs' = tabs \union {f}
    /\ info' = [info EXCEPT ![f] = t]
    /\ UNCHANGED pend

\* ScriptInfo.editContent and tnbNoteHostEdit.
EditTab(f) ==
    /\ ClientStep
    /\ f \in tabs /\ Len(pend[f]) < MaxEdits /\ mver[f] < MaxVersion
    /\ \E e \in EditsOf(f, info[f]) :
          /\ info' = [info EXCEPT ![f] = JsSplice(@, e)]
          /\ pend' = [pend EXCEPT ![f] = Append(@, e)]
    /\ UNCHANGED tabs

\* TextStorage.reloadWithFileText on the client's reload command.
ReloadTab(f) ==
    /\ ClientStep
    /\ f \in tabs /\ info[f] # Disk[f]
    /\ info' = [info EXCEPT ![f] = Disk[f]]
    /\ UNCHANGED <<tabs, pend>>

\* ScriptInfo.close: the file counts with its disk text again.
CloseTab(f) ==
    /\ ClientStep
    /\ f \in tabs
    /\ tabs' = tabs \ {f}
    /\ info' = [info EXCEPT ![f] = Disk[f]]
    /\ UNCHANGED pend

-----------------------------------------------------------------------------
(* planOverlayPush for the script names and tabs.                           *)

Diverges(f) == HostText(f) # Disk[f]

JsApplied(f) == JsTexts(mirror[f], pend[f])[Len(pend[f])]

\* Mutant: the recorded edits are sent without checking what they give.
DeltaPush_Unchecked ==
    {f \in ProgramNames :
        Diverges(f) /\ mirror[f] \notin {NoText, HostText(f)} /\ pend[f] # <<>>}

DeltaPush ==
    {f \in ProgramNames :
        /\ Diverges(f)
        /\ mirror[f] \notin {NoText, HostText(f)}
        /\ pend[f] # <<>> /\ JsApplied(f) = HostText(f)}

FullPush ==
    {f \in ProgramNames \ DeltaPush :
        /\ mirror[f] # HostText(f)
        /\ Diverges(f) \/ mirror[f] # NoText}

Pushed == FullPush \union DeltaPush

\* The host is back at disk: the mirror, its version and the edits go.
Released == {f \in ProgramNames : ~Diverges(f) /\ mirror[f] # NoText}

\* Mutant: the edits of a delta are kept until a request has taken them.
Consumed_Sent(forgotten) == forgotten

\* The files whose edits are consumed, with those that are forgotten.
Consumed(forgotten) == forgotten \union {f \in ProgramNames : Diverges(f)}

\* What is left of the client's books once the request is planned; taken are
\* the entries that Go has accepted and the mirror commits.
Booked(forgotten, taken) ==
    LET deltas   == taken \intersect DeltaPush
        consumed == Consumed(forgotten)
    IN  /\ mirror' = [f \in File |-> IF f \in deltas THEN JsApplied(f)
                                    ELSE IF f \in taken THEN HostText(f)
                                    ELSE IF f \in forgotten THEN NoText
                                    ELSE mirror[f]]
        /\ mver' = [f \in File |-> IF f \in deltas THEN mver[f] + 1
                                  ELSE IF f \in taken \union forgotten THEN 0
                                  ELSE mver[f]]
        /\ pend' = [f \in File |-> IF f \in consumed THEN <<>> ELSE pend[f]]

-----------------------------------------------------------------------------
(* Go: handleUpdateSnapshot.  Closes come first, then the entries in the    *)
(* order of the request; nothing is enqueued before the last one is through.*)

\* What the decoder has to take: a lone surrogate is refused, or read as "R".
Decodes ==
    strict =>
        /\ \A f \in FullPush : WellFormed(HostText(f))
        /\ \A f \in DeltaPush : \A i \in DOMAIN pend[f] : WellFormed(pend[f][i].insertText)

\* The files whose overlay the request's closes remove.
Unfed(closed) == closed \intersect apiOpen \intersect fed

\* applyOverlayEdits: the recorded edits spliced into Go's text.
GoApplied(f) == GoTexts(overlay[f], pend[f])[Len(pend[f])]

\* The tripwire on the base version, and the splices.
Fits(f, closed) ==
    /\ f \notin Unfed(closed) /\ gver[f] = mver[f]
    /\ overlay[f] # NoText
    /\ GoApplied(f) # NoSplice

\* The versions once the closes and the entries S are through.
VersionsAfter(closed, S) ==
    LET deltas == S \intersect DeltaPush
    IN  [f \in File |-> IF f \in deltas THEN gver[f] + 1
                        ELSE IF f \in S THEN 0
                        ELSE IF f \in Unfed(closed) THEN NoVersion
                        ELSE gver[f]]

\* A delta of f that cuts a character of the mirror, or of what its first edits
\* make of it.
Cuts(f) ==
    \E i \in DOMAIN pend[f] : ~Whole(JsTexts(mirror[f], pend[f])[i - 1], pend[f][i])

\* The whole request is applied, and the mirror commits.
Accept(closed) ==
    LET deltas == DeltaPush
        fulls  == FullPush
    IN  /\ Decodes /\ \A f \in deltas : Fits(f, closed)
        /\ overlay' = [f \in File |-> IF f \in deltas THEN GoApplied(f)
                                     ELSE IF f \in fulls THEN Chars(HostText(f))
                                     ELSE IF f \in Unfed(closed) THEN NoText
                                     ELSE overlay[f]]
        /\ gver' = VersionsAfter(closed, deltas \union fulls)
        /\ fed' = (fed \ Unfed(closed)) \union deltas \union fulls
        /\ apiOpen' = (apiOpen \union ProgramNames) \ (closed \intersect apiOpen)
        /\ Booked(Released \union closed, deltas \union fulls)
        /\ outcome' = "accepted"
        /\ cut' = (cut \ fulls) \union {f \in deltas : Cuts(f)}

\* A delta f does not fit, and the entries S came before it: the versions have
\* moved, the overlays have not.
Refuse(closed, f, S) ==
    /\ Decodes /\ f \in DeltaPush /\ ~Fits(f, closed)
    /\ \A g \in S \intersect DeltaPush : Fits(g, closed)
    /\ gver' = VersionsAfter(closed, S)
    /\ fed' = (fed \ Unfed(closed)) \union S
    /\ Booked(Released \union closed, {})
    /\ outcome' = "refused"
    /\ UNCHANGED <<overlay, apiOpen, cut>>

\* The request is refused before its handler runs.
RefuseText(closed) ==
    /\ ~Decodes
    /\ Booked(Released \union closed, {})
    /\ outcome' = "refused"
    /\ UNCHANGED <<goVars, cut>>

Request(closed) ==
    /\ \/ Accept(closed)
       \/ \E f \in DeltaPush, S \in SUBSET Pushed : Refuse(closed, f, S \ {f})
       \/ RefuseText(closed)
    /\ UNCHANGED <<tabs, info, strict>>

\* createTsgoProgram and ensureProject.  A creation whose request was refused is
\* tried again by the next query without its entries and closes, which changes
\* nothing here.
CreateProgram ==
    /\ Request(sent \ tabs)
    /\ sent' = tabs

\* pushHostOverlayToTsgo, while the program has the host's script names.
PushOverlay ==
    /\ Roots \union sent = ProgramNames
    /\ Request({})
    /\ UNCHANGED sent

-----------------------------------------------------------------------------
Next ==
    \/ \E f \in File :
          \/ \E t \in Texts[f] : OpenTab(f, t)
          \/ EditTab(f) \/ ReloadTab(f) \/ CloseTab(f)
    \/ CreateProgram
    \/ PushOverlay

Spec == Init /\ [][Next]_vars
-----------------------------------------------------------------------------
(* Properties. *)

\* Every variable stays in the set its code counterpart ranges over: Go's texts
\* consist of characters, whatever surrogates the client sends.
TypeOK ==
    /\ tabs \subseteq File /\ sent \subseteq File
    /\ \A f \in File :
          /\ info[f] \in Texts[f] \union {Disk[f]}
          /\ mirror[f] \in Texts[f] \union {Disk[f], NoText}
          /\ overlay[f] = NoText \/ (overlay[f] \in Seq(GoUnits) /\ WellFormed(overlay[f]))
    /\ mver \in [File -> 0..MaxVersion]
    /\ gver \in [File -> NoVersion..MaxVersion]
    /\ strict \in BOOLEAN
    /\ fed \subseteq File /\ apiOpen \subseteq File
    /\ outcome \in {"none", "accepted", "refused"} /\ cut \subseteq File

\* Unless a delta has cut a character, the mirror is Go's overlay, also of a file
\* whose own delta was refused, or that was in a request refused because of
\* another: the client commits after the answer, Go enqueues nothing before its
\* last entry (tsgoChecker.ts:1288, 0004-api-rpc.patch:1658-1665), and a text
\* that was cut is whole again with the next full one.
MirrorHolds ==
    \A f \in File \ cut : mirror[f] # NoText => overlay[f] = Chars(mirror[f])

\* A request that is accepted leaves no unsaved text of such a file unserved,
\* whatever requests were refused before it (planOverlayPush).
UnsavedServed ==
    outcome = "accepted" =>
        \A f \in tabs \ cut : Diverges(f) => overlay[f] = Chars(HostText(f))

\* The texts the client has now can be decoded.
Decodable == strict => \A f \in tabs : WellFormed(info[f])

\* A refusal does not repeat: the edits that could not be applied are consumed,
\* so the next request, a creation or a push, carries full texts instead and is
\* accepted, whatever versions the refused one has moved (tsgoChecker.ts:1236).
RefusalHeals ==
    outcome = "refused" /\ Decodable =>
        Decodes /\ \A f \in DeltaPush, closed \in {{}, sent \ tabs} : Fits(f, closed)
=============================================================================
