# TLA+ models of typescript-native-bridge

typescript-native-bridge (TNB below) is a drop-in `typescript` package whose
checker runs in-process on tsgo, the Go port of TypeScript, through a NAPI
addon.  The JavaScript host (tsserver, `tsc`, Volar, ts-loader) keeps its own
view of every file; Go keeps another one and answers the checker's questions
from it.  The hard part of the program is to keep the two views the same while
editors, build tools and `git checkout` change files behind both of them, and
to keep one Go registry sane under several JS threads.  These modules model
that part, TLC checks them on small instances, and TLAPS proves the most
important properties for every value of the constants.

Paths below are relative to `src/`.  `TC` stands for
`patches/typescript/overlay/src/compiler/tsgoChecker.ts`, `AP` for
`patches/typescript-go/0004-api-rpc.patch`, `PP` for
`patches/typescript-go/0003-project-program.patch`.

## Inventory

| Component | State | Operations | Interacts with | Correct when | Status |
|---|---|---|---|---|---|
| Overlay synchronisation, JS (`TC` 1060-1310, 5740-5873, 8448-8498, 8847-8905; `patches/typescript/0001-tsgo-hooks.patch`) | mirror of Go's overlays with versions, recorded edits, external-change signals, disk stamps, tabs sent, parameters that landed last | open, edit, reload, close, watch event; program creation, late pass, push for a query; commit | Go's updateSnapshot; the host's ScriptInfos; the disk | Go checks the text the host would have given, no delta is spliced into another text, a refused request heals | `OverlaySync`, `OverlayEdits` |
| Overlay and disk view, Go (`AP` 1515-1690, `internal/api/session_bridge.go`, `internal/project/*_bridge.go`) | overlays, overlay versions, API-open files, frozen disk reads, program membership | handleUpdateSnapshot: closes, opens, deltas, changes, stale probe | the JS side, the disk | as above | `OverlaySync`, `OverlayEdits` |
| NAPI session registry (`patches/typescript-go/overlay/bridge/bridge.go`, `napi_shim.c`) | registry of sessions, result buffer and arena of each, per-environment lists | init, new, call, callBinary, callArena, setArena, dispose, environment teardown | all JS threads | one thread inside a session, answers untorn, nothing left behind by a thread | `BridgeSessions` |
| Diagnostics pass (`internal/api/session_bridge.go` 96-142, `AP` 1676-1761, `PP` 205-286) | snapshot table, memo and in-flight pass per program, prefetch cancels, checker slots | updateSnapshot, release, Close, getGlobalDiagnostics, queries, prefetch goroutines | checker pool of tsgo | what is remembered and answered covers the whole program, every request is answered | `SemanticPass` |
| Snapshot and project lifecycle (`TC` 362-371, 700-1000, 1310-1460, 8345-8600; `tsgoTransport.ts` 1154-1277, MiniSourceFileCache) | current and recorded project of each tsconfig, epochs, answers kept per epoch, kept source files, projects open in build mode | creation, late pass, push, disposal, project switch, cache refresh by change reports | updateSnapshot, release | no snapshot in use is released and none is left over, what is kept is what a request would return | `ProjectSnapshots`, `ProjectViews` |
| Arena transport (`tsgoTransport.ts` 196-1152, `internal/api/arena*.go`) | string tables of both sides, request and response regions of one shared buffer | requests, records, responses, JSON escape | bridge | the tables grow in step; a handler gets its own parameters, a caller its own answer | `ArenaStrings`, `ArenaRequests`, `ArenaRecords` |
| Parse cache (`PP` 1030-1110) | reference counts, pins | acquire, release, pin | project layer | nothing in use is evicted | planned, 6 |
| UTF-16 splice (`TC` 1194-1201, `session_bridge.go` 189-265) | none | splice on both sides | overlay synchronisation | both give the same text | `SpliceUTF16`, `OverlayEdits` |
| Orphan watchdog (`bridge.go`, `tools/tnb-parent-watch.cjs`) | polled parent id | poll, exit | process | an orphan ends | planned, 7 |
| Auto-import registry, updateAPIRootFiles, options memo (`patches/typescript-go/overlay/internal/project`) | buckets, root files | mark dirty, rebuild | updateSnapshot | no stale bucket | planned, 7 |
| Checker adapter (`TC` 1063-1397, 8331-8503, 8528-9057, 12426-12466 and the rest) | per program its project, memos of a generation, trees and node indexes; per process the project reference, the calls in progress, the hook of each tsconfig | creation, push, checker calls and their returns, look-ups, eviction | updateSnapshot, other checkers through types and signatures | no handle of a snapshot that is gone, a call keeps its project, kept trees are dropped with their text | `CheckerCaches`; what queries translate is not modelled |
| Go checker and language-service patches, read-only request handlers, incremental builds, tooling | | | | | not modelled: translation of data, no protocol of its own |

Hard behaviours: the disk changes at any moment, also between planning and
sending a request; signals arrive before, after or without the change they are
about; deltas depend on a base text two processes' worth of code must agree on;
OS threads and their ids come and go; allocation fails halfway; passes are
cancelled while others wait for them or share their checkers; a request is
refused halfway; one project's synchronisation uses up what another needed; a
shared buffer is never cleared.  The list with
its lines is under `hazards` in `PROJECT.json`.

## Modules

| Module | Extends | Models |
|---|---|---|
| `OverlaySync` | | the JS mirror and Go's overlays as one system, with the disk and the host |
| `MCOverlaySync` | `OverlaySync` | contents, edits and imports for TLC |
| `OverlaySyncProofs` | `OverlaySync`, `TLAPS` | theorems: the mirror, deltas, unsaved text; closed tabs, heard changes, disk stamps |
| `SpliceUTF16` | | texts as UTF-16 units and as characters, both splices |
| `OverlayEdits` | `SpliceUTF16` | synchronisations whose request Go may refuse |
| `MCOverlayEdits` | `OverlayEdits` | texts and edits for TLC |
| `OverlayEditsProofs` | `OverlayEdits`, `TLAPS` | theorems about it, with those about the two splices |
| `PrivateSessions` | | abstract: what the bridge promises each thread |
| `BridgeSessions` | `INSTANCE PrivateSessions` | Go registry and shim instances under several threads |
| `MCBridgeSessions` | `BridgeSessions` | instance for TLC |
| `BridgeSessionsProofs` | `BridgeSessions`, `TLAPS` | theorems, with the refinement |
| `SemanticPass` | | snapshot table, whole-program passes, prefetches and checker slots |
| `MCSemanticPass` | `SemanticPass` | instance for TLC |
| `SemanticPassProofs` | `SemanticPass`, `TLAPS` | theorems about it |
| `ProjectViews` | | abstract: what each project of a process is promised to see |
| `ProjectSnapshots` | `INSTANCE ProjectViews` | snapshots, records and caches of several tsconfigs |
| `MCProjectSnapshots` | `ProjectSnapshots` | instance for TLC |
| `ProjectSnapshotsProofs` | `ProjectSnapshots`, `TLAPS` | theorems, with the refinement |
| `CheckerCaches` | | what each checker keeps across snapshots, and the calls inside one another |
| `MCCheckerCaches` | `CheckerCaches` | instance for TLC |
| `CheckerCachesProofs` | `CheckerCaches`, `TLAPS` | theorems about it |
| `ArenaStrings` | | string tables of the arena transport |
| `MCArenaStrings` | `ArenaStrings` | instance for TLC |
| `ArenaStringsProofs` | `ArenaStrings`, `TLAPS` | theorems about it |
| `ArenaRequests` | | the request half of an arena call, byte by byte |
| `ArenaRecords` | `ArenaRequests` | the answer half, and the whole call |
| `MCArenaCalls` | `ArenaRecords` | every method and kind of answer for TLC |
| `ArenaCallsProofs` | `ArenaRecords`, `TLAPS` | theorems about requests and answers |

### OverlaySync

One step is what happens between two points where the outside can intervene.
JS runs to completion, so a synchronisation is one action up to the request it
sends (`CreateProgram`, `PushOverlay`, and `LatePass` for the second request of
ensureProject), `UpdateSnapshot` is Go's handler and the commit of the mirror
that follows its return, and between the two only `WriteDisk` can happen:
tools write to the disk while JS is blocked in the call.  Within one
synchronisation the host's texts are read at one moment.

| Variable | Code |
|---|---|
| `mirror`, `mver`, `pend`, `ext` | `_syncedOverlayContentByFile`, `_syncedOverlayVersionByFile`, `_pendingOverlayEditsByFile`, `_pendingExternalChangePaths` |
| `stamp`, `sent`, `known`, `last` | `_diskStampByFile`, `_sessionSentOpenTabs`, `_namesByConfig`, `_lastSyncByConfig` |
| `overlay`, `gver`, `apiOpen`, `frozen`, `prog` | Go's overlays, `overlayVersions`, `openFiles`, the SnapshotFS cache, the program's files |
| `disk`, `dver`, `info`, `reread`, `tabs` | the file system, the ScriptInfos and the open tabs of the host |
| `unheard`, `settled`, `asked` | history: files changed without a signal since; whether a synchronisation was the last thing that happened; the files the query behind it named |

Abstractions, and why they keep the behaviour: a text is one of two values and
an edit one of two functions on them (a toggle and a constant, so that both the
order of edits and the base show); names are resolved; a file with an extra
extension is served through a function `Virtual` (what Volar makes of it); the
program is the closure of the roots under `Imports`, which may depend on the
text.  Which files exist is fixed, as the process-wide existence memo is not
modelled.  A write always moves the disk identity (mtime, size, inode): the
code cannot see one that does not.  The stale probe of Go notices the rewrites
of a constant set `Probed`; passing runs take it empty, the weakest Go, so the
properties do not lean on the probe, and violation runs take it full, so they
do not come from its absence.  ScriptInfo's own open, close and reload are
stock tsserver code outside the repository, modelled from the hooks patched
into them.  Requests do not fail here (see OverlayEdits), and there is one
tsconfig project (see ProjectSnapshots).

The claims about a direct host's disk stamps are made of the `Steady` files,
those in every program whatever the text of the files on disk that lead to
them.  A file that a query pulls in is first stamped at the next creation, too
late for a rewrite in between: see the observations below.  `DirectServed`
leaves out a file that neither the host nor the disk has a text of: it keeps the
text Go was sent last.

`HeardReachesGo` is about what the last synchronisation has looked at
(`Planned`: script names, tabs, and the file that the query behind it named, if
any; `QueryNames` is the code that collects them) and what Go reads from disk.
A drain may drop the signal of a closed file because a query has overlaid it;
nothing then looks at the file until a query names it again, and that query
must repair it: this is what the property claims, and what it does not claim is
the time in between.  It speaks of files with an extra extension that were not
planned only where the late pass of the last creation has looked: a file that
enters through a text of that pass waits for the next creation.  Both gaps are
among the observations below.

### SpliceUTF16 and OverlayEdits

`SpliceUTF16` has a text twice: as the client sees it, a sequence of UTF-16
units, and as Go stores it, characters (`Chars`, what JSON decoding makes of the
units).  Go's UTF-8 is written down by the units its characters take: no
surrogate stands alone in it, and the walk over characters is one over
`Boundaries`.  `JsSplice` is one step of applyOverlayEdits with its clamping
`slice`, `Splice` is spliceUTF16 with utf16UnitOffsetToByteOffset (`Offset`),
whose walk rounds an offset inside a pair up to the next character and fails
past the end; `JsTexts` and `GoTexts` are the loops over the edits.

`OverlayEdits` runs the protocol of `OverlaySync` on such texts, with fixed
disk texts and without watch events, and one atomic step per synchronisation
(nothing it reads can change while JS is in the call): `Accept`, or `Refuse`
when a delta fails its base version or its splice, or `RefuseText` when the
decoder rejects the request.  A refusal has consumed edits and
forgotten mirrors in the client, and moved versions and `overlayOpenFiles` of
the entries before the failing one in Go, while no overlay and no openFiles
entry has changed.

| Variable | Code |
|---|---|
| `tabs`, `info` | the host's open tabs and their texts |
| `mirror`, `mver`, `pend`, `sent` | as in `OverlaySync` |
| `overlay`, `gver`, `fed`, `apiOpen` | Go's overlays, `overlayVersions`, `overlayOpenFiles`, `openFiles` |
| `strict` | whether the JSON decoder refuses a lone surrogate or replaces it; the library is not in the repository, so both are taken |
| `outcome` | whether the last request was accepted |
| `cut` | history: files where a delta cut a character since the last full text |

A client of `Split` may edit inside a surrogate pair.  Then, and with edits that
outlived a reload, the client's check can accept edits that cut a pair, for
which Go's splice gives another text: with mirror `HMHL`, a recorded deletion of
units 1 and 2 and host text `HL`, the client sends a delta and Go, rounding,
keeps something else until the next full text.  Such files are in `cut`, and
the properties except them; that they are wrong is noted under the observations.

### BridgeSessions

Every OS thread with a JS environment has a shim instance (`tracked`, `arenas`);
all share one Go registry.  A call is split where the registry's lock is
dropped: `Lookup` under the lock, then `Refuse` or `Enter`, the handler,
`AnswerText` into the session's one unlocked buffer, `ReadText` by the shim.
Disposal is split in the same place.  Any thread presents any handle it can
have seen, dead ones included, and thread ids are given again.  Teardown
disposes the tracked sessions in any order, one a step (`FinalizeOne`: nothing
else can reach a session in that round, its owner being the thread that ends).
`MaxFaults` allocations fail: growing the session list (`lost`) and creating an
arena reference (`unrooted`: Go then has a buffer that the shim keeps no
reference to, while it has let the old one go).  Calls that fail the lookup, and a setArena
refused by a full table, change nothing and are left out.  Blobs are pinned,
copied and released inside one call and are `AnswerInPlace`.  Making a session
and noting it in the shim is one step: only the new session's own thread knows
the handle, and it is in the call.

`PrivateSessions` is the abstract specification: a session is an object of the
thread that made it, no other thread enters it, gives it an arena or takes it
away, its handle never stands for another one, and a call reads the answer made
for it.  The mapping reads off the registry who made a session (`owner`), which
are open (`sessions`) and the arena of each, and off the calls who is inside
(from `Enter` to the answer read) and whose answer the session's buffer holds at
the moment it is read.  Lookups and refusals are steps that nobody can see; the
teardown of an environment is a sequence of closes.  `ImplementsPrivate` is
checked by TLC and proved.

### SemanticPass

A task is a client thread or a prefetch goroutine, with a program counter
`stage`.  fullSemanticPass is cut at its locks, its channel and its pool
operations: `FindMemo`, `Join`, `Start`, then per group of files `Lease` and
`CheckGroup`, then `ReleaseAll`, `Store`, `CloseDone`; a waiter goes through
`Awake` or `Abandon`.  handleUpdateSnapshot is `Update`, which publishes the entry and
cancels the superseded one in one critical section, then `Launch`, one per
project, which takes the lock again, then `Respond`.  The checker pool is
tsgo's (external): a slot is free or held, and a request whose context is
cancelled need not wait for one (`GivesUp`).  A group's files are one step,
cut short if the context is cancelled by then.  A program is identified by the
snapshot that built it, so that two entries can share one and its pool.
A project that is closed takes its program with it.  Incremental projects take
another way through getGlobalDiagnostics and are left out.

### ProjectSnapshots

A text is its version number.  How a synchronisation finds a change out is
`OverlaySync`'s subject; here it notices what it is meant to (`Noticed`: a
signal of a closed file, or a comparison with what Go was sent).

| Variable | Code |
|---|---|
| `host` | the newest version of each file's text |
| `text`, `open`, `live`, `seq` | Go: per snapshot its texts and projects, the handles not released, the latest snapshot |
| `cache`, `lastSnap`, `lastSync` | `_projectCache`, `_lastSnapshotByProject`, `_lastSyncByConfig` |
| `epoch`, `memo` | `_projectEpochByConfig`; `_namesByConfig` and `_builderMetaByConfig` |
| `stable`, `kept` | `MiniSourceFileCache`: `stableSrcByPath`, `bySnap` |
| `active`, `built` | `_buildModeRef.active`: its config and the snapshots of its projects |
| `turn` | the creation that is between its first request and its late pass |
| `stray` | history: per project, files whose tree was outdated when it was last fetched, past another project's update |

`CreateProgram`, `LatePass` and `Push` send through `Send`, which is
updateSnapshot with its change report, the epochs it advances, the kept trees
it drops and the snapshots it disposes; `Skips` is the skip of an empty send;
`Ask`, `ReuseTree` and `FetchTree` are queries through what is kept.  A project
asks through its own snapshot, which may be older than the latest.  An answer
fetched so is kept under an epoch newer than itself (`Mislabelled`), and a tree
fetched so shows an old text (`stray`): `AnswersExact` and `TreesExact` except
that very answer and that very tree, until the next report about the project
ends the one and a new fetch the other.  The late
pass can see only rewrites of files that raise no signal.  Compiler options are
one of two values of the steady parameters, and snapshots are numbered as they
are made.

`ProjectViews` is the abstract specification: each project has a view of its
texts, replaced as a whole when that project is synchronised and by nothing
else.  The refinement mapping `view` reads the view of a project off the texts
of the snapshot its current project is in, and says `Lost` if that snapshot has
been released.  `ImplementsViews` is checked by TLC and proved.

### CheckerCaches

The closures of createTsgoChecker, for several hosts on one tsconfig or on
several, over the one Go session.

| Variable | Code |
|---|---|
| `host`, `text`, `seq` | as in `ProjectSnapshots` |
| `record`, `hook` | `_lastSyncByConfig` with `_projectCache`; `_overlaySyncByConfig` |
| `project`, `scan`, `nodes`, `gen` | per program: `project`, `tsgoSfCache`, `nodeIndexCache` with `nodeAtPosCache`, the object `gen` |
| `ref`, `calls` | `_currentProjectRef.project`; `_checkerQueryDepth` with `_activeProjectStack` |
| `elsewhere` | history: per program, files whose newest text came to Go with another's send, or by Go's probe, past a tree it keeps, or whose tree it took outdated from another's project |
| `led` | history: depths of the calls that have looked up a native method of another program's checker |

`Create` makes a program with its checker, `Push` is pushHostOverlayToTsgo as
the hook of a tsconfig calls it, `Call` and `Return` are wrapCheckerCall around
a method, which a type of another project can enter from inside a call,
`Lookup` finds a node and asks for a handle through all the caches, and
`Evict` is the idle timer.  A file has one position, so that a tree is the
version of its text and a memo the tree and the snapshot it was made of.  The
session keeps one snapshot for each tsconfig, which is what `ProjectSnapshots`
proves of a service.  A creation is one step, its late pass included, and
happens between calls, as does a push: inside a call the depth guard returns at
once, and `MaySync` is that guard.  A method only the native checker has may be
looked up on any checker at any moment, also inside a call of another one
(`EnsureProject`): the proxy moves the reference before the wrapper has saved
anything, and it stays moved for the rest of the call around it.

`MemosCurrent` is claimed of every program.  That the snapshot a program asks
is live is claimed of the one that its tsconfig's hook serves, the last
created: another host's program of the same tsconfig keeps a project that has
been disposed until its own host creates it again.  `RefRight` is claimed at
every depth but the ones in `led`, and `TreesOwn` of every file but those in
`elsewhere`, which the checker's own next send of the file ends.

### ArenaStrings

A handler's strings are interned one by one (`InternKnown`, `InternNew`), then
the answer is finished, or given up because it does not fit and sent as JSON,
or failed; the client appends the announced strings and resolves the numbers.
Whether an answer fits is a parameter `Fits` of its numbers and strings.

### ArenaRequests and ArenaRecords

Both halves of one call.  The two hand-written tables of requests, the
client's shapes and Go's reads, stand side by side, and so do Go's encoders
and the client's readers of eighteen kinds of records, each as a list of parts
with its offset, size and condition.  `Send` writes a request over what earlier
ones left (`Left`: the most that any earlier calls can have left, so that one
call stands for any history), `Dispatch` reads it, `Respond` and the `Put`
actions encode an answer over stale memory part by part, `Receive` decodes it.
A byte holds the place it was written for, so a part read with another offset
or width is recognised, as are two fields of an answer that reach into each
other (`Look`); an absent optional value is zeros, verbosityLevel -1.  The
client's readers call one another: `Reading` is one of them, given what the
others say, and `Get` is the function that satisfies it at every place.
A caller gives the ids and the file that its method is about (`Required`); every
other parameter may be absent, false, zero or empty, and is then written as
zeros.  Lists of symbols and of labelled declarations may have holes (`"nil"`).
Padding is left out, zero and absent are told apart only where the code does,
and an array has no element or two.  A rename's trigger span is taken to be
there exactly when canRename is (`internal/ls/lsnav.go:795-801`).  The order in
which the records are encoded is the encoder's, and the kind of an answer is
the one the client's table names, null, or an error: what the handlers return is
mostly decided in tsgo itself, outside the repository, and is not compared with
that table.  Texts themselves, and
requests that outgrow their region, are left out.

## Runs

| Run | Instance | Shows |
|---|---|---|
| `tsserver` | a root with an extra extension and, by its text, an import that the client opens; two writes, two edits, queries | `TypeOK`, `MirrorExact`, `DeltaAccepted`, `UnsavedReachesGo`, `HeardReachesGo`, `ClosedTabReleased`: the mirror is exact, Go refuses no delta, unsaved texts, and signalled ones of what is looked at, are what is checked, a closed tab gives up overlay and root |
| `direct_host` | two files, two writes, host text for the root, whose import comes and goes | `DirectServed`, `NoSteadyRewriteLost`: the stamps find every rewrite Go has not read, and creation leaves no stale text |
| `overlay_edits` | two tabs, one edited inside surrogate pairs, refused requests | `TypeOK`, `MirrorHolds`, `UnsavedServed`, `RefusalHeals`: both sides keep the same text, a refusal loses no unsaved text and does not repeat |
| `bridge_sessions` | two threads, two handles, two buffers, two arena places, one fault | `TypeOK`, `OneInside`, `OwnAnswer`, `NoOrphan`, `ArenaRooted`, `NoArenaLeak`, `ImplementsPrivate`, `SessionsReleased`: every step of every thread is one of PrivateSessions or unseen, and a thread that ends leaves nothing |
| `semantic_pass` | one client, one project, two slots and groups, two snapshots, two entries, two prefetches | `TypeOK`, `MemoIsWhole`, `OnePass`, `OnlyLatestPrefetches`, `OneGroupPerSlot`, `AnswersAreWhole`, `RequestAnswered` |
| `projects` | two tsconfigs sharing a file, service and build, five snapshots, one change of each file | `TypeOK`, `ProjectsUsable`, `NoSnapshotLeak`, `AnswersExact`, `TreesExact`, `ImplementsViews`: disposals spare what is in use and leave nothing, what is kept is right, each project sees what ProjectViews says |
| `arena_strings` | three strings, a small buffer | `Lockstep`, `AnswerExact`: the tables agree whatever answers fail |
| `arena_calls` | every method, every kind of answer | `RequestExact`, `AnswerWhole`: requests and answers are read as they were written, nothing of earlier calls |
| `checkers` | two hosts on one tsconfig, one on another, a file they share and its three versions, three snapshots, calls two deep | `MemosCurrent`, `RefRight`, `TreesOwn`: a checker has no handle of a snapshot but the one it asks, which is live for a served one; a call keeps its project; kept trees go with their text |
| `ghost_overlay` | tab, one write | violates `RewriteReachesTabs` (finding) |
| `skipped_refresh` | two tsconfigs | violates `RefreshSeesHostText` (finding) |
| `unsent_flag` | as `arena_calls`, no method excepted | violates `RequestExact` (finding) |

Why the bounds are enough.  In `OverlaySync` files meet only through imports,
tabs and one request, so a pair shows every interaction; two writes are the
least that lets one be missed behind the other.  In `OverlayEdits` two files
are the least where one's refusal meets the other's text; one pending edit and
one delta version suffice for a stale base, a stale version and a retried delta
(the same properties held on one file with all texts of up to three units and
every edit of them).  In `BridgeSessions` every conflict is between two
threads, or between a thread and its successor with the same id; two handles
let a foreign session be disposed while one's own is in use; the arena table of
two lets an arena be replaced and the table fill up.  In `SemanticPass` two
prefetches and a request are three passes over two snapshots, sharing one
program or not; two slots are the least that lets two passes hold one each.
The bridge gives a session to one thread, hence one client; the invariants of
this run also held with two clients (4.5 million states, too long for a routine
run, liveness left out).  In `ProjectSnapshots` projects meet through shared
files and the one session, so a pair that shares one file shows it; five
snapshots let each project be synchronised twice around the other.  In
`CheckerCaches` two hosts on one tsconfig are the least where one replaces the
other's project, a third on another tsconfig the least where a text comes with
a foreign send; a call inside a call shows what deeper ones do, and three
snapshots let a program be made, overtaken and synchronised again, which three
versions of the shared file make visible.  In
`ArenaStrings` a buffer of six places lets answers fit, not fit because of
their strings, and fit again; three strings and fields let one answer repeat a
string and announce another.  In the records, arrays and runs of two are the
least that lets one overwrite the next; optional parts are taken with at most
one present or at most one absent, which shows every part beside every other
both ways.  The number of calls is not bounded.

Deadlock is checked except in the runs of `SemanticPass`, where the session
really stops: after Close, or at the bounds, nothing is left to do; and in
those of `OverlayEdits`, where the bounds end it.

## Findings

* `ghost_overlay`: when the host's text is back at disk, JS forgets its mirror
  entry but Go keeps an overlay.  The next rewrite of that file, signalled to the
  host, is sent as a disk change, which the overlay hides.
* `skipped_refresh`: signals belong to the process, the skip of an empty send to
  one tsconfig.  When another tsconfig's send has carried a signal away, the next
  creation is skipped and shows the old text.
* `unsent_flag`: Go reads a flag of getExpandedParameters that the client's
  shape does not write, and finds what an earlier request left there.

Observations made while modelling, without a run:

* A closed import that a query overlaid between its rewrite and the watch event
  has a mirror entry; the drain (`TC` 1121) drops its signal, and nothing plans
  it again until another query names it.
* When V8 cannot make the reference to a new arena (`napi_shim.c` 453), setArena
  has already handed Go the buffer and let the old one go.  The comment above the
  function (410-416) says "the pointer Go holds can never dangle".
* A disk stamp is said to be as of Go's last read (`TC` 1126); the first stamp of
  a file that a query pulled in is taken at the next creation, and hides a
  rewrite in between for good.
* The comment on the stride groups (`PP` 221-224) assumes free slots when a pass
  starts; nothing orders a prefetch before later queries or before the passes of
  older snapshots.  Groups still never share a checker (`OneGroupPerSlot`).
* In a build in watch mode a file that changes while its project is closed is in
  no change report (`tsgoTransport.ts` 1219), and its kept tree is served when
  the project is opened again.  `TreesExact` therefore speaks of services.
* After a refused request, a tab that was closed by it is never closed in Go: the
  client has already updated its sent tabs and Go its `overlayOpenFiles`.  A file
  back at its disk text by the same request keeps its old overlay.
* The late pass of a creation (`TC` 8437-8498) is there because a stock program
  "pulls every file through host.getSourceFile".  It lists Go's files once: a
  file that only a text sent by that pass imports is not listed, and one with an
  extra extension, or with a host text, is served from disk until the next
  creation.
* A delta that cuts a surrogate pair (see OverlayEdits) gives different texts on
  the two sides until the next full one.

* The client checks a delta with its own splice, which stops at the end of the
  text; Go's refuses.  A file closed and opened again with a longer text, and then
  edited past the end of the text Go has, gets a delta that Go refuses together
  with the texts of all other files.  The next request repairs it (`RefusalHeals`).
* The comment on the scan caches (`TC` 8535-8537) says they "invalidate per changed
  file".  They drop the files that the checker's own push has sent.  A text that
  came with another tsconfig's send, or by Go's staleness probe, shows in the next
  snapshot beside the kept tree of the old one until the host creates the program
  again: the files in `elsewhere`, which `TreesOwn` excepts.
* The comment at `TC` 371-376 gives AutoImportProviderProject, which inherits
  configFilePath, as a second program of one tsconfig; the tsserver patch
  (`patches/typescript/0003-tsgo-tsserver-scriptinfo.patch` 144-159) takes it off
  again when the host's program is tsgo-backed.
* If a callback inside a call looks up a native method on a checker other than the
  one it was given, ensureProject moves the reference to that checker's project
  for the rest of the call (`led` in `CheckerCaches`).  The hooks of types and
  signatures go through the adapter's methods, which save and restore it.
* A program-wide answer takes the epoch of the moment it is fetched (`TC` 849-875)
  and the text of the project's own snapshot.  If another tsconfig's send has
  advanced the epoch meanwhile, the old answer passes for the new one until the
  next report about the project (`Mislabelled`).  A kept tree fetched in the same
  situation stays old until its file is reported again (`stray`).

A dependence rather than a finding: with `GivesUp = FALSE` TLC finds
`RequestAnswered` violated.  A cancelled prefetch of the older snapshot and a
request on the newer one, whose program did not change, each hold one slot and
wait for the other's.  The request's answer depends on tsgo's GetChecker giving up when
its context is cancelled, which is outside the repository.

## Fairness

`OverlaySync`, `OverlayEdits`, `ProjectSnapshots`, `CheckerCaches` and the arena
modules state safety only: JS runs to completion, and nothing obliges a host to synchronise.  `BridgeSessions`: a call that has started
returns (`Proceed`), and a thread in teardown finishes (`Finalize`): both are
straight-line code without waiting.  Nobody has to call anything.
`SemanticPass`: goroutines and handlers run (weak fairness of `Pass(t)` and
`Handle(t)`), as the Go scheduler guarantees.  Weak fairness of a task's `Pass`
covers waiting for a slot only when a slot stays free, so `RequestAnswered` does not
assume that the pool is fair.

## Proofs

All theorems hold for every value of the constants under the named assumptions
of the modules, with no bound on files, edits, threads or snapshots other than
the constants themselves.

* `OverlaySyncProofs`: `TypeCorrect`, `MirrorIsExact`, `DeltasFit`,
  `UnsavedTextServed`.  Neither the exact mirror nor the accepted delta is
  inductive: a request in flight must still fit the mirror it was planned from,
  and a file closed by the same request must not carry a delta.  The latter holds
  because edits outlive a tab only together with a pending re-read of the disk
  (`LeftEdits`), which makes the host text equal to the disk, so that the plan
  releases the file instead of sending a delta.  `InFlight` and `LeftEdits`,
  with `TabsLoaded` and `ServerOnly`, make the invariant inductive.  For unsaved
  text, `SettledTabs` says that since the last synchronisation began every
  diverging tab is in the mirror or in flight with the host's text.
  In the second half, `ClosedTabsReleased`, `HeardChangesServed`,
  `RewritesNotLost` and `CreationServes`: Go reads a file from its overlay or, without
  one, as it was when SnapshotFS cached it, so every way in which the cached text
  falls behind the disk must be matched with what will make Go read again.  For
  Go that is a signal not yet drained, or the request in flight (`DiskRead`); for
  tsserver's own texts the re-read mark or an unheard rewrite (`InfoRead`,
  `OffDisk`); for a direct host a stamp that differs from the file's (`Stamps`).
  `Names` says that a creation asks for all script names and tabs, and that every
  program holds them.  From the moment a synchronisation has planned its
  request, `SettledNames` says that each name lands with the host's text or is
  read from the present disk, and `Created` the same of a direct host's steady
  files, split at the late pass, which is the first to stamp what Go found by
  itself.  Both hold across writes to the disk while the request is on its way.
  `Releasable` (an overlay belongs to a script name or to a file the session holds
  open, and a closed file pushed by the same request is a script name) gives the
  closes.
  The first attempts failed for good reasons: without the condition on
  `pass.collected` the invariant is false for a chain of three files whose middle
  one is virtual, and `Steady` has to ask that the files that lead to a steady one
  are on disk themselves.
* `BridgeSessionsProofs`: `RegistryTyped`, `OneThreadInside`, `AnswersNotTorn`,
  `NoSessionOrphaned`, `ArenasFollowSessions`, `ArenasNotLeaked`.  The argument is ownership: past
  the lookup, a call whose thread is the owner holds a session of the registry,
  because only that owner could remove it and it is busy with the call (`Busy`).
  `Lists` and `Refs` tie the shim's lists to their own sessions.
  `SessionsArePrivate` is the refinement of `PrivateSessions`, for any numbers of
  threads, handles, buffers and faults.  The same ownership gives each step its
  abstract one: a thread outside of calls has nobody inside its sessions
  (`OthersOutside`), so it may close them and change their arenas; a call that
  enters finds its session vacant; and what it writes to the shared buffer is
  still there when it reads it.
* `SemanticPassProofs`: `PassTyped`, `MemoAlwaysWhole`, `PassesShared`,
  `PrefetchesAreLatest`, `GroupsKeptApart`, `RequestsAnsweredWhole`, with any
  number of clients, where TLC takes one.  A pass is alone because it holds the
  in-flight entry from `Start` to `Store` (`Holds`); what it stores is whole
  because only a cancelled pass skips files (`CutIfCancelled`, `Through`) and a
  cancelled context stays cancelled; a prefetch that counts can be reached from
  its entry (`Registered`) and is launched only while the entry is the newest or
  not at all (`LaunchesLatest`), so the step that retires an entry cancels it; what
  a pass has been served it still holds (`ServedHeld`).

* `ProjectSnapshotsProofs`: `ProjectsRefineViews`, the refinement of
  `ProjectViews`, with `ProjectsStayUsable`, `SnapshotsReleased`,
  `AnswersStayExact`, `TreesStayExact`, `LatestStaysLive` and `TypeCorrect`.  A
  step of a project must not move another's view: its snapshot is disposed only
  by a send of its own or by the build that closes it.  What is kept stays exact
  because a send drops it for every project in its change report, and the report
  is the difference to the snapshot that the session had last, for every open
  project, in use or not.
* `CheckerCachesProofs`: `TypeCorrect`, `MemosStayCurrent`, `ReferenceRight`,
  `TreesStayOwn`, with any number of hosts, tsconfigs and nested calls.  Only the
  program that a hook serves moves, to what is recorded (`Hooked`), its memos go
  with its project (`Remembered`), and nothing moves while a call is in progress,
  so that what the calls have saved stays right (`Saved`), wherever no look-up
  has led the reference away.  A file outside
  `elsewhere` shows in a program's snapshot what the latest one shows (`Seen`), so
  the next snapshot shows it too, unless the program sends the file itself and
  drops its tree.
* `ArenaStringsProofs`: `TypeCorrect`, `TablesInLockstep`, `AnswersExact`,
  `StringsAnnouncedOnce`.  While an answer is encoded Go's list is the client's
  table followed by the strings to announce (`Announced`); every number written
  stands for the string of its field (`Written`), also in the finished answer
  (`Finished`), and the map is the list turned around (`Numbered`), which giving
  up an answer restores.
* `ArenaCallsProofs`: `RequestsExact` and `AnswersWhole`, for any set of methods,
  answers and lengths, in any order of calls.

  For requests the client's twenty-two shapes are compared with Go's cases one by
  one: what Go reads is among what the client writes, which does not overlap.
  getExpandedParameters is excepted, which is the finding `unsent_flag`.

  For answers the two layouts are compared part by part, once: each part Go
  writes is a part the client reads, with the same offset, size and condition, and the
  other way round (`JsOfGo`, `GoOfJs`, `BitsMatched`, `JsTold`); the parts of a
  record lie in it and do not overlap (`GoLaid`, `GoTidy`).  That alone does not
  make an answer whole.  Records point to runs of records, whose places the encoder
  allots while it goes, and one that starts too early overwrites what is there.
  So the invariant has two halves.  `Room`: what has been written and what is
  still to be written share no byte, for every record the encoder is in.  `Nodes`:
  each part of each record of the answer is written with the meaning it must have
  (`Done`) or still ahead of the encoder (`Ahead`), and whatever is written belongs
  to such a record.  `PutRoom` and `PutReady` say that each step keeps them.
  Reading then goes upward by `Rank`, which bounds how deep records stand in records:
  this shows that the recursion of `Get` ends, so that `Get` is what its definition
  says of it, and that each record is read as it was meant, because the records in
  it are.  In a well-formed buffer `Look` finds the field that was put (`Finds`).
* `OverlayEditsProofs`: `TypeCorrect`, `MirrorKept`, `UnsavedTextsServed`,
  `RefusalNotRepeated`, for texts and lists of edits of any length.  Between
  characters Go's walk ends exactly where the client's units do (`OffsetExact`),
  and an edit that cuts nothing leaves a whole text (`CutWhole`, `JoinWhole`), so
  both splices give the same text (`SpliceExact`) and so do lists of edits
  (`TextsExact`).  The induction over the list is by the least number of edits for
  which the claim would fail (`Upwards`, from the well-foundedness of `<`), which
  also shows that the loops `JsTexts` and `GoTexts` are defined.  `MirrorHolds` is then
  inductive beside the types; for `TypeOK`, recorded edits exist only below the
  version bound (`Recorded`).  `Mirrored` says that an accepted request leaves each
  unsaved text in the mirror.  After a refusal no file that the next request looks
  at has a recorded edit left, so it plans no delta (`NoDeltaLeft`).  A delta that
  does cut a character is outside these theorems, as the two sides then differ.

Assumptions on constants are the named ASSUMEs of the modules.  Those of
`OverlaySync` make a text, an edit and a splice any sets and any function
between them; those of `OverlayEdits` say that texts are sequences of UTF-16
units, that files on disk are well-formed, and that a client which does not
split characters has only well-formed texts.  Those of the arena modules say that the
methods are among the client's (`MethodsAssumption`), that a stale byte is
different from every value, number and set of bits (`ValuesAssumption`: it marks what the
current answer did not write), that runs and arrays that are not empty have a
length (`LengthsAssumption`), and that a type has a number or a boolean as its
value and not both, and only a symbol or a handle is a hole in a run of records
(`PresentsAssumption`), as in encodeTypeResponse and zeroSymbolRecord.

Only model-checked: the liveness properties `SessionsReleased` and
`RequestAnswered`, as they rest on fairness and ENABLED, which are out of the
prover's reach.  Every other property of a passing run is proved.

## Plan

1. `OverlaySync`, `OverlayEdits`, done, with every property proved.  Left: an abstract specification "Go sees
   what the host serves" and the refinement; the existence memo with files
   created and deleted.
2. `BridgeSessions`, done, with the refinement of `PrivateSessions`.
3. `SemanticPass`, done.  Left: incremental projects, a project that outlives its close.
4. `ProjectSnapshots`, `CheckerCaches`, done.  Left: programs of older
   generations, light stubs, changes of the compiler options.
5. `ArenaStrings`, `ArenaRequests`, `ArenaRecords`, done, with every property proved.  Left:
   requests that outgrow their region, messages that do not fit.
6. Parse cache: counts and pins; nothing in use is evicted.
7. Auto-import buckets, root files, options memo, and the orphan watchdog, as
   small modules.

## Not modelled

* The rest of the checker adapter and the read-only request handlers turn checker
  queries into requests and answers into TypeScript objects.  What they keep and
  when it is dropped is in `CheckerCaches`; the rest is the translation of types,
  symbols and nodes, and a model of it would be a copy.
* The Go checker, printer and language-service patches are parts of a type
  system: sequential, and far beyond a finite model.
* The triage, parity and simulation tools under `tools/` are tests, read as such;
  the patch, build and release scripts are input and output.
* Incremental builds read and write buildinfo files once per program.
* The parse cache, the watchdog and the auto-import registry are in the plan.

These parts are most of the repository's lines, so the modules stand for about a
twentieth of it: the part with state, concurrency and failure.
