------------------------ MODULE ProjectSnapshotsProofs ------------------------
(***************************************************************************)
(* For any projects, files, versions and number of synchronisations: no     *)
(* project in use is in a released snapshot, Go can always report what      *)
(* changed, no snapshot is left behind, every step is one of ProjectViews,  *)
(* and a kept answer or tree is exact unless that very one was outdated     *)
(* when it was fetched.                                                     *)
(*                                                                         *)
(* The argument is about the order of the snapshots.  A recorded project is *)
(* its config's last snapshot, which only that config's next send disposes. *)
(* Since its epoch a program has shown the same texts in every snapshot, so *)
(* an answer that is not older than its epoch holds in all of them; and a   *)
(* tree that was the newest when it was fetched is dropped by the report of *)
(* the first snapshot in which it is not.                                   *)
(***************************************************************************)
EXTENDS ProjectSnapshots, TLAPS

\* The order of the snapshots: records are not ahead of the session, the one of
\* a recorded project is the config's own, unreleased, and shared with nobody.
Order ==
    /\ live \subseteq 1..seq /\ built \subseteq 1..seq
    /\ open[0] = {}
    /\ \A c \in Configs :
        /\ lastSnap[c] \in 0..seq /\ epoch[c] \in 0..seq
        /\ lastSync[c].project # 0 =>
            lastSync[c].project = lastSnap[c] /\ Usable(c, lastSync[c].project)
    /\ \A c, d \in Configs : lastSnap[c] = lastSnap[d] /\ lastSnap[c] # 0 => c = d

\* What a service and a build keep.
Service ==
    /\ active = NoConfig /\ built = {}
    /\ live = {lastSnap[c] : c \in Configs} \ {0}
    /\ \A c \in Configs : lastSnap[c] # 0 => lastSync[c].project # 0 /\ c \in open[seq]
Build ==
    /\ active = NoConfig => seq = 0
    /\ seq = 0 => active = NoConfig
    /\ seq # 0 => /\ live = {seq} /\ open[seq] = {active} /\ seq \in built
                  /\ \A c \in Configs : lastSync[c].project = IF c = active THEN seq ELSE 0
Kinds == (mode = "service" => Service) /\ (mode = "build" => Build)

\* The current projects and the one in creation are the recorded ones.
Current ==
    /\ \A c \in Configs : cache[c] # 0 => cache[c] = lastSync[c].project
    /\ turn # Idle => /\ turn.cfg \in Configs
                      /\ turn.project # 0 /\ turn.project = lastSync[turn.cfg].project

\* Since its epoch a program has not changed.
Epochs ==
    \A c \in Configs :
        /\ epoch[c] # 0 <=> c \in open[seq]
        /\ epoch[c] # 0 =>
            \A h \in epoch[c]..seq : \A f \in FilesOf[c] : text[h][f] = text[seq][f]

\* No answer is ahead of the session, or of the project it would be given to.
MemosOf(m) ==
    \A k \in Answers, c \in Configs :
        /\ m[k][c].project \in 0..seq /\ m[k][c].epoch \in 0..seq
        /\ lastSync[c].project # 0 => m[k][c].project <= lastSync[c].project

\* A service's stable tree shows the newest text and the project's own, and its
\* trees are kept for the last snapshot of their project.
Trees ==
    mode = "service" =>
        /\ \A c \in Configs, f \in Files : stable[c][f] # NoTree =>
            /\ lastSync[c].project # 0 /\ f \in FilesOf[c]
            /\ f \notin stray[c] => /\ stable[c][f] = text[lastSync[c].project][f]
                                    /\ stable[c][f] = text[seq][f]
        /\ \A k \in kept : /\ k.snap \in live /\ k.snap = lastSnap[k.cfg]
                           /\ k.file \notin stray[k.cfg] => k.ver = text[k.snap][k.file]

IInv ==
    /\ TypeOK
    /\ Order /\ Kinds /\ Current /\ LatestLive
    /\ Epochs /\ MemosOf(memo) /\ Trees

USE ConfigAssumption

-----------------------------------------------------------------------------
(* The initial state, and types. *)

LEMMA InitInv == Init => IInv
  <1> SUFFICES ASSUME Init PROVE IInv
    OBVIOUS
  <1> USE DEF Init
  <1>1. TypeOK
    BY DEF TypeOK, NoSync, Idle, Handles, Versions
  <1>2. Order /\ Kinds /\ Current /\ LatestLive
    BY DEF Order, Kinds, Service, Build, Current, LatestLive, NoSync, Handles
  <1>3. Epochs
    <2>1. open[seq] = {} /\ \A c \in Configs : epoch[c] = 0
      BY DEF Handles
    <2> QED  BY <2>1 DEF Epochs
  <1>4. MemosOf(memo) /\ Trees
    BY DEF MemosOf, Trees, NoSync
  <1> QED  BY <1>1, <1>2, <1>3, <1>4 DEF IInv

\* What a send leaves in the two sides' tables.
LEMMA SendFacts ==
    ASSUME TypeOK, NEW c \in Configs, NEW sent, NEW closing, NEW stale,
           Send(c, sent, closing, stale)
    PROVE  /\ seq \in Nat /\ seq + 1 \in Handles \ {0} /\ seq' = seq + 1
           /\ text' \in [Handles -> [Files -> Versions]]
           /\ open' \in [Handles -> SUBSET Configs]
           /\ \A f \in Files : text'[seq + 1][f] = IF f \in sent THEN host[f] ELSE text[seq][f]
           /\ \A h \in 0..seq : text'[h] = text[h] /\ open'[h] = open[h]
           /\ open'[seq + 1] = (open[seq] \ closing) \cup {c}
           /\ live' = (live \cup {seq + 1}) \ ({lastSnap[c]} \cup stale)
           /\ lastSnap' \in [Configs -> Handles]
           /\ \A d \in Configs : lastSnap'[d] = IF d = c THEN seq + 1 ELSE lastSnap[d]
  <1> USE DEF TypeOK
  <1>1. seq \in Nat /\ seq + 1 \in Handles \ {0} /\ seq' = seq + 1
    BY DEF Send, Handles
  <1>2. [f \in Files |-> IF f \in sent THEN host[f] ELSE text[seq][f]] \in [Files -> Versions]
    BY <1>1
  <1>3. (open[seq] \ closing) \cup {c} \in SUBSET Configs
    BY <1>1
  <1>4. text' = [text EXCEPT ![seq + 1] = [f \in Files |-> IF f \in sent THEN host[f] ELSE text[seq][f]]]
    BY DEF Send
  <1>5. open' = [open EXCEPT ![seq + 1] = (open[seq] \ closing) \cup {c}]
    BY DEF Send
  <1>6. \A h \in 0..seq : h \in Handles /\ h # seq + 1
    BY <1>1 DEF Handles
  <1>7. /\ text' \in [Handles -> [Files -> Versions]]
        /\ open' \in [Handles -> SUBSET Configs]
    BY <1>1, <1>2, <1>3, <1>4, <1>5
  <1>8. /\ \A f \in Files : text'[seq + 1][f] = IF f \in sent THEN host[f] ELSE text[seq][f]
        /\ open'[seq + 1] = (open[seq] \ closing) \cup {c}
    BY <1>1, <1>4, <1>5
  <1>9. \A h \in 0..seq : text'[h] = text[h] /\ open'[h] = open[h]
    BY <1>1, <1>4, <1>5, <1>6
  <1>10. live' = (live \cup {seq + 1}) \ ({lastSnap[c]} \cup stale)
    BY DEF Send, Disposed
  <1>11. /\ lastSnap' \in [Configs -> Handles]
         /\ \A d \in Configs : lastSnap'[d] = IF d = c THEN seq + 1 ELSE lastSnap[d]
    BY <1>1 DEF Send
  <1> QED  BY <1>1, <1>7, <1>8, <1>9, <1>10, <1>11

LEMMA SendTyped ==
    ASSUME TypeOK, NEW c \in Configs, NEW sent, NEW closing, NEW stale,
           Send(c, sent, closing, stale)
    PROVE  /\ text' \in [Handles -> [Files -> Versions]]
           /\ open' \in [Handles -> SUBSET Configs]
           /\ live' \subseteq Handles \ {0}
           /\ seq' \in Handles
           /\ lastSnap' \in [Configs -> Handles]
           /\ epoch' \in [Configs -> Handles]
           /\ stable' \in [Configs -> [Files -> Versions \cup {NoTree}]]
           /\ kept' \subseteq Kept
  <1> USE DEF TypeOK
  <1>1. seq + 1 \in Handles /\ seq' = seq + 1
    BY SendFacts
  <1>2. epoch' \in [Configs -> Handles]
    <2>1. 0 \in Handles
      BY DEF Handles
    <2> QED  BY <1>1, <2>1 DEF Send, EpochsAfter
  <1>3. stable' \in [Configs -> [Files -> Versions \cup {NoTree}]]
    BY DEF Send, StableAfter
  <1>4. kept' \subseteq Kept
    BY DEF Send
  <1>5. live' \subseteq Handles \ {0}
    BY SendFacts
  <1> QED  BY <1>1, <1>2, <1>3, <1>4, <1>5, SendFacts

\* An answer that is fetched: what is kept stays well-formed.
LEMMA FetchTyped ==
    ASSUME TypeOK, NEW k \in Answers, NEW c \in Configs, NEW p \in Handles
    PROVE  Fetched(k, c, p) \in [Answers -> [Configs -> [epoch : Handles, project : Handles]]]
  <1> QED  BY DEF TypeOK, Fetched

LEMMA TypeStep == TypeOK /\ [Next]_vars => TypeOK'
  <1> SUFFICES ASSUME TypeOK, [Next]_vars PROVE TypeOK'
    OBVIOUS
  <1> USE DEF TypeOK
  <1>0. 0 \in Handles /\ NoSync \in [steady : Steadies \cup {0}, project : Handles]
        /\ Idle \in [cfg : Configs \cup {NoConfig}, steady : Steadies \cup {0}, project : Handles]
    BY DEF Handles, NoSync, Idle
  <1>1. ASSUME NEW c \in Configs, NEW s \in Steadies, CreateProgram(c, s) PROVE TypeOK'
    <2>1. /\ cache' \in [Configs -> Handles]
          /\ active' \in Configs \cup {NoConfig}
          /\ UNCHANGED <<mode, host, memo, stray>>
      BY <1>0, <1>1 DEF CreateProgram
    <2>2. CASE UNCHANGED <<sendVars, lastSync, built>>
      <3>1. turn' = [cfg |-> c, steady |-> s, project |-> lastSync[c].project]
            \/ Send(c, Noticed(c), Closing(c), IF Closing(c) = {} THEN {} ELSE built)
        BY <1>1 DEF CreateProgram
      <3>2. ~Send(c, Noticed(c), Closing(c), IF Closing(c) = {} THEN {} ELSE built)
        BY <2>2, SendFacts DEF sendVars, goVars
      <3> QED  BY <2>1, <2>2, <3>1, <3>2 DEF sendVars, goVars
    <2>3. CASE Send(c, Noticed(c), Closing(c), IF Closing(c) = {} THEN {} ELSE built)
      <3>1. seq' = seq + 1 /\ seq + 1 \in Handles /\ seq \in Nat
        BY <2>3, SendFacts
      <3>2. ~UNCHANGED sendVars
        BY <3>1 DEF sendVars, goVars
      <3>3. /\ turn' = [cfg |-> c, steady |-> s, project |-> seq + 1]
            /\ lastSync' = [d \in Configs |->
                    IF d = c THEN [steady |-> s, project |-> seq + 1]
                    ELSE IF d \in Closing(c) THEN NoSync ELSE lastSync[d]]
            /\ built' \subseteq built \cup {seq + 1}
        BY <1>1, <3>2 DEF CreateProgram
      <3> QED  BY <1>0, <2>1, <2>3, <3>1, <3>3, SendTyped
    <2> QED  BY <1>1, <2>2, <2>3 DEF CreateProgram
  <1>2. ASSUME NEW c \in Configs, NEW s \in Steadies, Push(c, s) PROVE TypeOK'
    <2>1. Send(c, IF mode = "service" THEN Noticed(c) ELSE {}, {}, {})
      BY <1>2 DEF Push
    <2>2. seq' = seq + 1 /\ seq + 1 \in Handles
      BY <2>1, SendFacts
    <2> QED  BY <1>2, <2>1, <2>2, SendTyped DEF Push
  <1>3. ASSUME LatePass PROVE TypeOK'
    <2>1. turn.cfg \in Configs /\ turn.project \in Handles
      BY <1>3 DEF LatePass
    <2>2. /\ memo' \in [Answers -> [Configs -> [epoch : Handles, project : Handles]]]
          /\ turn' \in [cfg : Configs \cup {NoConfig}, steady : Steadies \cup {0}, project : Handles]
          /\ UNCHANGED <<mode, host, active, stray>>
      BY <1>0, <1>3, <2>1, FetchTyped DEF LatePass
    <2>3. CASE Noticed(turn.cfg) = {}
      BY <1>3, <2>1, <2>2, <2>3 DEF LatePass, sendVars, goVars
    <2>4. CASE Noticed(turn.cfg) # {}
      <3>1. Send(turn.cfg, Noticed(turn.cfg), {}, {})
        BY <1>3, <2>4 DEF LatePass
      <3>2. seq' = seq + 1 /\ seq + 1 \in Handles
        BY <2>1, <3>1, SendFacts
      <3>3. /\ cache' = [cache EXCEPT ![turn.cfg] = seq + 1]
            /\ lastSync' = [lastSync EXCEPT
                    ![turn.cfg] = [steady |-> turn.steady, project |-> seq + 1]]
            /\ built' = IF mode = "build" THEN built \cup {seq + 1} ELSE {}
        BY <1>3, <2>4 DEF LatePass
      <3>4. turn.steady \in Steadies \cup {0}
        OBVIOUS
      <3>5. /\ cache' \in [Configs -> Handles]
            /\ lastSync' \in [Configs -> [steady : Steadies \cup {0}, project : Handles]]
            /\ built' \subseteq Handles
        BY <2>1, <3>2, <3>3, <3>4
      <3> QED  BY <2>1, <2>2, <3>1, <3>5, SendTyped
    <2> QED  BY <2>3, <2>4
  <1>4. ASSUME NEW c \in Configs, NEW k \in Answers, Ask(k, c) PROVE TypeOK'
    <2>1. memo' \in [Answers -> [Configs -> [epoch : Handles, project : Handles]]]
      BY <1>4, FetchTyped DEF Ask
    <2> QED  BY <1>4, <2>1 DEF Ask, sendVars, goVars
  <1>5. ASSUME NEW c \in Configs, NEW f \in Files, ReuseTree(c, f) PROVE TypeOK'
    <2>1. Tree(c, f, stable[c][f]) \in Kept
      BY <1>5 DEF ReuseTree, Tree, Kept
    <2> QED  BY <1>5, <2>1 DEF ReuseTree, goVars
  <1>6. ASSUME NEW c \in Configs, NEW f \in Files, FetchTree(c, f) PROVE TypeOK'
    <2>1. text[cache[c]][f] \in Versions /\ Tree(c, f, text[cache[c]][f]) \in Kept
      BY DEF Tree, Kept
    <2>2. stray' \in [Configs -> SUBSET Files]
      BY <1>6 DEF FetchTree
    <2> QED  BY <1>6, <2>1, <2>2 DEF FetchTree, goVars
  <1>7. ASSUME NEW f \in Files, Rewrite(f) PROVE TypeOK'
    BY <1>7 DEF Rewrite, Versions, sendVars, goVars
  <1>8. CASE UNCHANGED vars
    BY <1>8 DEF vars, sendVars, goVars
  <1> QED  BY <1>1, <1>2, <1>3, <1>4, <1>5, <1>6, <1>7, <1>8 DEF Next

\* Every reachable state is type-correct.
THEOREM TypeCorrect == Spec => []TypeOK
  <1>1. Init => TypeOK
    BY InitInv DEF IInv
  <1> QED  BY <1>1, TypeStep, PTL DEF Spec
-----------------------------------------------------------------------------
(* Sends. *)

\* What the three actions that send have in common.
Synchronises(c, sent, steady) ==
    /\ Send(c, sent, Closing(c), IF Closing(c) = {} THEN {} ELSE built)
    /\ lastSync' = [d \in Configs |->
            IF d = c THEN [steady |-> steady, project |-> seq + 1]
            ELSE IF d \in Closing(c) THEN NoSync ELSE lastSync[d]]
    /\ active' = IF mode = "build" THEN c ELSE NoConfig
    /\ built' = IF mode = "build"
                THEN (IF Closing(c) = {} THEN built ELSE {}) \cup {seq + 1} ELSE {}
    /\ UNCHANGED <<mode, host>>

\* A recorded project of a build is the one being built.
LEMMA NoneGivesWay ==
    ASSUME TypeOK, Kinds, NEW c \in Configs, lastSync[c].project # 0, seq # 0
    PROVE  Closing(c) = {} /\ active = IF mode = "build" THEN c ELSE NoConfig
  <1>1. CASE mode = "build"
    BY <1>1 DEF Kinds, Build, Closing
  <1>2. CASE mode # "build"
    <2>1. mode = "service"
      BY <1>2 DEF TypeOK
    <2> QED  BY <2>1 DEF Kinds, Service, Closing
  <1> QED  BY <1>1, <1>2

LEMMA RecordedSeq ==
    ASSUME TypeOK, Order, NEW c \in Configs, lastSync[c].project # 0
    PROVE  seq # 0 /\ lastSync[c].project \in 1..seq
  <1>1. lastSync[c].project \in live
    BY DEF Order, Usable
  <1>2. seq \in Nat /\ live \subseteq 1..seq
    BY DEF Order, TypeOK, Handles
  <1>3. lastSync[c].project \in 1..seq
    BY <1>1, <1>2
  <1>4. \A h \in 1..seq : seq # 0
    BY <1>2
  <1> QED  BY <1>3, <1>4

LEMMA CreateSends ==
    ASSUME NEW c \in Configs, NEW s \in Steadies, CreateProgram(c, s), ~UNCHANGED sendVars
    PROVE  Synchronises(c, Noticed(c), s)
  <1> QED  BY DEF CreateProgram, Synchronises

LEMMA PushSends ==
    ASSUME IInv, NEW c \in Configs, NEW s \in Steadies, Push(c, s)
    PROVE  Synchronises(c, IF mode = "service" THEN Noticed(c) ELSE {}, s)
  <1>1. lastSync[c].project # 0
    BY DEF Push, IInv, Current
  <1>2. Closing(c) = {} /\ active = IF mode = "build" THEN c ELSE NoConfig
    BY <1>1, RecordedSeq, NoneGivesWay DEF IInv
  <1>3. lastSync' = [d \in Configs |->
            IF d = c THEN [steady |-> s, project |-> seq + 1]
            ELSE IF d \in Closing(c) THEN NoSync ELSE lastSync[d]]
    BY <1>2 DEF Push, IInv, TypeOK
  <1> QED  BY <1>2, <1>3 DEF Push, Synchronises

LEMMA LatePassSends ==
    ASSUME IInv, LatePass, Noticed(turn.cfg) # {}
    PROVE  turn.cfg \in Configs /\ Synchronises(turn.cfg, Noticed(turn.cfg), turn.steady)
  <1> DEFINE c == turn.cfg
  <1>1. turn # Idle /\ c \in Configs /\ lastSync[c].project # 0
    BY DEF LatePass, IInv, Current, Idle
  <1>2. Closing(c) = {} /\ active = IF mode = "build" THEN c ELSE NoConfig
    BY <1>1, RecordedSeq, NoneGivesWay DEF IInv
  <1>3. /\ Send(c, Noticed(c), {}, {})
        /\ lastSync' = [lastSync EXCEPT ![c] = [steady |-> turn.steady, project |-> seq + 1]]
        /\ built' = IF mode = "build" THEN built \cup {seq + 1} ELSE {}
        /\ UNCHANGED <<mode, host, active>>
    BY DEF LatePass
  <1>4. lastSync' = [d \in Configs |->
            IF d = c THEN [steady |-> turn.steady, project |-> seq + 1]
            ELSE IF d \in Closing(c) THEN NoSync ELSE lastSync[d]]
    BY <1>1, <1>2, <1>3 DEF IInv, TypeOK
  <1> QED  BY <1>1, <1>2, <1>3, <1>4 DEF Synchronises

\* Who was recorded and still is keeps its snapshot; the sender gets the new one.
LEMMA SendRecords ==
    ASSUME IInv, NEW c \in Configs, NEW sent, NEW steady, Synchronises(c, sent, steady)
    PROVE  /\ lastSync'[c].project = seq + 1
           /\ \A d \in Configs \ {c} :
                lastSync'[d].project = IF d \in Closing(c) THEN 0 ELSE lastSync[d].project
  <1> QED  BY DEF Synchronises, NoSync

LEMMA SendKeepsOrder ==
    ASSUME IInv, NEW c \in Configs, NEW sent, NEW steady, Synchronises(c, sent, steady)
    PROVE  Order' /\ LatestLive'
  <1> DEFINE closing == Closing(c)
             stale == IF closing = {} THEN {} ELSE built
  <1> USE DEF IInv
  <1>1. Send(c, sent, closing, stale)
    BY DEF Synchronises
  <1>2. /\ seq \in Nat /\ seq' = seq + 1 /\ seq + 1 \in Handles
        /\ \A h \in 0..seq : text'[h] = text[h] /\ open'[h] = open[h]
        /\ open'[seq + 1] = (open[seq] \ closing) \cup {c}
        /\ live' = (live \cup {seq + 1}) \ ({lastSnap[c]} \cup stale)
        /\ \A d \in Configs : lastSnap'[d] = IF d = c THEN seq + 1 ELSE lastSnap[d]
    BY <1>1, SendFacts
  <1>3. stale \subseteq 1..seq /\ lastSnap[c] \in 0..seq /\ live \subseteq 1..seq
    BY DEF Order
  <1> HIDE DEF closing, stale
  <1>4. seq + 1 \in live' /\ live' \subseteq 1..(seq + 1)
    <2>1. seq + 1 \notin stale /\ seq + 1 # lastSnap[c]
      BY <1>2, <1>3
    <2>2. \A h \in live : h \in 1..(seq + 1)
      BY <1>2, <1>3
    <2> QED  BY <1>2, <2>1, <2>2
  <1>5. built' \subseteq 1..(seq + 1)
    BY <1>2 DEF Synchronises, Order
  <1>6. open'[0] = {}
    BY <1>2 DEF Order
  <1>7. \A d \in Configs : epoch'[d] \in 0..(seq + 1)
    <2>1. \A d \in Configs : epoch'[d] \in {0, seq + 1, epoch[d]}
      BY <1>1 DEF Send, EpochsAfter
    <2> QED  BY <1>2, <2>1 DEF Order
  <1>8. \A d \in Configs : lastSnap'[d] \in 0..(seq + 1)
    BY <1>2 DEF Order
  <1>9. ASSUME NEW d \in Configs, lastSync'[d].project # 0
        PROVE  lastSync'[d].project = lastSnap'[d] /\ Usable(d, lastSync[d].project)'
    <2>1. CASE d = c
      <3>1. lastSync'[c].project = seq + 1
        BY SendRecords
      <3>2. c \in open'[seq + 1] /\ lastSnap'[c] = seq + 1
        BY <1>2
      <3> QED  BY <1>4, <2>1, <3>1, <3>2 DEF Usable
    <2>2. CASE d # c
      <3>1. d \notin closing /\ lastSync'[d].project = lastSync[d].project
        BY <1>9, <2>2, SendRecords DEF closing
      <3>2. lastSync[d].project = lastSnap[d] /\ Usable(d, lastSnap[d]) /\ lastSnap[d] # 0
        BY <1>9, <3>1 DEF Order
      <3>3. lastSnap[d] # lastSnap[c]
        BY <2>2, <3>2 DEF Order
      <3>4. closing = {}
        <4>1. CASE mode = "build"
          <5>1. d = active
            BY <4>1, <1>9, <3>1, RecordedSeq DEF Kinds, Build
          <5> QED  BY <4>1, <3>1, <5>1 DEF Closing, closing
        <4> QED  BY <4>1 DEF Closing, closing
      <3>5. lastSnap[d] \in live'
        BY <1>2, <3>2, <3>3, <3>4 DEF Usable, stale
      <3>6. lastSnap[d] \in 0..seq
        BY DEF Order
      <3>7. d \in open'[lastSnap[d]] /\ lastSnap'[d] = lastSnap[d]
        BY <1>2, <2>2, <3>2, <3>6 DEF Usable
      <3> QED  BY <3>1, <3>2, <3>5, <3>7 DEF Usable
    <2> QED  BY <2>1, <2>2
  <1>10. ASSUME NEW d \in Configs, NEW e \in Configs, lastSnap'[d] = lastSnap'[e], lastSnap'[d] # 0
         PROVE  d = e
    <2>1. lastSnap[d] \in 0..seq /\ lastSnap[e] \in 0..seq
      BY DEF Order
    <2> QED  BY <1>2, <1>10, <2>1 DEF Order
  <1>11. Order'
    <2>1. live' \subseteq 1..seq' /\ built' \subseteq 1..seq'
      BY <1>2, <1>4, <1>5
    <2>2. \A d \in Configs : lastSnap'[d] \in 0..seq' /\ epoch'[d] \in 0..seq'
      BY <1>2, <1>7, <1>8
    <2> QED  BY <1>6, <1>9, <1>10, <2>1, <2>2 DEF Order
  <1> QED  BY <1>2, <1>4, <1>11 DEF LatestLive

LEMMA SendKeepsKinds ==
    ASSUME IInv, NEW c \in Configs, NEW sent, NEW steady, Synchronises(c, sent, steady)
    PROVE  Kinds'
  <1> DEFINE closing == Closing(c)
             stale == IF closing = {} THEN {} ELSE built
  <1> USE DEF IInv
  <1>1. /\ seq \in Nat /\ seq' = seq + 1
        /\ open'[seq + 1] = (open[seq] \ closing) \cup {c}
        /\ live' = (live \cup {seq + 1}) \ ({lastSnap[c]} \cup stale)
        /\ \A d \in Configs : lastSnap'[d] = IF d = c THEN seq + 1 ELSE lastSnap[d]
    BY SendFacts DEF Synchronises
  <1>2. /\ \A d \in Configs : lastSnap[d] \in 0..seq
        /\ \A d \in Configs : lastSnap[d] = lastSnap[c] /\ lastSnap[c] # 0 => c = d
        /\ live \subseteq 1..seq
    BY DEF Order
  <1>3. CASE mode = "service"
    <2>1. closing = {} /\ Service
      BY <1>3 DEF Closing, Kinds
    <2>2. active' = NoConfig /\ built' = {}
      BY <1>3 DEF Synchronises
    <2>3. live' = {lastSnap'[d] : d \in Configs} \ {0}
      <3>1. live' \subseteq {lastSnap'[d] : d \in Configs} \ {0}
        BY <1>1, <1>2, <2>1 DEF Service
      <3>2. ASSUME NEW d \in Configs, lastSnap'[d] # 0 PROVE lastSnap'[d] \in live'
        BY <1>1, <1>2, <2>1, <3>2 DEF Service
      <3> QED  BY <3>1, <3>2
    <2>4. \A d \in Configs : lastSnap'[d] # 0 => lastSync'[d].project # 0 /\ d \in open'[seq']
      BY <1>1, <2>1, SendRecords DEF Service
    <2> QED  BY <1>3, <2>2, <2>3, <2>4 DEF Kinds, Service, Synchronises
  <1>4. CASE mode = "build"
    <2>1. Build
      BY <1>4 DEF Kinds
    <2>2. active' = c /\ seq + 1 \in built'
      BY <1>4 DEF Synchronises
    <2>3. open'[seq + 1] = {c}
      BY <1>1, <1>4, <2>1 DEF Build, Closing, Order
    <2>4. live' = {seq + 1}
      <3>1. CASE seq = 0
        <4>1. live = {} /\ lastSnap[c] = 0 /\ stale = {}
          BY <1>2, <2>1, <3>1 DEF Build, Closing
        <4> QED  BY <1>1, <3>1, <4>1
      <3>2. CASE seq # 0 /\ active = c
        <4>1. lastSnap[c] = seq /\ closing = {}
          BY <1>4, <2>1, <3>2 DEF Build, Closing, Order
        <4> QED  BY <1>1, <2>1, <3>2, <4>1 DEF Build
      <3>3. CASE seq # 0 /\ active # c
        <4>1. closing # {} /\ seq \in stale
          BY <1>4, <2>1, <3>3 DEF Build, Closing
        <4>2. seq + 1 \notin stale
          BY <1>1 DEF Order
        <4> QED  BY <1>1, <1>2, <2>1, <3>3, <4>1, <4>2 DEF Build
      <3> QED  BY <3>1, <3>2, <3>3
    <2>5. \A d \in Configs : lastSync'[d].project = IF d = c THEN seq + 1 ELSE 0
      <3>1. ASSUME NEW d \in Configs \ {c} PROVE lastSync'[d].project = 0
        <4>1. CASE lastSync[d].project = 0
          BY <4>1, SendRecords
        <4>2. CASE lastSync[d].project # 0
          <5>1. seq # 0 /\ d = active
            BY <2>1, <4>2, RecordedSeq DEF Build
          <5> QED  BY <1>4, <5>1, SendRecords DEF Closing
        <4> QED  BY <4>1, <4>2
      <3> QED  BY <3>1, SendRecords
    <2> QED  BY <1>1, <1>4, <2>2, <2>3, <2>4, <2>5 DEF Kinds, Build, Synchronises
  <1> QED  BY <1>3, <1>4 DEF TypeOK

\* A send moves every epoch as it should: the previous snapshot is there to be
\* compared with.
LEMMA SendEpochs ==
    ASSUME IInv, NEW c \in Configs, NEW sent, NEW steady, Synchronises(c, sent, steady),
           NEW d \in Configs
    PROVE  LET opened == (open[seq] \ Closing(c)) \cup {c}
               changed == \E f \in FilesOf[d] : text'[seq + 1][f] # text[seq][f]
           IN  epoch'[d] = IF d \notin opened THEN 0
                           ELSE IF d \notin open[seq] \/ changed THEN seq + 1
                           ELSE epoch[d]
  <1> DEFINE opened == (open[seq] \ Closing(c)) \cup {c}
             texts == [f \in Files |-> IF f \in sent THEN host[f] ELSE text[seq][f]]
             changed == \E f \in FilesOf[d] : text'[seq + 1][f] # text[seq][f]
  <1>1. /\ \A f \in Files : text'[seq + 1][f] = texts[f]
        /\ FilesOf[d] \subseteq Files
    BY SendFacts DEF Synchronises, IInv
  <1>2. epoch' = EpochsAfter(texts, opened)
    BY DEF Synchronises, Send
  <1>3. /\ seq \in live \/ (seq = 0 /\ open[seq] = {})
        /\ epoch[d] # 0 <=> d \in open[seq]
    BY DEF IInv, LatestLive, Order, Epochs
  <1>4. Diffed(opened) = open[seq] \cap opened
    BY <1>3 DEF Diffed
  <1>5. ChangedFiles(d, texts) # {} <=> changed
    BY <1>1 DEF ChangedFiles
  <1> HIDE DEF opened, texts, changed
  <1>6. epoch'[d] = IF d \notin opened THEN 0
                    ELSE IF d \notin open[seq] \/ changed THEN seq + 1 ELSE epoch[d]
    BY <1>2, <1>3, <1>4, <1>5 DEF EpochsAfter
  <1> QED  BY <1>6 DEF opened, changed

LEMMA SendTexts ==
    ASSUME IInv, NEW c \in Configs, NEW sent, NEW steady, Synchronises(c, sent, steady)
    PROVE  /\ seq \in Nat /\ seq' = seq + 1
           /\ \A h \in 0..seq : text'[h] = text[h]
  <1> QED  BY SendFacts DEF Synchronises, IInv

LEMMA SendKeepsTexts ==
    ASSUME IInv, NEW c \in Configs, NEW sent, NEW steady, Synchronises(c, sent, steady)
    PROVE  Epochs'
  <1>1. /\ seq \in Nat /\ seq' = seq + 1
        /\ \A h \in 0..seq : text'[h] = text[h]
        /\ open'[seq + 1] = (open[seq] \ Closing(c)) \cup {c}
    BY SendTexts, SendFacts DEF Synchronises, IInv
  <1>2. ASSUME NEW d \in Configs
        PROVE  /\ epoch'[d] # 0 <=> d \in open'[seq + 1]
               /\ epoch'[d] # 0 => \A h \in epoch'[d]..(seq + 1) : \A f \in FilesOf[d] :
                    text'[h][f] = text'[seq + 1][f]
    <2>1. /\ epoch[d] \in 0..seq
          /\ epoch[d] # 0 <=> d \in open[seq]
      BY DEF IInv, Order, Epochs
    <2>2. CASE d \notin open'[seq + 1]
      BY <1>1, <2>2, SendEpochs
    <2>3. CASE /\ d \in open'[seq + 1]
               /\ \/ d \notin open[seq]
                  \/ \E f \in FilesOf[d] : text'[seq + 1][f] # text[seq][f]
      <3>1. epoch'[d] = seq + 1
        BY <1>1, <2>3, SendEpochs
      <3>2. \A h \in (seq + 1)..(seq + 1) : h = seq + 1
        BY <1>1
      <3> QED  BY <1>1, <2>3, <3>1, <3>2
    <2>4. CASE /\ d \in open'[seq + 1] /\ d \in open[seq]
               /\ \A f \in FilesOf[d] : text'[seq + 1][f] = text[seq][f]
      <3>1. epoch'[d] = epoch[d] /\ epoch[d] # 0
        BY <1>1, <2>1, <2>4, SendEpochs
      <3>2. ASSUME NEW h \in epoch[d]..(seq + 1), NEW f \in FilesOf[d]
            PROVE  text'[h][f] = text'[seq + 1][f]
        <4>1. CASE h = seq + 1
          BY <4>1
        <4>2. CASE h # seq + 1
          <5>1. h \in epoch[d]..seq /\ h \in 0..seq
            BY <1>1, <2>1, <4>2
          <5>2. text[h][f] = text[seq][f]
            BY <3>1, <5>1 DEF IInv, Epochs
          <5> QED  BY <1>1, <2>4, <5>1, <5>2
        <4> QED  BY <4>1, <4>2
      <3> QED  BY <2>4, <3>1, <3>2
    <2> QED  BY <2>2, <2>3, <2>4
  <1> QED  BY <1>1, <1>2 DEF Epochs

\* A send leaves the answers behind it.
LEMMA SendKeepsMemos ==
    ASSUME IInv, NEW c \in Configs, NEW sent, NEW steady, Synchronises(c, sent, steady),
           MemosOf(memo')
    PROVE  MemosOf(memo)'
  <1>1. seq \in Nat /\ seq' = seq + 1
    BY SendTexts
  <1>2. ASSUME NEW k \in Answers, NEW d \in Configs
        PROVE  /\ memo'[k][d].project \in 0..seq' /\ memo'[k][d].epoch \in 0..seq'
               /\ lastSync'[d].project # 0 => memo'[k][d].project <= lastSync'[d].project
    <2> DEFINE m == memo'[k][d]
    <2>1. /\ m.project \in 0..seq /\ m.epoch \in 0..seq
          /\ lastSync[d].project # 0 => m.project <= lastSync[d].project
      BY DEF MemosOf
    <2> HIDE DEF m
    <2>2. lastSync'[d].project \in {0, lastSync[d].project, seq + 1}
      BY SendRecords
    <2> QED  BY <1>1, <2>1, <2>2 DEF m
  <1> QED  BY <1>2 DEF MemosOf

\* A tree that outlives a send is of a file no open project saw change.
LEMMA SendKeepsTrees ==
    ASSUME IInv, NEW c \in Configs, NEW sent, NEW steady, Synchronises(c, sent, steady),
           stray' = stray
    PROVE  Trees'
  <1> SUFFICES ASSUME mode = "service" PROVE Trees'
    BY DEF Trees, Synchronises
  <1> DEFINE opened == (open[seq] \ Closing(c)) \cup {c}
             texts == [f \in Files |-> IF f \in sent THEN host[f] ELSE text[seq][f]]
  <1>1. /\ seq \in Nat /\ seq' = seq + 1
        /\ \A h \in 0..seq : text'[h] = text[h]
        /\ \A f \in Files : text'[seq + 1][f] = texts[f]
    BY SendTexts, SendFacts DEF Synchronises, IInv
  <1>2. Closing(c) = {} /\ Service /\ Trees
    BY DEF Closing, IInv, Kinds
  <1>3. ASSUME NEW d \in Configs, NEW f \in Files, stable'[d][f] # NoTree
        PROVE  /\ lastSync'[d].project # 0 /\ f \in FilesOf[d]
               /\ f \notin stray'[d] => /\ stable'[d][f] = text'[lastSync'[d].project][f]
                                     /\ stable'[d][f] = text'[seq'][f]
    <2>1. /\ stable' = StableAfter(texts, opened)
      BY DEF Synchronises, Send
    <2>2. /\ stable'[d][f] = stable[d][f]
          /\ \A e \in Diffed(opened) : f \notin ChangedFiles(e, texts)
      BY <1>3, <2>1 DEF StableAfter
    <2>3. /\ lastSync[d].project # 0 /\ f \in FilesOf[d]
          /\ f \notin stray[d] => /\ stable[d][f] = text[lastSync[d].project][f]
                               /\ stable[d][f] = text[seq][f]
      BY <1>2, <1>3, <2>2 DEF Trees
    <2>4. lastSync[d].project \in 0..seq /\ seq # 0 /\ seq \in live
      BY <1>1, <2>3, RecordedSeq DEF IInv, LatestLive
    <2>5. d \in open[seq]
      BY <1>2, <2>3 DEF Service, IInv, Order
    <2>6. d \in Diffed(opened)
      BY <1>2, <2>4, <2>5 DEF Diffed
    <2>7. text'[seq + 1][f] = text[seq][f]
      BY <1>1, <2>2, <2>3, <2>6 DEF ChangedFiles
    <2>8. lastSync'[d].project = IF d = c THEN seq + 1 ELSE lastSync[d].project
      BY <1>2, SendRecords
    <2>9. lastSync'[d].project # 0
      BY <1>1, <2>3, <2>8
    <2>10. f \notin stray'[d] => /\ stable[d][f] = text'[lastSync'[d].project][f]
                              /\ stable[d][f] = text'[seq + 1][f]
      BY <1>1, <2>3, <2>4, <2>7, <2>8
    <2> QED  BY <1>1, <2>2, <2>3, <2>9, <2>10
  <1>4. ASSUME NEW k \in kept'
        PROVE  /\ k.snap \in live' /\ k.snap = lastSnap'[k.cfg]
               /\ k.file \notin stray'[k.cfg] => k.ver = text'[k.snap][k.file]
    <2>1. k \in kept /\ k.snap \in live' /\ k.cfg \in Configs
      BY DEF Synchronises, Send, IInv, TypeOK, Kept
    <2>2. /\ k.snap \in live /\ k.snap = lastSnap[k.cfg]
          /\ k.file \notin stray[k.cfg] => k.ver = text[k.snap][k.file]
      BY <1>2, <2>1 DEF Trees
    <2>3. k.snap \in 0..seq
      <3>1. live \subseteq 1..seq
        BY DEF IInv, Order
      <3>2. k.snap \in 1..seq
        BY <2>2, <3>1
      <3> QED  BY <1>1, <3>2
    <2>4. k.snap = lastSnap'[k.cfg]
      <3>1. /\ live' = (live \cup {seq + 1}) \ ({lastSnap[c]} \cup {})
            /\ \A e \in Configs : lastSnap'[e] = IF e = c THEN seq + 1 ELSE lastSnap[e]
        BY <1>2, SendFacts DEF Synchronises, IInv
      <3>2. k.snap # seq + 1
        BY <1>1, <2>3
      <3> QED  BY <2>1, <2>2, <3>1, <3>2
    <2> QED  BY <1>1, <2>1, <2>2, <2>3, <2>4
  <1> QED  BY <1>3, <1>4 DEF Trees
-----------------------------------------------------------------------------
(* What is fetched. *)

\* An answer is fetched through the recorded project.
LEMMA FetchKeeps ==
    ASSUME IInv, NEW k \in Answers, NEW c \in Configs, lastSync[c].project # 0,
           memo' = Fetched(k, c, lastSync[c].project)
    PROVE  MemosOf(memo')
  <1> DEFINE p == lastSync[c].project
  <1>1. CASE Hit(k, c, p)
    BY <1>1 DEF Fetched, IInv
  <1>2. CASE ~Hit(k, c, p)
    <2>1. memo' = [memo EXCEPT ![k][c] = [epoch |-> epoch[c], project |-> p]]
      BY <1>2 DEF Fetched
    <2>2. p \in 0..seq /\ epoch[c] \in 0..seq /\ p <= p
      <3>1. TypeOK /\ Order
        BY DEF IInv
      <3>2. p \in 1..seq
        BY <3>1, RecordedSeq
      <3>3. seq \in Nat /\ epoch[c] \in 0..seq
        BY <3>1 DEF TypeOK, Handles, Order
      <3> QED  BY <3>2, <3>3
    <2>3. ASSUME NEW j \in Answers, NEW d \in Configs
          PROVE  IF j = k /\ d = c
                 THEN memo'[j][d].epoch = epoch[c] /\ memo'[j][d].project = p
                 ELSE memo'[j][d] = memo[j][d]
      BY <2>1 DEF IInv, TypeOK
    <2>4. MemosOf(memo)
      BY DEF IInv
    <2> QED  BY <2>2, <2>3, <2>4 DEF MemosOf
  <1> QED  BY <1>1, <1>2
-----------------------------------------------------------------------------
(* Every step keeps the invariant. *)

LEMMA SendKeeps ==
    ASSUME IInv, NEW c \in Configs, NEW sent, NEW steady, Synchronises(c, sent, steady),
           MemosOf(memo'), stray' = stray
    PROVE  /\ Order' /\ Kinds' /\ LatestLive'
           /\ Epochs' /\ MemosOf(memo)' /\ Trees'
  <1>1. Order' /\ LatestLive'
    BY SendKeepsOrder
  <1>2. Kinds'
    BY SendKeepsKinds
  <1>3. Epochs'
    BY SendKeepsTexts
  <1>4. MemosOf(memo)'
    BY SendKeepsMemos
  <1>5. Trees'
    BY SendKeepsTrees
  <1> QED  BY <1>1, <1>2, <1>3, <1>4, <1>5

LEMMA CreateKeeps ==
    ASSUME IInv, TypeOK', NEW c \in Configs, NEW s \in Steadies, CreateProgram(c, s)
    PROVE  IInv'
  <1>0. /\ \A d \in Configs : cache'[d] = IF d \in Closing(c) \cup {c} THEN 0 ELSE cache[d]
        /\ UNCHANGED <<mode, host, memo, stray>>
        /\ active' = IF mode = "build" THEN c ELSE NoConfig
    BY DEF CreateProgram
  <1>1. CASE UNCHANGED sendVars
    <2>1. /\ UNCHANGED <<lastSync, built>>
          /\ Skips(c, s, Noticed(c) # {} \/ mode = "build")
          /\ turn' = [cfg |-> c, steady |-> s, project |-> lastSync[c].project]
      <3>1. ~Send(c, Noticed(c), Closing(c), IF Closing(c) = {} THEN {} ELSE built)
        BY <1>1, SendFacts DEF IInv, sendVars, goVars
      <3> QED  BY <3>1 DEF CreateProgram
    <2>2. mode = "service" /\ lastSync[c].project # 0
      BY <2>1 DEF Skips, IInv, TypeOK
    <2>3. active' = active
      BY <1>0, <2>2 DEF IInv, Kinds, Service
    <2>4. Current'
      <3>1. \A d \in Configs : cache'[d] # 0 => cache'[d] = lastSync'[d].project
        BY <1>0, <2>1 DEF IInv, Current
      <3> QED  BY <2>1, <2>2, <3>1 DEF Current
    <2>5. Order' /\ Kinds' /\ LatestLive'
      BY <1>0, <1>1, <2>1, <2>3
      DEF IInv, Order, Usable, Kinds, Service, Build, LatestLive, sendVars, goVars
    <2>6. Epochs'
      BY <1>0, <1>1, <2>1 DEF IInv, Epochs, sendVars, goVars
    <2>7. MemosOf(memo)' /\ Trees'
      BY <1>0, <1>1, <2>1 DEF IInv, MemosOf, Trees, sendVars, goVars
    <2> QED  BY <2>4, <2>5, <2>6, <2>7 DEF IInv
  <1>2. CASE ~UNCHANGED sendVars
    <2>1. Synchronises(c, Noticed(c), s)
      BY <1>2, CreateSends
    <2>2. MemosOf(memo') /\ stray' = stray
      BY <1>0 DEF IInv
    <2>3. turn' = [cfg |-> c, steady |-> s, project |-> seq + 1] /\ seq + 1 # 0
      BY <1>2, <2>1, SendTexts DEF CreateProgram
    <2>4. Current'
      <3>1. ASSUME NEW d \in Configs, cache'[d] # 0 PROVE cache'[d] = lastSync'[d].project
        <4>1. d \notin Closing(c) \cup {c} /\ cache'[d] = cache[d]
          BY <1>0, <3>1
        <4> QED  BY <2>1, <3>1, <4>1, SendRecords DEF IInv, Current
      <3> QED  BY <2>1, <2>3, <3>1, SendRecords DEF Current
    <2> QED  BY <2>1, <2>2, <2>4, SendKeeps DEF IInv
  <1> QED  BY <1>1, <1>2

LEMMA PushKeeps ==
    ASSUME IInv, TypeOK', NEW c \in Configs, NEW s \in Steadies, Push(c, s)
    PROVE  IInv'
  <1>1. Synchronises(c, IF mode = "service" THEN Noticed(c) ELSE {}, s)
    BY PushSends
  <1>2. MemosOf(memo') /\ stray' = stray
    BY DEF IInv, Push
  <1>3. Current'
    <2>1. /\ \A d \in Configs : cache'[d] = IF d = c THEN seq + 1 ELSE cache[d]
          /\ turn' = Idle
      BY DEF Push, IInv, TypeOK
    <2>2. Closing(c) = {}
      <3>1. lastSync[c].project # 0
        BY DEF Push, IInv, Current
      <3> QED  BY <3>1, RecordedSeq, NoneGivesWay DEF IInv
    <2> QED  BY <1>1, <2>1, <2>2, SendRecords DEF Current, IInv
  <1> QED  BY <1>1, <1>2, <1>3, SendKeeps DEF IInv

LEMMA LatePassKeeps ==
    ASSUME IInv, TypeOK', LatePass
    PROVE  IInv'
  <1> DEFINE c == turn.cfg
  <1>0. /\ turn # Idle /\ c \in Configs
        /\ lastSync[c].project # 0 /\ turn.project = lastSync[c].project
        /\ "names" \in Answers
    BY DEF LatePass, IInv, Current, Idle
  <1>1. MemosOf(memo')
    BY <1>0, FetchKeeps DEF LatePass
  <1>2. UNCHANGED <<mode, host, active, stray>> /\ turn' = Idle
    BY DEF LatePass
  <1>3. CASE Noticed(c) = {}
    <2>1. /\ \A d \in Configs : cache'[d] = IF d = c THEN lastSync[c].project ELSE cache[d]
          /\ UNCHANGED <<sendVars, lastSync, built>>
      BY <1>0, <1>3 DEF LatePass, IInv, TypeOK
    <2>2. Current'
      BY <1>2, <2>1 DEF IInv, Current
    <2>3. Order' /\ Kinds' /\ LatestLive'
      BY <1>2, <2>1
      DEF IInv, Order, Usable, Kinds, Service, Build, LatestLive, sendVars, goVars
    <2>4. Epochs'
      BY <1>2, <2>1 DEF IInv, Epochs, sendVars, goVars
    <2>5. MemosOf(memo)'
      BY <1>1, <2>1 DEF MemosOf, sendVars, goVars
    <2>6. Trees'
      BY <1>2, <2>1 DEF IInv, Trees, sendVars, goVars
    <2> QED  BY <2>2, <2>3, <2>4, <2>5, <2>6 DEF IInv
  <1>4. CASE Noticed(c) # {}
    <2>1. Synchronises(c, Noticed(c), turn.steady)
      BY <1>4, LatePassSends
    <2>2. \A d \in Configs : cache'[d] = IF d = c THEN seq + 1 ELSE cache[d]
      BY <1>0, <1>4 DEF LatePass, IInv, TypeOK
    <2>3. Closing(c) = {}
      BY <1>0, RecordedSeq, NoneGivesWay DEF IInv
    <2>4. Current'
      BY <1>0, <1>2, <2>1, <2>2, <2>3, SendRecords DEF Current, IInv
    <2> QED  BY <1>0, <1>1, <1>2, <2>1, <2>4, SendKeeps DEF IInv
  <1> QED  BY <1>3, <1>4

LEMMA AskKeeps ==
    ASSUME IInv, TypeOK', NEW c \in Configs, NEW k \in Answers, Ask(k, c)
    PROVE  IInv'
  <1>1. /\ lastSync[c].project # 0 /\ cache[c] = lastSync[c].project
        /\ UNCHANGED <<mode, host, sendVars, cache, lastSync, active, built, turn, stray>>
    BY DEF Ask, IInv, Current
  <1>2. MemosOf(memo')
    BY <1>1, FetchKeeps DEF Ask
  <1>3. Current' /\ Order' /\ Kinds' /\ LatestLive'
    BY <1>1 DEF IInv, Current, Order, Usable, Kinds, Service, Build, LatestLive, sendVars, goVars
  <1>4. Epochs'
    BY <1>1 DEF IInv, Epochs, sendVars, goVars
  <1>5. MemosOf(memo)'
    BY <1>1, <1>2 DEF MemosOf, sendVars, goVars
  <1>6. Trees'
    BY <1>1 DEF IInv, Trees, sendVars, goVars
  <1> QED  BY <1>3, <1>4, <1>5, <1>6 DEF IInv

LEMMA TreeKeeps ==
    ASSUME IInv, TypeOK', NEW c \in Configs, NEW f \in Files,
           ReuseTree(c, f) \/ FetchTree(c, f)
    PROVE  IInv'
  <1> DEFINE p == lastSync[c].project
  <1>1. /\ p # 0 /\ cache[c] = p /\ f \in FilesOf[c]
        /\ UNCHANGED <<mode, host, goVars, lastSnap, epoch, cache, lastSync, memo,
                       active, built, turn>>
    BY DEF ReuseTree, FetchTree, IInv, Current
  <1>3. Current' /\ Order' /\ Kinds' /\ LatestLive'
    BY <1>1 DEF IInv, Current, Order, Usable, Kinds, Service, Build, LatestLive, goVars
  <1>4. Epochs'
    BY <1>1 DEF IInv, Epochs, goVars
  <1>5. MemosOf(memo)'
    BY <1>1 DEF IInv, MemosOf, goVars
  <1>6. p \in live /\ p = lastSnap[c] /\ lastSnap' = lastSnap
    BY <1>1 DEF IInv, Order, Usable
  <1>7. ASSUME mode = "service" PROVE Trees'
    <2>0. /\ mode' = mode /\ text' = text /\ live' = live /\ seq' = seq
          /\ lastSync' = lastSync
      BY <1>1 DEF goVars
    <2>1. CASE ReuseTree(c, f)
      <3>1. UNCHANGED <<stable, stray>> /\ kept' = kept \cup {Tree(c, f, stable[c][f])}
        BY <2>1 DEF ReuseTree
      <3>2. f \notin stray[c] => stable[c][f] = text[p][f]
        BY <1>7, <2>1 DEF ReuseTree, IInv, Trees
      <3>3. \A k \in kept' : /\ k.snap \in live /\ k.snap = lastSnap[k.cfg]
                             /\ k.file \notin stray[k.cfg] => k.ver = text[k.snap][k.file]
        BY <1>1, <1>6, <1>7, <3>1, <3>2 DEF Tree, IInv, Trees
      <3>4. Trees
        BY DEF IInv
      <3> QED  BY <1>6, <1>7, <2>0, <3>1, <3>3, <3>4 DEF Trees
    <2>2. CASE FetchTree(c, f)
      <3>1. /\ kept' = kept \cup {Tree(c, f, text[p][f])} /\ ~Retained(c, f)
            /\ stray' = [stray EXCEPT ![c] =
                    IF text[p][f] = text[seq][f] THEN @ \ {f} ELSE @ \cup {f}]
            /\ stable' = [stable EXCEPT ![c][f] = text[p][f]]
        BY <1>1, <2>2 DEF FetchTree
      <3>2. /\ f \notin stray'[c] => text[p][f] = text[seq][f]
            /\ \A d \in Configs, g \in Files : d # c \/ g # f =>
                    (g \in stray'[d] <=> g \in stray[d])
        BY <3>1 DEF IInv, TypeOK
      <3>3. ASSUME NEW k \in kept'
            PROVE  /\ k.snap \in live /\ k.snap = lastSnap[k.cfg]
                   /\ k.file \notin stray'[k.cfg] => k.ver = text[k.snap][k.file]
        <4>1. CASE k = Tree(c, f, text[p][f])
          BY <1>1, <1>6, <4>1 DEF Tree
        <4>2. CASE k \in kept
          <5>1. /\ k.snap \in live /\ k.snap = lastSnap[k.cfg]
                /\ k.file \notin stray[k.cfg] => k.ver = text[k.snap][k.file]
                /\ k.cfg \in Configs /\ k.file \in Files
            BY <1>7, <4>2 DEF IInv, Trees, TypeOK, Kept
          <5>2. k.cfg # c \/ k.file # f
            BY <1>1, <1>6, <3>1, <4>2, <5>1 DEF Retained
          <5> QED  BY <3>2, <5>1, <5>2
        <4> QED  BY <3>1, <4>1, <4>2
      <3>4. ASSUME NEW d \in Configs, NEW g \in Files, stable'[d][g] # NoTree
            PROVE  /\ lastSync[d].project # 0 /\ g \in FilesOf[d]
                   /\ g \notin stray'[d] => /\ stable'[d][g] = text[lastSync[d].project][g]
                                            /\ stable'[d][g] = text[seq][g]
        <4>1. CASE d = c /\ g = f
          <5>1. stable'[c][f] = text[p][f]
            BY <3>1 DEF IInv, TypeOK
          <5> QED  BY <1>1, <3>2, <4>1, <5>1
        <4>2. CASE ~(d = c /\ g = f)
          <5>1. stable'[d][g] = stable[d][g]
            BY <3>1, <4>2 DEF IInv, TypeOK
          <5> QED  BY <1>7, <3>2, <3>4, <4>2, <5>1 DEF IInv, Trees
        <4> QED  BY <4>1, <4>2
      <3> QED  BY <1>6, <2>0, <3>3, <3>4 DEF Trees
    <2> QED  BY <2>1, <2>2
  <1>8. Trees'
    <2>1. CASE mode # "service"
      BY <1>1, <2>1 DEF Trees
    <2> QED  BY <1>7, <2>1
  <1> QED  BY <1>3, <1>4, <1>5, <1>8 DEF IInv

LEMMA RewriteKeeps ==
    ASSUME IInv, TypeOK', NEW f \in Files, Rewrite(f)
    PROVE  IInv'
  <1>1. UNCHANGED <<mode, sendVars, cache, lastSync, memo, active, built, turn, stray>>
    BY DEF Rewrite
  <1>2. Epochs'
    BY <1>1 DEF IInv, Epochs, sendVars, goVars
  <1>3. Current' /\ Order' /\ Kinds' /\ LatestLive'
    BY <1>1 DEF IInv, Current, Order, Usable, Kinds, Service, Build, LatestLive, sendVars, goVars
  <1>4. MemosOf(memo)' /\ Trees'
    BY <1>1 DEF IInv, MemosOf, Trees, sendVars, goVars
  <1> QED  BY <1>2, <1>3, <1>4 DEF IInv

LEMMA InvStep == IInv /\ [Next]_vars => IInv'
  <1> SUFFICES ASSUME IInv, [Next]_vars PROVE IInv'
    OBVIOUS
  <1>0. TypeOK'
    BY TypeStep DEF IInv
  <1>1. ASSUME NEW c \in Configs, NEW s \in Steadies, CreateProgram(c, s) \/ Push(c, s)
        PROVE  IInv'
    BY <1>0, <1>1, CreateKeeps, PushKeeps
  <1>2. CASE LatePass
    BY <1>0, <1>2, LatePassKeeps
  <1>3. ASSUME NEW c \in Configs, NEW k \in Answers, Ask(k, c) PROVE IInv'
    BY <1>0, <1>3, AskKeeps
  <1>4. ASSUME NEW c \in Configs, NEW f \in Files, ReuseTree(c, f) \/ FetchTree(c, f)
        PROVE  IInv'
    BY <1>0, <1>4, TreeKeeps
  <1>5. ASSUME NEW f \in Files, Rewrite(f) PROVE IInv'
    BY <1>0, <1>5, RewriteKeeps
  <1>6. CASE UNCHANGED vars
    <2> USE <1>6 DEF vars, sendVars, goVars
    <2>1. Current' /\ Order' /\ Kinds' /\ LatestLive'
      BY DEF IInv, Current, Order, Usable, Kinds, Service, Build, LatestLive
    <2>2. Epochs' /\ MemosOf(memo)' /\ Trees'
      BY DEF IInv, Epochs, MemosOf, Trees
    <2> QED  BY <1>0, <2>1, <2>2 DEF IInv
  <1> QED  BY <1>1, <1>2, <1>3, <1>4, <1>5, <1>6 DEF Next

LEMMA Invariant == Spec => []IInv
  <1> QED  BY InitInv, InvStep, PTL DEF Spec
-----------------------------------------------------------------------------
(* What the invariant gives. *)

\* Go can always compare a new snapshot with the one before it, so the change
\* report that drops trees and answers is never the empty one of a session that
\* has lost its base (latestSnapshot and computeSnapshotChanges).
THEOREM LatestStaysLive == Spec => []LatestLive
  <1>1. IInv => LatestLive
    BY DEF IInv
  <1> QED  BY <1>1, Invariant, PTL

\* No disposal takes a snapshot from under a project in use: the current project
\* of a config, the recorded one a skipped synchronisation returns, and the one
\* a creation is working on (the disposals of syncSnapshot).
THEOREM ProjectsStayUsable == Spec => []ProjectsUsable
  <1>1. IInv => ProjectsUsable
    <2> SUFFICES ASSUME IInv PROVE ProjectsUsable
      OBVIOUS
    <2>1. \A c \in Configs : lastSync[c].project # 0 => Usable(c, lastSync[c].project)
      BY DEF IInv, Order
    <2>2. \A c \in Configs : cache[c] # 0 => cache[c] = lastSync[c].project
      BY DEF IInv, Current
    <2>3. turn # Idle => turn.project = lastSync[turn.cfg].project
      BY DEF IInv, Current
    <2> QED  BY <2>1, <2>2, <2>3 DEF ProjectsUsable
  <1> QED  BY <1>1, Invariant, PTL

\* Every snapshot that is replaced is released: a service keeps the last one of
\* each open project, a build the newest only (lastSnapshotByProject and
\* releaseStaleBuildSnapshots).
THEOREM SnapshotsReleased == Spec => []NoSnapshotLeak
  <1>1. IInv => NoSnapshotLeak
    BY DEF IInv, Kinds, Service, Build, NoSnapshotLeak
  <1> QED  BY <1>1, Invariant, PTL

\* A kept whole-program answer is that of the current project's own program,
\* unless it is older than the epoch it is kept under (noteProjectEpochs and the
\* callers that reuse an answer per epoch).
THEOREM AnswersStayExact == Spec => []AnswersExact
  <1>1. IInv => AnswersExact
    <2> SUFFICES ASSUME IInv, NEW c \in Configs, NEW k \in Answers, cache[c] # 0,
                        Hit(k, c, cache[c]), ~Mislabelled(k, c), NEW f \in FilesOf[c]
                 PROVE  text[memo[k][c].project][f] = text[cache[c]][f]
      BY DEF AnswersExact
    <2> DEFINE m == memo[k][c].project
    <2>1. cache[c] = lastSync[c].project /\ cache[c] \in 1..seq
      BY RecordedSeq DEF IInv, Current
    <2>2. m # 0 /\ m \in 0..seq /\ m <= cache[c] /\ epoch[c] \in 0..seq /\ seq \in Nat
      BY <2>1 DEF IInv, Hit, MemosOf, Order, TypeOK, Handles
    <2>3. CASE m = cache[c]
      BY <2>3
    <2>4. CASE m # cache[c]
      <3>1. epoch[c] # 0 /\ memo[k][c].epoch = epoch[c]
        BY <2>4 DEF Hit
      <3>2. epoch[c] <= m
        BY <2>2, <3>1 DEF Mislabelled
      <3>3. m \in epoch[c]..seq /\ cache[c] \in epoch[c]..seq
        BY <2>1, <2>2, <3>2
      <3>4. \A h \in epoch[c]..seq : text[h][f] = text[seq][f]
        BY <3>1 DEF IInv, Epochs
      <3> QED  BY <3>3, <3>4
    <2> QED  BY <2>3, <2>4
  <1> QED  BY <1>1, Invariant, PTL

\* A tree a service has kept across snapshots is what the request would return
\* from the snapshot it is served for, unless it was outdated when it was fetched
\* (invalidateChangedPaths and getRetained).
THEOREM TreesStayExact == Spec => []TreesExact
  <1>1. IInv => TreesExact
    BY DEF IInv, Trees, TreesExact
  <1> QED  BY <1>1, Invariant, PTL
-----------------------------------------------------------------------------
(* The projects implement ProjectViews. *)

\* What the projects see: a recorded project is never lost.
LEMMA ViewIs ==
    ASSUME IInv, NEW c \in Configs
    PROVE  view[c] = IF lastSync[c].project = 0 THEN NoView
                     ELSE [f \in FilesOf[c] |-> text[lastSync[c].project][f]]
  <1>1. lastSync[c].project # 0 => lastSync[c].project \in live
    BY DEF IInv, Order, Usable
  <1> QED  BY <1>1 DEF view

\* A synchronisation that sends what c has to say refreshes c.
LEMMA SendRefreshes ==
    ASSUME IInv, IInv', NEW c \in Configs, NEW steady, Synchronises(c, Noticed(c), steady)
    PROVE  Views!Refresh(c, Closing(c))
  <1>1. /\ seq \in Nat /\ seq' = seq + 1 /\ host' = host
        /\ \A h \in 0..seq : text'[h] = text[h]
        /\ \A f \in Files : text'[seq + 1][f] = IF f \in Noticed(c) THEN host[f] ELSE text[seq][f]
    BY SendTexts, SendFacts DEF Synchronises, IInv
  <1>2. \A f \in FilesOf[c] : text'[seq + 1][f] = host[f]
    BY <1>1 DEF Noticed
  <1>3. c \notin Closing(c)
    BY DEF Closing
  <1>4. ASSUME NEW d \in Configs
        PROVE  view'[d] = IF d = c THEN [f \in FilesOf[c] |-> host[f]]
                          ELSE IF d \in Closing(c) THEN NoView ELSE view[d]
    <2>0. view'[d] = IF lastSync'[d].project = 0 THEN NoView
                     ELSE [f \in FilesOf[d] |-> text'[lastSync'[d].project][f]]
      <3>1. lastSync'[d].project # 0 => lastSync'[d].project \in live'
        BY DEF IInv, Order, Usable
      <3> QED  BY <3>1 DEF view
    <2>1. CASE d = c
      BY <1>1, <1>2, <2>0, <2>1, SendRecords
    <2>2. CASE d # c /\ d \in Closing(c)
      BY <2>0, <2>2, SendRecords
    <2>3. CASE d # c /\ d \notin Closing(c)
      <3>1. lastSync'[d].project = lastSync[d].project
        BY <2>3, SendRecords
      <3>2. lastSync[d].project # 0 => text'[lastSync[d].project] = text[lastSync[d].project]
        <4>1. lastSync[d].project # 0 => lastSync[d].project \in 1..seq
          BY RecordedSeq DEF IInv
        <4> QED  BY <1>1, <4>1
      <3>3. view[d] = IF lastSync[d].project = 0 THEN NoView
                      ELSE [f \in FilesOf[d] |-> text[lastSync[d].project][f]]
        BY ViewIs
      <3>4. CASE lastSync[d].project = 0
        BY <2>0, <2>3, <3>1, <3>3, <3>4
      <3>5. CASE lastSync[d].project # 0
        <4>1. view'[d] = [f \in FilesOf[d] |-> text'[lastSync[d].project][f]]
          BY <2>0, <3>1, <3>5
        <4>2. view'[d] = [f \in FilesOf[d] |-> text[lastSync[d].project][f]]
          BY <3>2, <3>5, <4>1
        <4> QED  BY <2>3, <3>3, <3>5, <4>2
      <3> QED  BY <3>4, <3>5
    <2> QED  BY <2>1, <2>2, <2>3
  <1>5. view' = [d \in Configs |-> IF d = c THEN [f \in FilesOf[c] |-> host[f]]
                                   ELSE IF d \in Closing(c) THEN NoView ELSE view[d]]
    BY <1>4 DEF view
  <1> QED  BY <1>1, <1>3, <1>5 DEF Views!Refresh, Views!Content

\* A step that moves neither the records nor the snapshots moves no view.
LEMMA ViewStays ==
    ASSUME UNCHANGED <<goVars, lastSync>>
    PROVE  view' = view
  <1> QED  BY DEF goVars, view

LEMMA RefinesInit == Init => Views!Init
  <1> QED  BY DEF Init, NoSync, view, Views!Init

LEMMA RefinesNext == IInv /\ IInv' /\ [Next]_vars => [Views!Next]_<<host, view>>
  <1> SUFFICES ASSUME IInv, IInv', [Next]_vars PROVE Views!Next \/ UNCHANGED <<host, view>>
    OBVIOUS
  <1>0. ASSUME NEW c \in Configs, NEW steady, Synchronises(c, Noticed(c), steady)
        PROVE  Views!Next
    <2>1. Closing(c) \subseteq Configs
      BY DEF Closing, IInv, TypeOK
    <2> QED  BY <1>0, <2>1, SendRefreshes DEF Views!Next
  <1>1. ASSUME NEW c \in Configs, NEW s \in Steadies, CreateProgram(c, s)
        PROVE  Views!Next \/ UNCHANGED <<host, view>>
    <2>1. CASE ~UNCHANGED sendVars
      BY <1>0, <1>1, <2>1, CreateSends
    <2>2. CASE UNCHANGED sendVars
      <3>1. ~Send(c, Noticed(c), Closing(c), IF Closing(c) = {} THEN {} ELSE built)
        BY <2>2, SendFacts DEF IInv, sendVars, goVars
      <3>2. UNCHANGED <<goVars, lastSync, host>>
        BY <1>1, <2>2, <3>1 DEF CreateProgram, sendVars
      <3> QED  BY <3>2, ViewStays
    <2> QED  BY <2>1, <2>2
  <1>2. ASSUME NEW c \in Configs, NEW s \in Steadies, Push(c, s)
        PROVE  Views!Next \/ UNCHANGED <<host, view>>
    <2>1. Synchronises(c, IF mode = "service" THEN Noticed(c) ELSE {}, s)
      BY <1>2, PushSends
    <2>2. CASE mode = "service"
      BY <1>0, <2>1, <2>2
    <2>3. CASE mode = "build"
      <3>1. /\ seq \in Nat /\ host' = host /\ lastSync[c].project # 0
            /\ \A h \in 0..seq : text'[h] = text[h]
            /\ \A f \in Files : text'[seq + 1][f] = text[seq][f]
        BY <1>2, <2>1, <2>3, SendTexts, SendFacts DEF Synchronises, IInv, Current, Push
      <3>2. /\ seq # 0 /\ Closing(c) = {}
            /\ \A d \in Configs : lastSync[d].project = IF d = c THEN seq ELSE 0
        BY <2>3, <3>1, RecordedSeq, NoneGivesWay DEF IInv, Kinds, Build
      <3>3. ASSUME NEW d \in Configs PROVE view'[d] = view[d]
        <4>1. view'[d] = IF lastSync'[d].project = 0 THEN NoView
                         ELSE [f \in FilesOf[d] |-> text'[lastSync'[d].project][f]]
          <5>1. lastSync'[d].project # 0 => lastSync'[d].project \in live'
            BY DEF IInv, Order, Usable
          <5> QED  BY <5>1 DEF view
        <4>2. CASE d = c
          <5>1. lastSync'[d].project = seq + 1 /\ seq + 1 # 0
            BY <2>1, <3>1, <4>2, SendRecords
          <5>2. view[d] = [f \in FilesOf[d] |-> text[seq][f]]
            BY <3>2, <4>2, ViewIs
          <5>3. \A f \in FilesOf[d] : text'[seq + 1][f] = text[seq][f]
            BY <3>1
          <5> QED  BY <4>1, <5>1, <5>2, <5>3
        <4>3. CASE d # c
          BY <2>1, <3>2, <4>1, <4>3, SendRecords, ViewIs
        <4> QED  BY <4>2, <4>3
      <3>4. view' = view
        BY <3>3 DEF view
      <3> QED  BY <3>1, <3>4
    <2> QED  BY <2>2, <2>3 DEF IInv, TypeOK
  <1>3. CASE LatePass
    <2>1. CASE Noticed(turn.cfg) # {}
      BY <1>0, <1>3, <2>1, LatePassSends
    <2>2. CASE Noticed(turn.cfg) = {}
      BY <1>3, <2>2, ViewStays DEF LatePass, sendVars
    <2> QED  BY <2>1, <2>2
  <1>4. ASSUME NEW c \in Configs, NEW k \in Answers, Ask(k, c) PROVE UNCHANGED <<host, view>>
    BY <1>4, ViewStays DEF Ask, sendVars
  <1>5. ASSUME NEW c \in Configs, NEW f \in Files, ReuseTree(c, f) \/ FetchTree(c, f)
        PROVE  UNCHANGED <<host, view>>
    BY <1>5, ViewStays DEF ReuseTree, FetchTree
  <1>6. ASSUME NEW f \in Files, Rewrite(f) PROVE Views!Next
    BY <1>6, ViewStays DEF Rewrite, sendVars, Views!Next, Views!Rewrite
  <1>7. CASE UNCHANGED vars
    BY <1>7, ViewStays DEF vars, sendVars
  <1> QED  BY <1>1, <1>2, <1>3, <1>4, <1>5, <1>6, <1>7 DEF Next

\* What a project sees is replaced as a whole by what the host gives when that
\* project is synchronised, and by no other project's synchronisation: the
\* bridge's projects implement ProjectViews.
THEOREM ProjectsRefineViews == Spec => ImplementsViews
  <1>1. Init => Views!Init
    BY RefinesInit
  <1>2. IInv /\ IInv' /\ [Next]_vars => [Views!Next]_<<host, view>>
    BY RefinesNext
  <1> QED  BY <1>1, <1>2, Invariant, PTL DEF Spec, ImplementsViews, Views!Spec
=============================================================================
