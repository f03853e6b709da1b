-------------------------- MODULE CheckerCachesProofs --------------------------
(***************************************************************************)
(* For any programs, tsconfigs, files, depth of calls and number of         *)
(* synchronisations: a checker remembers only handles of the snapshot it    *)
(* asks, which is live for the one last created for a tsconfig; a call      *)
(* keeps its project through all that it leads into; and a kept tree is out *)
(* of date only in a file that came to Go without its checker, or that the  *)
(* checker took from another's project.                                     *)
(*                                                                         *)
(* The argument: only its own hook moves a program's project, that hook     *)
(* clears the memos with it, and no hook runs inside a call.  A file        *)
(* outside "elsewhere" shows in the program's snapshot what it shows in the *)
(* latest, so the program's next snapshot shows it too, unless the program  *)
(* sends the file itself and forgets its tree.                              *)
(***************************************************************************)
EXTENDS CheckerCaches, SequenceTheorems, TLAPS

\* Only a program with a project is a hook, and it asks the recorded project.
Hooked ==
    /\ \A c \in Configs :
        /\ record[c].snap \in 0..seq
        /\ record[c].snap # 0 => hook[c] # NoProgram
        /\ hook[c] # NoProgram => /\ ConfigOf[hook[c]] = c
                                  /\ record[c].snap # 0
                                  /\ project[hook[c]] = record[c].snap
    /\ \A p \in Programs :
        /\ project[p] \in 0..seq
        /\ project[p] # 0 => hook[ConfigOf[p]] # NoProgram

\* What a program remembers is of its project's snapshot.
Remembered ==
    \A p \in Programs, f \in Files : gen[p][f] # NoMemo => gen[p][f].snap = project[p]

\* A project that the reference may name between calls.
Nameable(r) ==
    r = 0 \/ r \in Live \/ \E p \in Programs : hook[ConfigOf[p]] # p /\ project[p] = r

\* What the calls in progress have saved.
Saved ==
    /\ \A i \in 1..Len(calls) : calls[i].snap = project[calls[i].prog]
    /\ \A i \in 1..Len(calls) - 1 : i \notin led => calls[i + 1].saved = project[calls[i].prog]
    /\ calls # <<>> => /\ Nameable(calls[1].saved)
                       /\ Len(calls) \notin led => ref = project[Top.prog]
    /\ calls = <<>> => Nameable(ref)

\* Outside "elsewhere" a program sees the newest text, and its trees are of it.
Seen ==
    \A p \in Programs, f \in Files :
        /\ scan[p][f] = NoTree => nodes[p][f] = NoTree
        /\ project[p] # 0 /\ f \notin elsewhere[p] =>
            /\ text[project[p]][f] = text[seq][f]
            /\ scan[p][f] \in {NoTree, text[project[p]][f]}
            /\ nodes[p][f] \in {NoTree, text[project[p]][f]}
            /\ gen[p][f] # NoMemo => gen[p][f].tree = text[project[p]][f]

IInv == TypeOK /\ Hooked /\ Remembered /\ Saved /\ Seen

USE CheckerAssumption, NoMemoAssumption

-----------------------------------------------------------------------------
LEMMA InitInv == Init => IInv
  <1> SUFFICES ASSUME Init PROVE IInv
    OBVIOUS
  <1> USE DEF Init, Blank, NoMemos, NoSync
  <1>1. TypeOK
    BY DEF TypeOK, Handles, Versions, Trees
  <1>2. Hooked /\ Remembered
    BY DEF Hooked, Remembered
  <1>3. Saved
    BY DEF Saved, Nameable
  <1>4. Seen
    BY DEF Seen
  <1> QED  BY <1>1, <1>2, <1>3, <1>4 DEF IInv

\* What a send leaves in the two sides' tables.
LEMMA SendFacts ==
    ASSUME TypeOK, NEW c \in Configs, NEW s \in Steadies,
           NEW sent \in SUBSET Files, NEW probed \in SUBSET Files,
           Send(c, s, sent, probed)
    PROVE  /\ seq \in Nat /\ seq + 1 \in Handles \ {0} /\ seq' = seq + 1
           /\ text' \in [Handles -> [Files -> Versions]]
           /\ \A f \in sent \cup probed : text'[seq + 1][f] = host[f]
           /\ \A f \in Files \ (sent \cup probed) : text'[seq + 1][f] = text[seq][f]
           /\ \A h \in 0..seq : text'[h] = text[h]
           /\ record' \in [Configs -> [steady : Steadies \cup {NoSteady}, snap : Handles]]
           /\ record'[c].snap = seq + 1
           /\ \A d \in Configs \ {c} : record'[d].snap = record[d].snap
  <1> USE DEF TypeOK
  <1> DEFINE new == [f \in Files |-> IF f \in sent \cup probed THEN host[f] ELSE text[seq][f]]
  <1>1. seq \in Nat /\ seq + 1 \in Handles \ {0} /\ seq' = seq + 1
    BY DEF Send, Handles
  <1>2. new \in [Files -> Versions]
    BY <1>1
  <1>3. text' = [text EXCEPT ![seq + 1] = new]
    BY DEF Send
  <1>4. \A h \in 0..seq : h \in Handles /\ h # seq + 1
    BY <1>1 DEF Handles
  <1> HIDE DEF new
  <1>5. text' \in [Handles -> [Files -> Versions]] /\ text'[seq + 1] = new
    BY <1>1, <1>2, <1>3
  <1>6. \A h \in 0..seq : text'[h] = text[h]
    BY <1>1, <1>3, <1>4
  <1>7. record' = [record EXCEPT ![c] = [steady |-> s, snap |-> seq + 1]]
    BY DEF Send
  <1>8. /\ record' \in [Configs -> [steady : Steadies \cup {NoSteady}, snap : Handles]]
        /\ record'[c].snap = seq + 1
        /\ \A d \in Configs \ {c} : record'[d].snap = record[d].snap
    BY <1>1, <1>7
  <1>9. /\ \A f \in sent \cup probed : new[f] = host[f]
        /\ \A f \in Files \ (sent \cup probed) : new[f] = text[seq][f]
    BY DEF new
  <1> QED  BY <1>1, <1>5, <1>6, <1>8, <1>9

-----------------------------------------------------------------------------
(* A program is created *)

LEMMA CreateInv ==
    ASSUME IInv, NEW p \in Programs, NEW s \in Steadies, NEW probed \in SUBSET Probed,
           Create(p, s, probed)
    PROVE  IInv'
  <1>c. PICK c \in Configs : c = ConfigOf[p]
    OBVIOUS
  <1>s. PICK sent \in SUBSET Files : sent = Noticed(c)
    BY DEF Noticed, Stale
  <1>0. /\ TypeOK /\ Hooked /\ Remembered /\ Saved /\ Seen
        /\ probed \in SUBSET Files
    BY DEF IInv
  <1>1. /\ calls = <<>> /\ calls' = <<>> /\ led' = led /\ host' = host
        /\ project' = [project EXCEPT ![p] = record'[c].snap]
        /\ hook' = [hook EXCEPT ![c] = p]
        /\ ref' = record'[c].snap
        /\ scan' = [scan EXCEPT ![p] = Blank]
        /\ nodes' = [nodes EXCEPT ![p] = Blank]
        /\ gen' = [gen EXCEPT ![p] = NoMemos]
    BY <1>c DEF Create
  <1>2. \* what both branches have: the record moves on, older texts stay
        /\ seq' \in Handles /\ seq \in Handles /\ seq <= seq' /\ seq \in Nat /\ seq' \in Nat
        /\ text' \in [Handles -> [Files -> Versions]]
        /\ \A h \in 0..seq : text'[h] = text[h]
        /\ record' \in [Configs -> [steady : Steadies \cup {NoSteady}, snap : Handles]]
        /\ record'[c].snap \in 0..seq' /\ record'[c].snap # 0
        /\ \A d \in Configs \ {c} : record'[d].snap = record[d].snap
        /\ elsewhere' \in [Programs -> SUBSET Files]
        /\ \A f \in Files : f \notin elsewhere'[p] => text'[record'[c].snap][f] = text'[seq'][f]
        /\ \A q \in Programs \ {p}, f \in Files : f \notin elsewhere'[q] =>
                f \notin elsewhere[q] /\ text'[seq'][f] = text[seq][f]
    <2>1. CASE Skips(c, s, sent)
      <3>1. /\ seq' = seq /\ text' = text /\ record' = record
            /\ elsewhere' = [elsewhere EXCEPT ![p] =
                    {f \in Files : text[record[c].snap][f] # text[seq][f]}]
        BY <2>1, <1>c, <1>s DEF Create
      <3>2. record[c].snap # 0 /\ record[c].snap \in 0..seq
        BY <2>1, <1>0 DEF Skips, Hooked
      <3> QED  BY <3>1, <3>2, <1>0 DEF TypeOK, Handles
    <2>2. CASE ~Skips(c, s, sent)
      <3>1. /\ Send(c, s, sent, probed)
            /\ elsewhere' = [ElsewhereAfter(p, sent, probed) EXCEPT ![p] = {}]
        BY <2>2, <1>c, <1>s DEF Create
      <3>2. /\ seq \in Nat /\ seq + 1 \in Handles \ {0} /\ seq' = seq + 1
            /\ text' \in [Handles -> [Files -> Versions]]
            /\ \A f \in sent \cup probed : text'[seq + 1][f] = host[f]
            /\ \A f \in Files \ (sent \cup probed) : text'[seq + 1][f] = text[seq][f]
            /\ \A h \in 0..seq : text'[h] = text[h]
            /\ record' \in [Configs -> [steady : Steadies \cup {NoSteady}, snap : Handles]]
            /\ record'[c].snap = seq + 1
            /\ \A d \in Configs \ {c} : record'[d].snap = record[d].snap
        BY <3>1, <1>0, SendFacts
      <3>3. /\ elsewhere' \in [Programs -> SUBSET Files]
            /\ elsewhere'[p] = {}
            /\ \A q \in Programs \ {p} : elsewhere'[q] = elsewhere[q] \cup sent \cup probed
        BY <3>1, <1>0 DEF ElsewhereAfter, TypeOK
      <3>4. seq \in Handles
        BY <1>0 DEF TypeOK
      <3>5. /\ record'[c].snap = seq'
            /\ \A d \in Configs \ {c} : record'[d].snap = record[d].snap
        BY <3>2, <1>0
      <3>6. /\ seq' \in Handles /\ seq <= seq' /\ seq' \in Nat
            /\ record'[c].snap \in 0..seq' /\ record'[c].snap # 0
        BY <3>2, <3>5
      <3>7. \A f \in Files : f \notin elsewhere'[p] =>
                text'[record'[c].snap][f] = text'[seq'][f]
        BY <3>5
      <3>8. ASSUME NEW q \in Programs \ {p}, NEW f \in Files, f \notin elsewhere'[q]
            PROVE  f \notin elsewhere[q] /\ text'[seq'][f] = text[seq][f]
        <4>1. f \notin elsewhere[q] /\ f \in Files \ (sent \cup probed)
          BY <3>3, <3>8
        <4> QED  BY <3>2, <4>1
      <3> QED  BY <3>2, <3>3, <3>4, <3>5, <3>6, <3>7, <3>8
    <2> QED  BY <2>1, <2>2
  <1>3. \A q \in Programs : project'[q] = IF q = p THEN record'[c].snap ELSE project[q]
    BY <1>1, <1>0 DEF TypeOK
  <1>4. \A d \in Configs : hook'[d] = IF d = c THEN p ELSE hook[d]
    BY <1>1, <1>0 DEF TypeOK
  <1>5. TypeOK'
    <2>1. Blank \in [Files -> Trees] /\ NoMemos \in [Files -> Memos \cup {NoMemo}]
      BY DEF Blank, NoMemos, Trees
    <2>2. record'[c].snap \in Handles
      BY <1>2, <1>0
    <2>3. calls' \in Seq(Frames)
      BY <1>1, <1>0 DEF TypeOK
    <2> QED  BY <2>1, <2>2, <2>3, <1>0, <1>1, <1>2 DEF TypeOK
  <1>6. Hooked'
    <2>1. \A d \in Configs \ {c} : hook[d] # NoProgram => hook[d] \in Programs /\ hook[d] # p
      BY <1>0, <1>c DEF Hooked, TypeOK
    <2>2. \A d \in Configs \ {c} : record'[d].snap \in 0..seq'
      BY <1>0, <1>2 DEF Hooked
    <2>3. \A q \in Programs : project'[q] \in 0..seq'
      BY <1>0, <1>2, <1>3 DEF Hooked
    <2>4. \A q \in Programs : project'[q] # 0 => hook'[ConfigOf[q]] # NoProgram
      BY <1>0, <1>c, <1>3, <1>4 DEF Hooked
    <2>5. \A d \in Configs :
            /\ record'[d].snap # 0 => hook'[d] # NoProgram
            /\ hook'[d] # NoProgram => /\ ConfigOf[hook'[d]] = d
                                       /\ record'[d].snap # 0
                                       /\ project'[hook'[d]] = record'[d].snap
      <3> SUFFICES ASSUME NEW d \in Configs
                   PROVE  /\ record'[d].snap # 0 => hook'[d] # NoProgram
                          /\ hook'[d] # NoProgram => /\ ConfigOf[hook'[d]] = d
                                                     /\ record'[d].snap # 0
                                                     /\ project'[hook'[d]] = record'[d].snap
        OBVIOUS
      <3>1. CASE d = c
        BY <3>1, <1>2, <1>3, <1>4, <1>0, <1>c
      <3>2. CASE d # c
        <4>1. /\ record'[d].snap = record[d].snap /\ hook'[d] = hook[d]
              /\ hook[d] # NoProgram => project'[hook[d]] = project[hook[d]]
          BY <3>2, <2>1, <1>2, <1>3, <1>4
        <4> QED  BY <4>1, <1>0 DEF Hooked
      <3> QED  BY <3>1, <3>2
    <2> QED  BY <2>2, <2>3, <2>4, <2>5, <1>2, <1>0 DEF Hooked
  <1>7. Remembered'
    BY <1>0, <1>1, <1>3 DEF Remembered, NoMemos, TypeOK
  <1>8. Saved'
    <2>1. ref' \in Live'
      BY <1>0, <1>1, <1>2 DEF Live
    <2> QED  BY <2>1, <1>1 DEF Saved, Nameable
  <1>9. Seen'
    <2> SUFFICES ASSUME NEW q \in Programs, NEW f \in Files
                 PROVE  /\ scan'[q][f] = NoTree => nodes'[q][f] = NoTree
                        /\ project'[q] # 0 /\ f \notin elsewhere'[q] =>
                            /\ text'[project'[q]][f] = text'[seq'][f]
                            /\ scan'[q][f] \in {NoTree, text'[project'[q]][f]}
                            /\ nodes'[q][f] \in {NoTree, text'[project'[q]][f]}
                            /\ gen'[q][f] # NoMemo => gen'[q][f].tree = text'[project'[q]][f]
      BY DEF Seen
    <2>1. CASE q = p
      <3>1. /\ scan'[q][f] = NoTree /\ nodes'[q][f] = NoTree /\ gen'[q][f] = NoMemo
            /\ project'[q] = record'[c].snap
        BY <2>1, <1>0, <1>1, <1>3 DEF TypeOK, Blank, NoMemos
      <3> QED  BY <3>1, <2>1, <1>2
    <2>2. CASE q # p
      <3>1. /\ scan'[q] = scan[q] /\ nodes'[q] = nodes[q] /\ gen'[q] = gen[q]
            /\ project'[q] = project[q] /\ text'[project[q]] = text[project[q]]
        BY <2>2, <1>0, <1>1, <1>2, <1>3 DEF TypeOK, Hooked
      <3> QED  BY <3>1, <2>2, <1>2, <1>0 DEF Seen
    <2> QED  BY <2>1, <2>2
  <1> QED  BY <1>5, <1>6, <1>7, <1>8, <1>9 DEF IInv

-----------------------------------------------------------------------------
(* pushHostOverlayToTsgo *)

\* The send clears the program's memos and its trees of what it sent.
LEMMA PushSendInv ==
    ASSUME IInv, NEW p \in Programs, NEW c \in Configs, NEW s \in Steadies,
           NEW sent \in SUBSET Files, NEW probed \in SUBSET Files,
           hook[c] = p,
           Send(c, s, sent, probed),
           calls = <<>>, UNCHANGED <<host, hook, calls, led>>,
           project' = [project EXCEPT ![p] = seq + 1],
           ref' = seq + 1,
           scan' = [scan EXCEPT ![p] =
                [f \in Files |-> IF f \in sent THEN NoTree ELSE scan[p][f]]],
           nodes' = [nodes EXCEPT ![p] = NodesAfter(p, sent)],
           gen' = [gen EXCEPT ![p] = MemosAfter(p, sent)],
           elsewhere' = ElsewhereAfter(p, sent, probed)
    PROVE  IInv'
  <1>0. TypeOK /\ Hooked /\ Remembered /\ Saved /\ Seen
    BY DEF IInv
  <1>1. /\ seq \in Nat /\ seq + 1 \in Handles \ {0} /\ seq' = seq + 1
        /\ text' \in [Handles -> [Files -> Versions]]
        /\ \A f \in sent \cup probed : text'[seq + 1][f] = host[f]
        /\ \A f \in Files \ (sent \cup probed) : text'[seq + 1][f] = text[seq][f]
        /\ \A h \in 0..seq : text'[h] = text[h]
        /\ record' \in [Configs -> [steady : Steadies \cup {NoSteady}, snap : Handles]]
        /\ record'[c].snap = seq + 1
        /\ \A d \in Configs \ {c} : record'[d].snap = record[d].snap
    BY <1>0, SendFacts
  <1>2. /\ project'[p] = seq + 1
        /\ \A q \in Programs \ {p} : project'[q] = project[q]
        /\ \A f \in Files : gen'[p][f] = NoMemo
        /\ \A q \in Programs \ {p} : /\ gen'[q] = gen[q] /\ scan'[q] = scan[q]
                                     /\ nodes'[q] = nodes[q]
        /\ \A f \in sent : scan'[p][f] = NoTree /\ nodes'[p][f] = NoTree
        /\ \A f \in Files \ sent : scan'[p][f] = scan[p][f] /\ nodes'[p][f] = nodes[p][f]
    BY <1>0 DEF TypeOK, NodesAfter, MemosAfter, NoMemos
  <1>3. /\ elsewhere' \in [Programs -> SUBSET Files]
        /\ \A q \in Programs \ {p} : elsewhere'[q] = elsewhere[q] \cup sent \cup probed
        /\ \A f \in Files : f \notin elsewhere'[p] /\ f \notin sent /\ scan[p][f] # NoTree =>
                f \notin elsewhere[p] /\ f \notin probed
    BY <1>0 DEF ElsewhereAfter, TypeOK
  <1>4. TypeOK'
    <2>1. /\ NodesAfter(p, sent) \in [Files -> Trees]
          /\ MemosAfter(p, sent) \in [Files -> Memos \cup {NoMemo}]
          /\ [f \in Files |-> IF f \in sent THEN NoTree ELSE scan[p][f]] \in [Files -> Trees]
      BY <1>0 DEF NodesAfter, MemosAfter, NoMemos, TypeOK, Trees
    <2>2. calls' \in Seq(Frames)
      BY <1>0 DEF TypeOK
    <2> QED  BY <2>1, <2>2, <1>0, <1>1, <1>3 DEF TypeOK
  <1>5. Hooked'
    <2>0. ConfigOf[p] = c
      BY <1>0 DEF Hooked
    <2>1. \A d \in Configs \ {c} : hook[d] # NoProgram => hook[d] \in Programs /\ hook[d] # p
      BY <1>0, <2>0 DEF Hooked, TypeOK
    <2>2. \A d \in Configs : record'[d].snap \in 0..seq'
      <3>1. \A d \in Configs \ {c} : record'[d].snap \in 0..seq
        BY <1>0, <1>1 DEF Hooked
      <3>2. record'[c].snap \in 0..seq' /\ 0..seq \subseteq 0..seq'
        BY <1>1
      <3> QED  BY <3>1, <3>2
    <2>3. \A q \in Programs : /\ project'[q] \in 0..seq'
                              /\ project'[q] # 0 => hook'[ConfigOf[q]] # NoProgram
      BY <1>0, <1>1, <1>2, <2>0 DEF Hooked
    <2>4. /\ hook'[c] = p /\ p # NoProgram
          /\ record'[c].snap # 0 /\ project'[p] = record'[c].snap
      BY <1>1, <1>2
    <2>5. \A d \in Configs \ {c} :
            /\ record'[d].snap # 0 => hook'[d] # NoProgram
            /\ hook'[d] # NoProgram => /\ ConfigOf[hook'[d]] = d
                                       /\ record'[d].snap # 0
                                       /\ project'[hook'[d]] = record'[d].snap
      BY <1>0, <1>1, <1>2, <2>1 DEF Hooked
    <2> QED  BY <2>0, <2>2, <2>3, <2>4, <2>5 DEF Hooked
  <1>6. Remembered'
    BY <1>0, <1>2 DEF Remembered
  <1>7. Saved'
    <2>1. ref' \in Live'
      BY <1>1 DEF Live
    <2> QED  BY <2>1 DEF Saved, Nameable
  <1>8. Seen'
    <2> SUFFICES ASSUME NEW q \in Programs, NEW f \in Files
                 PROVE  /\ scan'[q][f] = NoTree => nodes'[q][f] = NoTree
                        /\ project'[q] # 0 /\ f \notin elsewhere'[q] =>
                            /\ text'[project'[q]][f] = text'[seq'][f]
                            /\ scan'[q][f] \in {NoTree, text'[project'[q]][f]}
                            /\ nodes'[q][f] \in {NoTree, text'[project'[q]][f]}
                            /\ gen'[q][f] # NoMemo => gen'[q][f].tree = text'[project'[q]][f]
      BY DEF Seen
    <2>1. CASE q # p
      <3>1. /\ scan'[q] = scan[q] /\ nodes'[q] = nodes[q] /\ gen'[q] = gen[q]
            /\ project'[q] = project[q] /\ text'[project[q]] = text[project[q]]
        BY <2>1, <1>0, <1>1, <1>2 DEF Hooked
      <3>2. f \notin elsewhere'[q] => f \notin elsewhere[q] /\ text'[seq'][f] = text[seq][f]
        BY <2>1, <1>1, <1>3
      <3> QED  BY <3>1, <3>2, <1>0 DEF Seen
    <2>2. CASE q = p /\ f \in sent
      <3>1. scan'[p][f] = NoTree /\ nodes'[p][f] = NoTree
        BY <2>2, <1>2
      <3>2. gen'[p][f] = NoMemo /\ project'[p] = seq'
        BY <1>1, <1>2
      <3> QED  BY <2>2, <3>1, <3>2
    <2>3. CASE q = p /\ f \notin sent
      <3>0. scan'[p][f] = scan[p][f] /\ nodes'[p][f] = nodes[p][f]
        BY <2>3, <1>2
      <3>1. /\ scan'[q][f] = scan[p][f] /\ nodes'[q][f] = nodes[p][f] /\ gen'[q][f] = NoMemo
            /\ project'[q] = seq'
        BY <2>3, <3>0, <1>1, <1>2
      <3>2. CASE scan[p][f] = NoTree
        BY <3>1, <3>2, <1>0 DEF Seen
      <3>3. CASE scan[p][f] # NoTree
        <4>1. f \notin elsewhere'[q] => f \notin elsewhere[p] /\ text'[seq'][f] = text[seq][f]
          BY <2>3, <3>3, <1>1, <1>3
        <4>2. project[p] # 0
          BY <1>0 DEF Hooked
        <4>3. f \notin elsewhere[p] =>
                /\ text[project[p]][f] = text[seq][f]
                /\ scan[p][f] = text[project[p]][f]
                /\ nodes[p][f] \in {NoTree, text[project[p]][f]}
          BY <3>3, <4>2, <1>0 DEF Seen
        <4> QED  BY <3>1, <3>3, <4>1, <4>3
      <3> QED  BY <3>2, <3>3
    <2> QED  BY <2>1, <2>2, <2>3
  <1> QED  BY <1>4, <1>5, <1>6, <1>7, <1>8 DEF IInv

LEMMA PushInv ==
    ASSUME IInv, NEW c \in Configs, NEW s \in Steadies, NEW probed \in SUBSET Probed,
           Push(c, s, probed)
    PROVE  IInv'
  <1>0. TypeOK /\ Hooked /\ Remembered /\ Saved /\ Seen
    BY DEF IInv
  <1>p. PICK p \in Programs : p = hook[c]
    BY <1>0 DEF Push, TypeOK
  <1>s. PICK sent \in SUBSET Files : sent = Noticed(c)
    BY DEF Noticed, Stale
  <1>1. CASE Skips(c, s, sent)
    <2>1. /\ calls = <<>> /\ ref' = project[p]
          /\ UNCHANGED <<host, text, seq, record, hook, programVars, calls, led>>
      BY <1>1, <1>p, <1>s DEF Push, MaySync
    <2>2. project[p] \in Live /\ project[p] \in Handles
      <3>1. project[p] = record[c].snap /\ record[c].snap # 0
        BY <1>0, <1>p DEF Hooked
      <3> QED  BY <3>1, <1>0 DEF Live, TypeOK
    <2>3. Saved'
      BY <2>1, <2>2 DEF Saved, Nameable, Live
    <2> QED  BY <2>1, <2>2, <2>3, <1>0
             DEF IInv, TypeOK, Hooked, Remembered, Seen, programVars
  <1>2. CASE ~Skips(c, s, sent)
    BY <1>0, <1>2, <1>p, <1>s, PushSendInv DEF Push, MaySync
  <1> QED  BY <1>1, <1>2

-----------------------------------------------------------------------------
(* A checker is called *)

\* A program's project can be named between calls, whichever program it is.
LEMMA ProjectNameable ==
    ASSUME IInv, NEW p \in Programs PROVE Nameable(project[p])
  <1>0. TypeOK /\ Hooked
    BY DEF IInv
  <1>1. CASE hook[ConfigOf[p]] = p
    <2>1. project[p] = record[ConfigOf[p]].snap /\ ConfigOf[p] \in Configs
      BY <1>0, <1>1 DEF Hooked
    <2> QED  BY <2>1 DEF Nameable, Live
  <1>2. CASE hook[ConfigOf[p]] # p
    BY <1>2 DEF Nameable
  <1> QED  BY <1>1, <1>2

\* The facts a step that calls or returns leaves alone.
LEMMA CallFrame ==
    ASSUME IInv, UNCHANGED <<host, text, seq, record, hook, programVars>>,
           ref' \in Handles, calls' \in Seq(Frames), led' \subseteq 1..Len(calls'), Saved'
    PROVE  IInv'
  <1> QED  BY DEF IInv, TypeOK, Hooked, Remembered, Seen, programVars

LEMMA EnsureProjectInv ==
    ASSUME IInv, NEW p \in Programs, EnsureProject(p) PROVE IInv'
  <1>0. TypeOK /\ Saved
    BY DEF IInv
  <1>1. /\ UNCHANGED <<host, text, seq, record, hook, programVars>>
        /\ calls' = calls /\ ref' = project[p]
        /\ led' = IF calls = <<>> THEN {}
                  ELSE IF Top.prog = p THEN led \ {Len(calls)} ELSE led \cup {Len(calls)}
    BY DEF EnsureProject
  <1>2. ref' \in Handles /\ calls' \in Seq(Frames) /\ led' \subseteq 1..Len(calls')
    <2>1. calls # <<>> => Len(calls) \in 1..Len(calls)
      BY <1>0 DEF TypeOK
    <2> QED  BY <1>0, <1>1, <2>1 DEF TypeOK
  <1>3. Nameable(project[p])
    BY ProjectNameable
  <1>4. Saved'
    <2>1. /\ \A i \in 1..Len(calls) - 1 : i \notin led' => i \notin led
          /\ calls # <<>> /\ Len(calls) \notin led' => Top.prog = p
      BY <1>0, <1>1 DEF TypeOK
    <2> QED  BY <1>0, <1>1, <1>3, <2>1 DEF Saved, Nameable, Live, Top, programVars
  <1> QED  BY <1>1, <1>2, <1>4, CallFrame

LEMMA CallInv ==
    ASSUME IInv, NEW p \in Programs, Call(p) PROVE IInv'
  <1>0. TypeOK /\ Saved
    BY DEF IInv
  <1> DEFINE frame == [prog |-> p, snap |-> project[p], saved |-> ref]
  <1>1. /\ UNCHANGED <<host, text, seq, record, hook, programVars>>
        /\ calls' = Append(calls, frame) /\ ref' = project[p] /\ led' = led
    BY DEF Call
  <1>2. frame \in Frames /\ calls \in Seq(Frames) /\ ref' \in Handles
    BY <1>0, <1>1 DEF TypeOK, Frames
  <1>3. /\ calls' \in Seq(Frames) /\ calls' # <<>>
        /\ Len(calls') = Len(calls) + 1 /\ Len(calls) \in Nat
        /\ \A i \in 1..Len(calls) : calls'[i] = calls[i]
        /\ calls'[Len(calls) + 1] = frame
    <2> HIDE DEF frame
    <2> QED  BY <1>1, <1>2
  <1>4. project' = project
    BY <1>1 DEF programVars
  <1>5. \A i \in 1..Len(calls') : calls'[i].snap = project'[calls'[i].prog]
    <2> SUFFICES ASSUME NEW i \in 1..Len(calls')
                 PROVE  calls'[i].snap = project'[calls'[i].prog]
      OBVIOUS
    <2>1. CASE i \in 1..Len(calls)
      BY <2>1, <1>0, <1>3, <1>4 DEF Saved
    <2>2. CASE i = Len(calls) + 1
      BY <2>2, <1>3, <1>4
    <2> QED  BY <2>1, <2>2, <1>3
  <1>d. led' = led /\ led \subseteq 1..Len(calls) /\ led' \subseteq 1..Len(calls')
    BY <1>0, <1>1, <1>3 DEF TypeOK
  <1>6. \A i \in 1..Len(calls') - 1 :
            i \notin led' => calls'[i + 1].saved = project'[calls'[i].prog]
    <2> SUFFICES ASSUME NEW i \in 1..Len(calls), i \notin led
                 PROVE  calls'[i + 1].saved = project'[calls'[i].prog]
      BY <1>3, <1>d
    <2>1. CASE i # Len(calls)
      <3>1. i \in 1..Len(calls) - 1 /\ i + 1 \in 1..Len(calls)
        BY <2>1, <1>3
      <3> QED  BY <3>1, <1>0, <1>3, <1>4 DEF Saved
    <2>2. CASE i = Len(calls)
      <3>1. calls # <<>> /\ ref = project[calls[i].prog]
        BY <2>2, <1>0, <1>2 DEF Saved, Top
      <3> QED  BY <3>1, <2>2, <1>3, <1>4
    <2> QED  BY <2>1, <2>2
  <1>7. Nameable(calls'[1].saved)
    <2>1. CASE calls = <<>>
      <3>1. calls'[1].saved = ref
        BY <2>1, <1>3
      <3> QED  BY <2>1, <3>1, <1>0 DEF Saved
    <2>2. CASE calls # <<>>
      <3>1. calls'[1] = calls[1]
        BY <2>2, <1>2, <1>3
      <3> QED  BY <2>2, <3>1, <1>0 DEF Saved
    <2> QED  BY <2>1, <2>2
  <1>8. Nameable(calls[1].saved)'
    BY <1>1, <1>7 DEF Nameable, Live, programVars
  <1>9. (Len(calls) \notin led => ref = project[Top.prog])'
    BY <1>1, <1>3, <1>4 DEF Top
  <1>10. Saved'
    BY <1>3, <1>5, <1>6, <1>8, <1>9 DEF Saved
  <1> QED  BY <1>1, <1>2, <1>3, <1>10, <1>d, CallFrame

LEMMA ReturnInv ==
    ASSUME IInv, Return PROVE IInv'
  <1>0. TypeOK /\ Saved
    BY DEF IInv
  <1>1. /\ UNCHANGED <<host, text, seq, record, hook, programVars>>
        /\ calls # <<>> /\ ref' = calls[Len(calls)].saved
        /\ calls' = SubSeq(calls, 1, Len(calls) - 1)
        /\ project' = project /\ led' = led \ {Len(calls)}
    BY DEF Return, Top, programVars
  <1>2. calls \in Seq(Frames) /\ Len(calls) \in Nat \ {0}
    BY <1>0, <1>1 DEF TypeOK
  <1>3. /\ calls' \in Seq(Frames) /\ Len(calls') = Len(calls) - 1
        /\ \A i \in 1..Len(calls) - 1 : calls'[i] = calls[i]
    <2>0. Len(calls) - 1 \in Nat
      BY <1>2
    <2>n. PICK n \in Nat : n = Len(calls) - 1
      BY <2>0
    <2>1. (1 <= n \/ n = 0) /\ n - 1 + 1 = n
      OBVIOUS
    <2>2. \A i \in 1..n : calls[i] \in Frames /\ calls[1 + i - 1] = calls[i]
      BY <1>2, <2>n
    <2>3. /\ SubSeq(calls, 1, n) \in Seq(Frames)
          /\ Len(SubSeq(calls, 1, n)) = IF 1 <= n THEN n - 1 + 1 ELSE 0
          /\ \A i \in 1..n - 1 + 1 : SubSeq(calls, 1, n)[i] = calls[1 + i - 1]
      BY <2>1, <2>2, SubSeqProperties
    <2>4. calls' = SubSeq(calls, 1, n)
      BY <1>1, <2>n
    <2>5. calls' \in Seq(Frames)
      BY <2>3, <2>4
    <2>6. Len(calls') = n
      BY <2>1, <2>3, <2>4
    <2>7. \A i \in 1..n : calls'[i] = calls[i]
      <3>1. \A i \in 1..n : calls'[i] = calls[1 + i - 1]
        BY <2>1, <2>3, <2>4
      <3> QED  BY <2>2, <3>1
    <2> QED  BY <2>5, <2>6, <2>7, <2>n
  <1>4. ref' \in Handles
    <2>1. calls[Len(calls)] \in Frames
      BY <1>2
    <2> QED  BY <2>1, <1>1 DEF Frames
  <1>5. Saved'
    <2>1. \A i \in 1..Len(calls') : calls'[i].snap = project'[calls'[i].prog]
      <3> SUFFICES ASSUME NEW i \in 1..Len(calls')
                   PROVE  calls'[i].snap = project'[calls'[i].prog]
        OBVIOUS
      <3>1. i \in 1..Len(calls) - 1 /\ i \in 1..Len(calls)
        BY <1>2, <1>3
      <3>2. calls[i].snap = project[calls[i].prog]
        BY <3>1, <1>0 DEF Saved
      <3> QED  BY <3>1, <3>2, <1>1, <1>3
    <2>2. \A i \in 1..Len(calls') - 1 :
            i \notin led' => calls'[i + 1].saved = project'[calls'[i].prog]
      <3> SUFFICES ASSUME NEW i \in 1..Len(calls') - 1, i \notin led'
                   PROVE  calls'[i + 1].saved = project'[calls'[i].prog]
        OBVIOUS
      <3>1. i \in 1..Len(calls) - 1 /\ i + 1 \in 1..Len(calls) - 1 /\ i \notin led
        BY <1>1, <1>2, <1>3
      <3>2. calls[i + 1].saved = project[calls[i].prog]
        BY <3>1, <1>0 DEF Saved
      <3> QED  BY <3>1, <3>2, <1>1, <1>3
    <2>3. CASE Len(calls) = 1
      <3>1. calls' = <<>>
        BY <2>3, <1>3
      <3>2. Nameable(ref)'
        <4>1. Nameable(calls[1].saved) /\ ref' = calls[1].saved
          BY <2>3, <1>0, <1>1 DEF Saved
        <4> QED  BY <4>1, <1>1 DEF Nameable, Live, programVars
      <3> QED  BY <2>1, <2>2, <3>1, <3>2 DEF Saved
    <2>4. CASE Len(calls) # 1
      <3>0. Len(calls') \in 1..Len(calls) - 1 /\ 1 \in 1..Len(calls) - 1
        BY <2>4, <1>2, <1>3
      <3>1. /\ calls' # <<>> /\ calls'[1] = calls[1]
            /\ calls'[Len(calls')] = calls[Len(calls')]
        BY <3>0, <1>3
      <3>2. Nameable(calls[1].saved)'
        <4>1. Nameable(calls[1].saved)
          BY <1>0, <1>1 DEF Saved
        <4> QED  BY <3>1, <4>1, <1>1 DEF Nameable, Live, programVars
      <3>3. Len(calls') \notin led' => calls[Len(calls') + 1].saved = project[calls[Len(calls')].prog]
        BY <3>0, <1>0, <1>1, <1>2 DEF Saved
      <3>4. (Len(calls) \notin led => ref = project[Top.prog])'
        BY <3>1, <3>3, <1>1, <1>2, <1>3 DEF Top
      <3> QED  BY <2>1, <2>2, <3>1, <3>2, <3>4 DEF Saved
    <2> QED  BY <2>3, <2>4
  <1>6. led' \subseteq 1..Len(calls')
    <2>1. led \subseteq 1..Len(calls) /\ Len(calls') \in Nat
      BY <1>0, <1>2, <1>3 DEF TypeOK
    <2>2. ASSUME NEW i \in led' PROVE i \in 1..Len(calls')
      <3>1. i \in 1..Len(calls) /\ i # Len(calls)
        BY <1>1, <2>1
      <3> QED  BY <3>1, <1>2, <1>3
    <2> QED  BY <2>2
  <1> QED  BY <1>1, <1>3, <1>4, <1>5, <1>6, CallFrame

\* The node found is of the text that the checker's project shows, unless the
\* file is in "elsewhere"; its handle is of that project.
LEMMA LookupInv ==
    ASSUME IInv, NEW f \in Files, Lookup(f) PROVE IInv'
  <1>0. TypeOK /\ Hooked /\ Remembered /\ Saved /\ Seen
    BY DEF IInv
  <1>1. calls # <<>> /\ Top \in Frames
    BY <1>0 DEF Lookup, Top, TypeOK
  <1>p. PICK p \in Programs : p = Top.prog
    BY <1>1 DEF Frames
  <1>t. PICK tree \in Versions :
            tree = IF scan[p][f] # NoTree THEN scan[p][f] ELSE text[ref][f]
    BY <1>0 DEF TypeOK, Trees
  <1>n. PICK node \in Versions :
            node = IF nodes[p][f] # NoTree THEN nodes[p][f] ELSE tree
    BY <1>0 DEF TypeOK, Trees
  <1> DEFINE away == /\ nodes[p][f] = NoTree /\ scan[p][f] = NoTree
                     /\ tree # text[project[p]][f]
  <1>2. /\ project[p] \in Live
        /\ scan' = IF nodes[p][f] # NoTree THEN scan ELSE [scan EXCEPT ![p][f] = tree]
        /\ nodes' = [nodes EXCEPT ![p][f] = node]
        /\ gen' = [gen EXCEPT ![p][f] = [tree |-> node, snap |-> project[p]]]
        /\ elsewhere' = IF away THEN [elsewhere EXCEPT ![p] = @ \cup {f}] ELSE elsewhere
        /\ UNCHANGED <<host, text, seq, record, hook, project, ref, calls, led>>
    BY <1>p, <1>t, <1>n DEF Lookup
  <1>3. project[p] # 0 /\ project[p] \in Handles
    BY <1>0, <1>2 DEF Live, TypeOK
  <1>4. node # NoTree /\ tree # NoTree
    BY DEF Versions
  <1>5. \A q \in Programs, g \in Files : q # p \/ g # f =>
            /\ scan'[q][g] = scan[q][g] /\ nodes'[q][g] = nodes[q][g]
            /\ gen'[q][g] = gen[q][g]
    BY <1>0, <1>2 DEF TypeOK
  <1>6. /\ scan'[p][f] = IF nodes[p][f] # NoTree THEN scan[p][f] ELSE tree
        /\ nodes'[p][f] = node
        /\ gen'[p][f] = [tree |-> node, snap |-> project[p]]
    BY <1>0, <1>2 DEF TypeOK
  <1>e. /\ elsewhere' \in [Programs -> SUBSET Files]
        /\ \A q \in Programs : elsewhere[q] \subseteq elsewhere'[q]
        /\ f \notin elsewhere'[p] => ~away
    BY <1>0, <1>2 DEF TypeOK
  <1>7. TypeOK'
    <2>1. [tree |-> node, snap |-> project[p]] \in Memos /\ node \in Trees /\ tree \in Trees
      BY <1>3 DEF Memos, Trees
    <2>2. scan' \in [Programs -> [Files -> Trees]]
      BY <2>1, <1>0, <1>2 DEF TypeOK
    <2>3. nodes' \in [Programs -> [Files -> Trees]]
      BY <2>1, <1>0, <1>2 DEF TypeOK
    <2>4. gen' \in [Programs -> [Files -> Memos \cup {NoMemo}]]
      BY <2>1, <1>0, <1>2 DEF TypeOK
    <2> QED  BY <2>2, <2>3, <2>4, <1>0, <1>2, <1>e DEF TypeOK
  <1>8. Hooked' /\ Saved'
    BY <1>0, <1>2 DEF Hooked, Saved, Nameable, Live, Top
  <1>9. Remembered'
    BY <1>0, <1>2, <1>5, <1>6 DEF Remembered
  <1>10. Seen'
    <2> SUFFICES ASSUME NEW q \in Programs, NEW g \in Files
                 PROVE  /\ scan'[q][g] = NoTree => nodes'[q][g] = NoTree
                        /\ project'[q] # 0 /\ g \notin elsewhere'[q] =>
                            /\ text'[project'[q]][g] = text'[seq'][g]
                            /\ scan'[q][g] \in {NoTree, text'[project'[q]][g]}
                            /\ nodes'[q][g] \in {NoTree, text'[project'[q]][g]}
                            /\ gen'[q][g] # NoMemo => gen'[q][g].tree = text'[project'[q]][g]
      BY DEF Seen
    <2>1. CASE q # p \/ g # f
      BY <2>1, <1>0, <1>2, <1>5, <1>e DEF Seen
    <2>2. CASE q = p /\ g = f
      <3>1. scan'[q][g] # NoTree
        BY <2>2, <1>0, <1>4, <1>6 DEF Seen
      <3>2. ASSUME g \notin elsewhere'[p] PROVE
              /\ text[project[p]][g] = text[seq][g]
              /\ tree = text[project[p]][g] /\ node = text[project[p]][g]
              /\ scan'[q][g] = text[project[p]][g]
        BY <2>2, <3>1, <3>2, <1>0, <1>3, <1>e, <1>t, <1>n, <1>6 DEF Seen
      <3> QED  BY <2>2, <3>1, <3>2, <1>2, <1>6
    <2> QED  BY <2>1, <2>2
  <1> QED  BY <1>7, <1>8, <1>9, <1>10 DEF IInv

-----------------------------------------------------------------------------
(* Every step *)

LEMMA EvictInv ==
    ASSUME IInv, Evict PROVE IInv'
  <1>0. TypeOK /\ Hooked /\ Remembered /\ Saved /\ Seen
    BY DEF IInv
  <1>1. /\ nodes' = [p \in Programs |-> Blank]
        /\ UNCHANGED <<host, text, seq, record, hook, project, scan, gen, elsewhere, ref, calls, led>>
    BY DEF Evict
  <1>2. nodes' \in [Programs -> [Files -> Trees]]
    BY <1>1 DEF Blank, Trees
  <1>3. TypeOK' /\ Hooked' /\ Remembered' /\ Saved'
    BY <1>0, <1>1, <1>2 DEF TypeOK, Hooked, Remembered, Saved, Nameable, Live, Top
  <1>4. Seen'
    BY <1>0, <1>1 DEF Seen, Blank
  <1> QED  BY <1>3, <1>4 DEF IInv

LEMMA RewriteInv ==
    ASSUME IInv, NEW f \in Files, Rewrite(f) PROVE IInv'
  <1>1. /\ host' = [host EXCEPT ![f] = @ + 1]
        /\ UNCHANGED <<text, seq, record, hook, programVars, ref, calls, led>>
    BY DEF Rewrite
  <1>2. host' \in [Files -> Versions]
    BY <1>1 DEF IInv, TypeOK, Rewrite, Versions
  <1> QED  BY <1>1, <1>2
           DEF IInv, TypeOK, Hooked, Remembered, Saved, Seen, Nameable, Live, Top, programVars

LEMMA NextInv == IInv /\ [Next]_vars => IInv'
  <1> SUFFICES ASSUME IInv, [Next]_vars PROVE IInv'
    OBVIOUS
  <1>1. ASSUME NEW p \in Programs, NEW s \in Steadies, NEW probed \in SUBSET Probed,
               Create(p, s, probed)
        PROVE  IInv'
    BY <1>1, CreateInv
  <1>2. ASSUME NEW c \in Configs, NEW s \in Steadies, NEW probed \in SUBSET Probed,
               Push(c, s, probed)
        PROVE  IInv'
    BY <1>2, PushInv
  <1>3. ASSUME NEW p \in Programs, EnsureProject(p) \/ Call(p)
        PROVE  IInv'
    BY <1>3, EnsureProjectInv, CallInv
  <1>4. ASSUME NEW f \in Files, Lookup(f) \/ Rewrite(f)
        PROVE  IInv'
    BY <1>4, LookupInv, RewriteInv
  <1>5. CASE Return \/ Evict
    BY <1>5, ReturnInv, EvictInv
  <1>6. CASE UNCHANGED vars
    BY <1>6 DEF IInv, TypeOK, Hooked, Remembered, Saved, Seen, Nameable, Live, Top,
                programVars, vars
  <1> QED  BY <1>1, <1>2, <1>3, <1>4, <1>5, <1>6 DEF Next

LEMMA Invariant == Spec => []IInv
  <1> QED  BY InitInv, NextInv, PTL DEF Spec

\* Every variable has its type, in every behaviour.
THEOREM TypeCorrect == Spec => []TypeOK
  <1>1. IInv => TypeOK
    BY DEF IInv
  <1> QED  BY <1>1, Invariant, PTL

\* A checker remembers no handle of another snapshot than the one it asks, and
\* the session has that one for the program last created for a tsconfig (the
\* memos of gen, and prepareForProgramUpdate clearing them on every send).
THEOREM MemosStayCurrent == Spec => []MemosCurrent
  <1>1. IInv => MemosCurrent
    <2> SUFFICES ASSUME IInv, NEW p \in Programs
                 PROVE  /\ \A f \in Files : gen[p][f] # NoMemo => gen[p][f].snap = project[p]
                        /\ hook[ConfigOf[p]] = p => project[p] \in Live
      BY DEF MemosCurrent
    <2>1. hook[ConfigOf[p]] = p => /\ project[p] = record[ConfigOf[p]].snap
                                   /\ record[ConfigOf[p]].snap # 0
                                   /\ ConfigOf[p] \in Configs
      BY DEF IInv, Hooked
    <2> QED  BY <2>1 DEF IInv, Remembered, Live
  <1> QED  BY <1>1, Invariant, PTL

\* A call keeps its snapshot through all that it leads into, and the process-wide
\* reference too, unless it looks up a native method of another checker (the depth guard of pushHostOverlayToTsgo, pushActiveProject and
\* popActiveProject).
THEOREM ReferenceRight == Spec => []RefRight
  <1>1. IInv => RefRight
    BY DEF IInv, Saved, Nameable, RefRight
  <1> QED  BY <1>1, Invariant, PTL

\* A kept tree or node is out of date only in a file whose newest text came to
\* Go without its checker, or whose tree came from another project (the per-file
\* drop of the scan caches).
THEOREM TreesStayOwn == Spec => []TreesOwn
  <1>1. IInv => TreesOwn
    BY DEF IInv, Seen, TreesOwn
  <1> QED  BY <1>1, Invariant, PTL
=============================================================================
