-------------------------- MODULE OverlayEditsProofs --------------------------
(***************************************************************************)
(* For any files, texts and edits: both sides keep the same text, an         *)
(* accepted request leaves no unsaved text unserved, and a refused request  *)
(* is not refused again.                                                    *)
(*                                                                         *)
(* The first part is about texts alone.  An edit that cuts no character of  *)
(* a text and of which no inserted character is cut moves between           *)
(* boundaries, where Go's walk over characters ends up exactly where the    *)
(* client's units do; what it leaves is whole again, so that edits can be   *)
(* taken one after the other.  What holds of the text after every edit is   *)
(* shown by the least number of edits for which it would not (Upwards).     *)
(***************************************************************************)
EXTENDS OverlayEdits, WellFoundedInduction, SequenceTheorems, TLAPS

\* An edit as the client records it.
Edit == [start : Nat, deleteLength : Nat, insertText : Seq(Units)]

-----------------------------------------------------------------------------
(* Offsets. *)

\* A set of naturals has a least element.
LEMMA LeastOf ==
    ASSUME NEW S, S \subseteq Nat, S # {}
    PROVE  \E x \in S : \A y \in S : x <= y
  <1>1. PICK x \in S : \A y \in S : ~(<<y, x>> \in OpToRel(<, Nat))
    BY NatLessThanWellFounded, WFMin, Zenon
  <1>2. ASSUME NEW y \in S PROVE x <= y
    <2>1. ~(y < x)
      BY <1>1 DEF OpToRel
    <2> QED BY <2>1
  <1> QED BY <1>2

\* Min of a set of naturals is its least element.
LEMMA MinLeast ==
    ASSUME NEW S, S \subseteq Nat, S # {}
    PROVE  Min(S) \in S /\ \A y \in S : Min(S) <= y
  BY LeastOf DEF Min

\* What holds of 0 and is handed on holds of every number up to n.
LEMMA Upwards ==
    ASSUME NEW n \in Nat, NEW good, 0 \in good,
           \A i \in 1..n : i - 1 \in good => i \in good
    PROVE  \A i \in 0..n : i \in good
  <1> DEFINE bad == (0..n) \ good
  <1>1. SUFFICES ASSUME bad # {} PROVE FALSE
    OBVIOUS
  <1>2. bad \subseteq Nat
    OBVIOUS
  <1>3. PICK i \in bad : \A j \in bad : i <= j
    <2> HIDE DEF bad
    <2> QED BY <1>1, <1>2, LeastOf
  <1> QED BY <1>3

\* Go's walk ends between two characters, or beyond the text.
LEMMA OffsetBoundary ==
    ASSUME NEW t \in Seq(GoUnits), NEW n \in Nat
    PROVE  Offset(t, n) = Beyond \/ Offset(t, n) \in Boundaries(t)
  <1> DEFINE reached == {b \in Boundaries(t) : b >= n /\ (b < Len(t) \/ n = Len(t))}
  <1>1. reached \subseteq Nat
    BY DEF Boundaries
  <1>2. reached # {} => Min(reached) \in reached
    BY <1>1, MinLeast
  <1> QED
    BY <1>2 DEF Offset

\* Between two characters, Go's walk ends at the units the client means.
LEMMA OffsetExact ==
    ASSUME NEW t \in Seq(GoUnits), NEW n \in Boundaries(t)
    PROVE  Offset(t, n) = n
  <1> DEFINE reached == {b \in Boundaries(t) : b >= n /\ (b < Len(t) \/ n = Len(t))}
  <1>1. reached \subseteq Nat /\ n \in reached
    BY DEF Boundaries
  <1>2. Min(reached) \in reached /\ Min(reached) <= n
    BY <1>1, MinLeast
  <1>3. Min(reached) = n
    BY <1>1, <1>2
  <1> QED
    BY <1>1, <1>3 DEF Offset

-----------------------------------------------------------------------------
(* Whole texts. *)

\* A whole text cut between two characters gives two whole texts.
LEMMA CutWhole ==
    ASSUME NEW t \in Seq(GoUnits), WellFormed(t), NEW b \in Boundaries(t)
    PROVE  /\ SubSeq(t, 1, b) \in Seq(GoUnits) /\ WellFormed(SubSeq(t, 1, b))
           /\ SubSeq(t, b + 1, Len(t)) \in Seq(GoUnits) /\ WellFormed(SubSeq(t, b + 1, Len(t)))
  <1> DEFINE s == SubSeq(t, 1, b)
             r == SubSeq(t, b + 1, Len(t))
  <1>1. b \in 0..Len(t) /\ ~PairAt(t, b) /\ Len(t) \in Nat
    BY DEF Boundaries
  <1>2. s \in Seq(GoUnits) /\ Len(s) = b /\ \A i \in 1..b : s[i] = t[i]
    BY <1>1
  <1>3. r \in Seq(GoUnits) /\ Len(r) = Len(t) - b /\ \A i \in 1..Len(t) - b : r[i] = t[b + i]
    BY <1>1
  <1>4. ASSUME NEW i \in 1..b PROVE ~Lone(s, i)
    <2>1. ~Lone(t, i)
      BY <1>1 DEF WellFormed
    <2>2. PairAt(t, i) => PairAt(s, i)
      BY <1>1, <1>2 DEF PairAt
    <2>3. PairAt(t, i - 1) => PairAt(s, i - 1)
      BY <1>1, <1>2 DEF PairAt
    <2> QED BY <1>2, <2>1, <2>2, <2>3 DEF Lone
  <1>5. ASSUME NEW i \in 1..Len(t) - b PROVE ~Lone(r, i)
    <2>1. b + i \in DOMAIN t /\ ~Lone(t, b + i)
      BY <1>1 DEF WellFormed
    <2>2. PairAt(t, b + i) => PairAt(r, i)
      BY <1>1, <1>3 DEF PairAt
    <2>3. PairAt(t, (b + i) - 1) => PairAt(r, i - 1)
      BY <1>1, <1>3 DEF PairAt
    <2>4. r[i] = t[b + i]
      BY <1>3
    <2> HIDE DEF r
    <2> QED BY <2>1, <2>2, <2>3, <2>4 DEF Lone
  <1>6. DOMAIN s = 1..b /\ DOMAIN r = 1..Len(t) - b
    BY <1>2, <1>3
  <1> QED BY <1>2, <1>3, <1>4, <1>5, <1>6 DEF WellFormed

\* Two whole texts make a whole one.
LEMMA JoinWhole ==
    ASSUME NEW s \in Seq(GoUnits), WellFormed(s), NEW t \in Seq(GoUnits), WellFormed(t)
    PROVE  s \o t \in Seq(GoUnits) /\ WellFormed(s \o t)
  <1> DEFINE u == s \o t
  <1>1. /\ u \in Seq(GoUnits) /\ Len(u) = Len(s) + Len(t) /\ Len(s) \in Nat /\ Len(t) \in Nat
        /\ \A i \in 1..Len(s) : u[i] = s[i]
        /\ \A i \in 1..Len(t) : u[Len(s) + i] = t[i]
    OBVIOUS
  <1>2. ASSUME NEW i \in 1..Len(s) PROVE ~Lone(u, i)
    <2>1. ~Lone(s, i)
      BY DEF WellFormed
    <2>2. \A j \in {i, i - 1} : PairAt(s, j) => PairAt(u, j)
      BY <1>1 DEF PairAt
    <2> QED BY <1>1, <2>1, <2>2 DEF Lone
  <1>3. ASSUME NEW i \in 1..Len(t) PROVE ~Lone(u, Len(s) + i)
    <2>1. ~Lone(t, i)
      BY DEF WellFormed
    <2>2. \A j \in {i, i - 1} : PairAt(t, j) => PairAt(u, Len(s) + j)
      BY <1>1 DEF PairAt
    <2> QED BY <1>1, <2>1, <2>2 DEF Lone
  <1>4. ASSUME NEW i \in DOMAIN u PROVE ~Lone(u, i)
    <2>1. i \in 1..Len(s) \/ i - Len(s) \in 1..Len(t)
      BY <1>1
    <2>2. CASE i - Len(s) \in 1..Len(t)
      BY <1>1, <1>3, <2>2
    <2> QED BY <1>2, <2>1, <2>2
  <1> QED BY <1>1, <1>4 DEF WellFormed

\* What the decoder makes of any text is whole.
LEMMA CharsWhole ==
    ASSUME NEW t \in Seq(Units)
    PROVE  Chars(t) \in Seq(GoUnits) /\ WellFormed(Chars(t))
  <1>1. /\ Chars(t) \in Seq(GoUnits) /\ Len(Chars(t)) = Len(t) /\ DOMAIN Chars(t) = DOMAIN t
        /\ DOMAIN t = 1..Len(t) /\ Len(t) \in Nat
    BY DEF Chars, GoUnits
  <1>2. ASSUME NEW i \in DOMAIN t PROVE ~Lone(Chars(t), i)
    <2>1. ASSUME NEW j, PairAt(t, j) PROVE PairAt(Chars(t), j)
      <3>1. j \in DOMAIN t /\ j + 1 \in DOMAIN t /\ j + 1 - 1 = j
        BY <1>1, <2>1 DEF PairAt
      <3>2. ~Lone(t, j) /\ ~Lone(t, j + 1)
        BY <2>1, <3>1 DEF Lone
      <3> QED BY <1>1, <2>1, <3>1, <3>2 DEF PairAt, Chars
    <2>2. CASE Lone(t, i)
      BY <2>2 DEF Chars, Lone, Surrogates, Lows
    <2>3. CASE ~Lone(t, i)
      <3>1. Chars(t)[i] = t[i]
        BY <2>3 DEF Chars
      <3> QED BY <2>1, <2>3, <3>1 DEF Lone
    <2> QED BY <2>2, <2>3
  <1> QED BY <1>1, <1>2 DEF WellFormed

\* The decoder leaves a whole text as it is.
LEMMA WholeIsChars ==
    ASSUME NEW t \in Seq(Units), WellFormed(t)
    PROVE  Chars(t) = t
  BY DEF Chars, WellFormed

-----------------------------------------------------------------------------
(* One edit. *)

\* The units of a text from an offset on.
LEMMA RestOf ==
    ASSUME NEW S, NEW t \in Seq(S), NEW b \in 0..Len(t)
    PROVE  /\ SubSeq(t, b + 1, Len(t)) \in Seq(S)
           /\ Len(SubSeq(t, b + 1, Len(t))) = Len(t) - b
           /\ \A i \in 1..Len(t) - b : SubSeq(t, b + 1, Len(t))[i] = t[b + i]
  OBVIOUS

\* Two cuts one after the other are one.
LEMMA RestOfRest ==
    ASSUME NEW S, NEW t \in Seq(S), NEW b \in 0..Len(t), NEW d \in Nat, b + d <= Len(t),
           NEW r, r = SubSeq(t, b + 1, Len(t))
    PROVE  /\ SubSeq(r, d + 1, Len(r)) = SubSeq(t, b + d + 1, Len(t))
           /\ SubSeq(r, d + 1, Len(r)) \in Seq(S)
  <1> DEFINE tail == SubSeq(r, d + 1, Len(r))
             rest == SubSeq(t, (b + d) + 1, Len(t))
             n == Len(t) - (b + d)
  <1>1. r \in Seq(S) /\ Len(r) = Len(t) - b /\ \A i \in 1..Len(t) - b : r[i] = t[b + i]
    BY RestOf
  <1>2. Len(t) \in Nat /\ b \in Nat /\ b + d \in 0..Len(t) /\ n \in Nat
    OBVIOUS
  <1>3. rest \in Seq(S) /\ Len(rest) = n /\ \A i \in 1..n : rest[i] = t[(b + d) + i]
    BY <1>2, RestOf
  <1> HIDE DEF rest
  <1>4. d \in 0..Len(r)
    BY <1>1, <1>2
  <1>5. tail \in Seq(S) /\ Len(tail) = Len(r) - d /\ \A i \in 1..Len(r) - d : tail[i] = r[d + i]
    BY <1>1, <1>4, RestOf
  <1> HIDE DEF tail
  <1>6. Len(tail) = Len(rest)
    BY <1>1, <1>2, <1>3, <1>5
  <1>7. ASSUME NEW i \in 1..Len(tail) PROVE tail[i] = rest[i]
    <2>1. i \in 1..n /\ d + i \in 1..Len(t) - b /\ b + (d + i) = (b + d) + i
      BY <1>1, <1>2, <1>5
    <2> QED BY <1>1, <1>3, <1>5, <2>1
  <1>8. tail = rest
    BY <1>3, <1>5, <1>6, <1>7, SeqEqual
  <1> QED BY <1>5, <1>8 DEF tail, rest

\* A deletion that ends between two characters of the text does so in its rest.
LEMMA BoundaryOfRest ==
    ASSUME NEW t \in Seq(GoUnits), NEW b \in Boundaries(t), NEW d \in Nat, b + d \in Boundaries(t)
    PROVE  d \in Boundaries(SubSeq(t, b + 1, Len(t)))
  <1> DEFINE r == SubSeq(t, b + 1, Len(t))
  <1>1. /\ b \in 0..Len(t) /\ b + d \in 0..Len(t) /\ Len(t) \in Nat
        /\ ~PairAt(t, b) /\ ~PairAt(t, b + d)
    BY DEF Boundaries
  <1>2. Len(r) = Len(t) - b /\ \A i \in 1..Len(t) - b : r[i] = t[b + i]
    BY <1>1
  <1>3. PairAt(r, d) => PairAt(t, b + d)
    BY <1>1, <1>2 DEF PairAt
  <1> QED BY <1>1, <1>2, <1>3 DEF Boundaries

\* Whatever the offsets, Go's text stays one of characters.
LEMMA SpliceWhole ==
    ASSUME NEW t \in Seq(GoUnits), WellFormed(t), NEW e \in Edit, Splice(t, e) # NoSplice
    PROVE  Splice(t, e) \in Seq(GoUnits) /\ WellFormed(Splice(t, e))
  <1> DEFINE b == Offset(t, e.start)
             r == SubSeq(t, b + 1, Len(t))
             d == Offset(r, e.deleteLength)
             head == SubSeq(t, 1, b)
             middle == Chars(e.insertText)
             tail == SubSeq(r, d + 1, Len(r))
  <1>1. e.start \in Nat /\ e.deleteLength \in Nat /\ e.insertText \in Seq(Units)
    BY DEF Edit
  <1>2. b # Beyond /\ d # Beyond /\ Splice(t, e) = (head \o middle) \o tail
    BY DEF Splice
  <1>3. b \in Boundaries(t)
    BY <1>1, <1>2, OffsetBoundary
  <1>4. head \in Seq(GoUnits) /\ WellFormed(head) /\ r \in Seq(GoUnits) /\ WellFormed(r)
    BY <1>3, CutWhole
  <1>5. d \in Boundaries(r)
    BY <1>1, <1>2, <1>4, OffsetBoundary
  <1>6. tail \in Seq(GoUnits) /\ WellFormed(tail)
    BY <1>4, <1>5, CutWhole
  <1>7. middle \in Seq(GoUnits) /\ WellFormed(middle)
    BY <1>1, CharsWhole
  <1> HIDE DEF head, middle, tail
  <1>8. head \o middle \in Seq(GoUnits) /\ WellFormed(head \o middle)
    BY <1>4, <1>7, JoinWhole
  <1> QED BY <1>2, <1>6, <1>8, JoinWhole

\* No text of Go's stands for the failed splice.
LEMMA NoSpliceIsNone == NoSplice \notin Seq(GoUnits)
  BY DEF NoSplice, GoUnits, Units, Surrogates, Lows

\* An edit that cuts no character gives the same text on both sides.
LEMMA SpliceExact ==
    ASSUME NEW t \in Seq(Units), NEW e \in Edit, Whole(t, e)
    PROVE  /\ JsSplice(t, e) \in Seq(Units)
           /\ Splice(Chars(t), e) = Chars(JsSplice(t, e))
           /\ Splice(Chars(t), e) # NoSplice
  <1> DEFINE b == e.start
             d == e.deleteLength
             r == SubSeq(t, b + 1, Len(t))
             head == SubSeq(t, 1, b)
             middle == e.insertText
             tail == SubSeq(r, d + 1, Len(r))
  <1>1. /\ b \in Nat /\ d \in Nat /\ middle \in Seq(Units) /\ WellFormed(middle)
        /\ WellFormed(t) /\ b \in Boundaries(t) /\ b + d \in Boundaries(t)
    BY DEF Edit, Whole
  <1>2. t \in Seq(GoUnits) /\ Chars(t) = t /\ Chars(middle) = middle
    BY <1>1, WholeIsChars DEF GoUnits
  <1>3. /\ head \in Seq(GoUnits) /\ WellFormed(head) /\ r \in Seq(GoUnits) /\ WellFormed(r)
        /\ Offset(t, b) = b
    BY <1>1, <1>2, CutWhole, OffsetExact
  <1>4. d \in Boundaries(r)
    BY <1>1, <1>2, BoundaryOfRest
  <1>5. tail \in Seq(GoUnits) /\ WellFormed(tail) /\ Offset(r, d) = d
    BY <1>3, <1>4, CutWhole, OffsetExact
  <1>6. Splice(Chars(t), e) = (head \o middle) \o tail
    <2>1. Offset(t, e.start) = b /\ Offset(r, e.deleteLength) = d /\ b # Beyond /\ d # Beyond
      BY <1>1, <1>3, <1>5 DEF Beyond
    <2>2. Splice(t, e) = (SubSeq(t, 1, b) \o Chars(middle)) \o SubSeq(r, d + 1, Len(r))
      BY <2>1 DEF Splice
    <2> HIDE DEF head, middle, r
    <2> QED BY <1>2, <2>2 DEF head
  <1>7. b \in 0..Len(t) /\ b + d \in 0..Len(t) /\ Len(t) \in Nat
    BY <1>1 DEF Boundaries
  <1>8. head \in Seq(Units) /\ r \in Seq(Units) /\ Len(r) = Len(t) - b
    BY <1>7
  <1>9. tail = SubSeq(t, b + d + 1, Len(t)) /\ tail \in Seq(Units)
    <2>1. b + d <= Len(t)
      BY <1>7
    <2> HIDE DEF r
    <2> QED BY <1>1, <1>7, <2>1, RestOfRest DEF r
  <1>10. Min({b, Len(t)}) = b
    <2>1. {b, Len(t)} \subseteq Nat /\ b <= Len(t)
      BY <1>1, <1>7
    <2>2. Min({b, Len(t)}) \in {b, Len(t)} /\ Min({b, Len(t)}) <= b
      BY <2>1, MinLeast
    <2> QED BY <2>1, <2>2
  <1>11. JsSplice(t, e) = (head \o middle) \o tail
    BY <1>9, <1>10 DEF JsSplice
  <1> HIDE DEF head, middle, tail
  <1>12. (head \o middle) \o tail \in Seq(Units)
    BY <1>1, <1>8, <1>9
  <1>13. WellFormed((head \o middle) \o tail)
    <2>1. middle \in Seq(GoUnits)
      BY <1>1 DEF GoUnits
    <2>2. head \o middle \in Seq(GoUnits) /\ WellFormed(head \o middle)
      BY <1>1, <1>3, <2>1, JoinWhole
    <2> QED BY <1>5, <2>2, JoinWhole
  <1>14. Chars(JsSplice(t, e)) = JsSplice(t, e)
    BY <1>11, <1>12, <1>13, WholeIsChars
  <1>15. NoSplice \notin Seq(Units)
    BY NoSpliceIsNone DEF GoUnits
  <1> QED BY <1>6, <1>11, <1>12, <1>14, <1>15

-----------------------------------------------------------------------------
(* Several edits. *)

\* The texts after each edit are well defined.
LEMMA JsTextsDef ==
    ASSUME NEW text, NEW edits \in Seq(Edit)
    PROVE  /\ JsTexts(text, edits)[0] = text
           /\ \A i \in 1..Len(edits) :
                  JsTexts(text, edits)[i] = JsSplice(JsTexts(text, edits)[i - 1], edits[i])
  <1> DEFINE N == Len(edits)
             Texted(g, n) ==
                 g = [i \in 0..n |-> IF i = 0 THEN text ELSE JsSplice(g[i - 1], edits[i])]
             good == {n \in 0..N : \E g : Texted(g, n)}
  <1>1. N \in Nat
    OBVIOUS
  <1>2. \E g : Texted(g, 0)
    <2>1. Texted([i \in 0..0 |-> text], 0)
      OBVIOUS
    <2> QED BY <2>1
  <1>3. ASSUME NEW n \in 1..N, NEW g, Texted(g, n - 1)
        PROVE  \E h : Texted(h, n)
    <2> DEFINE h == [i \in 0..n |-> IF i = n THEN JsSplice(g[n - 1], edits[n]) ELSE g[i]]
    <2>1. Texted(h, n)
      BY <1>3
    <2> QED BY <2>1
  <1> HIDE DEF Texted, N
  <1>4. 0 \in good /\ \A n \in 1..N : n - 1 \in good => n \in good
    BY <1>1, <1>2, <1>3
  <1>5. N \in good
    <2> HIDE DEF good
    <2>1. \A n \in 0..N : n \in good
      BY <1>1, <1>4, Upwards
    <2> QED BY <1>1, <2>1
  <1>6. PICK g : Texted(g, N)
    BY <1>5
  <1>7. Texted(JsTexts(text, edits), N)
    BY <1>6 DEF JsTexts, Texted, N
  <1> QED BY <1>1, <1>7 DEF Texted, N

\* Go's text after one more edit.
NextText(text, e) == IF text = NoSplice THEN NoSplice ELSE Splice(text, e)

LEMMA GoTextsDef ==
    ASSUME NEW text, NEW edits \in Seq(Edit)
    PROVE  /\ GoTexts(text, edits)[0] = text
           /\ \A i \in 1..Len(edits) :
                  GoTexts(text, edits)[i] = NextText(GoTexts(text, edits)[i - 1], edits[i])
  <1> DEFINE N == Len(edits)
             Texted(g, n) ==
                 g = [i \in 0..n |-> IF i = 0 THEN text ELSE NextText(g[i - 1], edits[i])]
             good == {n \in 0..N : \E g : Texted(g, n)}
  <1>1. N \in Nat
    OBVIOUS
  <1>2. \E g : Texted(g, 0)
    <2>1. Texted([i \in 0..0 |-> text], 0)
      OBVIOUS
    <2> QED BY <2>1
  <1>3. ASSUME NEW n \in 1..N, NEW g, Texted(g, n - 1)
        PROVE  \E h : Texted(h, n)
    <2> DEFINE h == [i \in 0..n |-> IF i = n THEN NextText(g[n - 1], edits[n]) ELSE g[i]]
    <2>1. Texted(h, n)
      BY <1>3
    <2> QED BY <2>1
  <1> HIDE DEF Texted, N
  <1>4. 0 \in good /\ \A n \in 1..N : n - 1 \in good => n \in good
    BY <1>1, <1>2, <1>3
  <1>5. N \in good
    <2> HIDE DEF good
    <2>1. \A n \in 0..N : n \in good
      BY <1>1, <1>4, Upwards
    <2> QED BY <1>1, <2>1
  <1>6. PICK g : Texted(g, N)
    BY <1>5
  <1>7. Texted(GoTexts(text, edits), N)
    BY <1>6 DEF GoTexts, NextText, Texted, N
  <1> QED BY <1>1, <1>7 DEF Texted, N

\* Edits that cut no character of the text they meet give the same texts on both
\* sides, one after the other.
LEMMA TextsExact ==
    ASSUME NEW text \in Seq(Units), NEW edits \in Seq(Edit),
           \A i \in DOMAIN edits : Whole(JsTexts(text, edits)[i - 1], edits[i])
    PROVE  \A i \in 0..Len(edits) :
               /\ JsTexts(text, edits)[i] \in Seq(Units)
               /\ GoTexts(Chars(text), edits)[i] = Chars(JsTexts(text, edits)[i])
  <1> DEFINE js == JsTexts(text, edits)
             go == GoTexts(Chars(text), edits)
             Same(i) == js[i] \in Seq(Units) /\ go[i] = Chars(js[i])
             good == {i \in 0..Len(edits) : Same(i)}
  <1>1. Len(edits) \in Nat /\ DOMAIN edits = 1..Len(edits)
    OBVIOUS
  <1>2. js[0] = text /\ \A i \in 1..Len(edits) : js[i] = JsSplice(js[i - 1], edits[i])
    BY JsTextsDef
  <1>3. go[0] = Chars(text) /\ \A i \in 1..Len(edits) : go[i] = NextText(go[i - 1], edits[i])
    BY GoTextsDef
  <1>4. \A i \in 1..Len(edits) : Whole(js[i - 1], edits[i])
    BY <1>1
  <1> HIDE DEF js, go
  <1>5. Same(0)
    BY <1>2, <1>3
  <1>6. ASSUME NEW i \in 1..Len(edits), Same(i - 1)
        PROVE  Same(i)
    <2>1. edits[i] \in Edit
      BY <1>1
    <2>2. go[i - 1] # NoSplice
      BY <1>6, CharsWhole, NoSpliceIsNone
    <2>3. go[i] = Splice(Chars(js[i - 1]), edits[i]) /\ js[i] = JsSplice(js[i - 1], edits[i])
      BY <1>2, <1>3, <1>6, <2>2 DEF NextText
    <2> QED BY <1>4, <1>6, <2>1, <2>3, SpliceExact
  <1> HIDE DEF Same
  <1>7. 0 \in good /\ \A i \in 1..Len(edits) : i - 1 \in good => i \in good
    BY <1>1, <1>5, <1>6
  <1>8. \A i \in 0..Len(edits) : i \in good
    <2> HIDE DEF good
    <2> QED BY <1>1, <1>7, Upwards
  <1> QED BY <1>8 DEF Same, js, go

\* Whatever the edits, Go's text stays one of characters.
LEMMA TextsWhole ==
    ASSUME NEW text \in Seq(GoUnits), WellFormed(text), NEW edits \in Seq(Edit),
           NEW i \in 0..Len(edits), GoTexts(text, edits)[i] # NoSplice
    PROVE  GoTexts(text, edits)[i] \in Seq(GoUnits) /\ WellFormed(GoTexts(text, edits)[i])
  <1> DEFINE go == GoTexts(text, edits)
             Fine(j) == go[j] # NoSplice => go[j] \in Seq(GoUnits) /\ WellFormed(go[j])
             good == {j \in 0..Len(edits) : Fine(j)}
  <1>1. Len(edits) \in Nat /\ DOMAIN edits = 1..Len(edits)
    OBVIOUS
  <1>2. go[0] = text /\ \A j \in 1..Len(edits) : go[j] = NextText(go[j - 1], edits[j])
    BY GoTextsDef
  <1> HIDE DEF go
  <1>3. Fine(0)
    BY <1>2
  <1>4. ASSUME NEW j \in 1..Len(edits), Fine(j - 1)
        PROVE  Fine(j)
    BY <1>1, <1>2, <1>4, SpliceWhole DEF NextText
  <1> HIDE DEF Fine
  <1>5. 0 \in good /\ \A j \in 1..Len(edits) : j - 1 \in good => j \in good
    BY <1>1, <1>3, <1>4
  <1>6. i \in good
    <2> HIDE DEF good
    <2> QED BY <1>1, <1>5, Upwards
  <1> QED BY <1>6 DEF Fine, go

-----------------------------------------------------------------------------
(* The invariant. *)

TabsAreFiles == tabs \subseteq File

\* What the client has recorded are edits, and only below the bound on versions;
\* the texts of its script infos are a table of all files.
Recorded ==
    /\ info = [f \in File |-> info[f]]
    /\ pend \in [File -> Seq(Edit)]
    /\ \A f \in File : pend[f] # <<>> => mver[f] < MaxVersion

WInv == TypeOK /\ Recorded /\ MirrorHolds

\* The host's texts are those of the client's tabs and of the disk.
LEMMA HostTexts ==
    ASSUME TypeOK, NEW f \in File
    PROVE  /\ HostText(f) \in Texts[f] \union {Disk[f]}
           /\ HostText(f) \in Seq(Units) /\ HostText(f) # NoText
  BY TextsAssumption DEF TypeOK, HostText

\* A request's names are files, its entries names.
LEMMA Planned ==
    ASSUME TypeOK
    PROVE  /\ ProgramNames \subseteq File /\ Pushed \subseteq ProgramNames
           /\ DeltaPush \subseteq ProgramNames
  BY FilesAssumption DEF TypeOK, ProgramNames, Pushed, FullPush, DeltaPush

\* What is booked of a request.
LEMMA BookedTyped ==
    ASSUME WInv, NEW STATE forgotten, NEW STATE taken, taken \subseteq Pushed,
           Booked(forgotten, taken), UNCHANGED <<tabs, info>>
    PROVE  /\ \A f \in File : mirror'[f] \in Texts[f] \union {Disk[f], NoText}
           /\ mver' \in [File -> 0..MaxVersion]
           /\ Recorded'
  <1> USE BoundsAssumption
  <1>1. ASSUME NEW f \in File PROVE mirror'[f] \in Texts[f] \union {Disk[f], NoText}
    <2>1. f \in DeltaPush => JsApplied(f) = HostText(f)
      BY DEF DeltaPush
    <2>2. mirror[f] \in Texts[f] \union {Disk[f], NoText}
      BY DEF WInv, TypeOK
    <2> QED BY <2>1, <2>2, HostTexts DEF WInv, Booked
  <1>2. ASSUME NEW f \in File
        PROVE  mver'[f] \in 0..MaxVersion /\ (pend'[f] # <<>> => mver'[f] < MaxVersion)
    <2>1. mver[f] \in 0..MaxVersion /\ (pend[f] # <<>> => mver[f] < MaxVersion)
      BY DEF WInv, TypeOK, Recorded
    <2>2. f \in DeltaPush => f \in Consumed(forgotten) /\ pend[f] # <<>>
      BY DEF DeltaPush, Consumed
    <2>3. pend'[f] = IF f \in Consumed(forgotten) THEN <<>> ELSE pend[f]
      BY DEF Booked
    <2>4. mver'[f] = IF f \in taken \intersect DeltaPush THEN mver[f] + 1
                     ELSE IF f \in taken \union forgotten THEN 0 ELSE mver[f]
      BY DEF Booked
    <2> QED BY <2>1, <2>2, <2>3, <2>4
  <1>3. mver' \in [File -> 0..MaxVersion]
    BY <1>2 DEF Booked
  <1>4. pend' \in [File -> Seq(Edit)]
    BY DEF WInv, Recorded, Booked
  <1>5. Recorded'
    BY <1>2, <1>4 DEF WInv, Recorded
  <1> QED BY <1>1, <1>3, <1>5

\* The versions Go counts stay below the bound, whichever entries come through.
LEMMA VersionsTyped ==
    ASSUME WInv, NEW STATE closed, NEW STATE S, \A f \in S \intersect DeltaPush : Fits(f, closed)
    PROVE  VersionsAfter(closed, S) \in [File -> NoVersion..MaxVersion]
  <1> USE BoundsAssumption
  <1> SUFFICES ASSUME NEW f \in File
               PROVE  VersionsAfter(closed, S)[f] \in NoVersion..MaxVersion
    BY DEF VersionsAfter
  <1>1. gver[f] \in NoVersion..MaxVersion /\ mver[f] \in 0..MaxVersion
    BY DEF WInv, TypeOK
  <1>2. f \in S \intersect DeltaPush => gver[f] = mver[f] /\ mver[f] < MaxVersion
    BY DEF WInv, Recorded, Fits, DeltaPush
  <1> QED BY <1>1, <1>2 DEF VersionsAfter, NoVersion

\* Of an accepted request: a full text is decoded as it is mirrored, a delta that
\* cuts nothing gives the same text on both sides, what is closed is forgotten.
LEMMA AcceptKeeps ==
    ASSUME WInv, NEW STATE closed, closed \subseteq File, Accept(closed),
           UNCHANGED <<tabs, info, strict>>, sent' \subseteq File
    PROVE  WInv'
  <1>1. ProgramNames \subseteq File /\ DeltaPush \union FullPush = Pushed /\ Pushed \subseteq File
    BY Planned DEF WInv, Pushed
  <1>2. Booked(Released \union closed, Pushed)
    BY <1>1 DEF Accept
  <1>3. /\ \A f \in File : mirror'[f] \in Texts[f] \union {Disk[f], NoText}
        /\ mver' \in [File -> 0..MaxVersion] /\ Recorded'
    BY <1>2, BookedTyped
  <1>4. gver' \in [File -> NoVersion..MaxVersion]
    BY VersionsTyped DEF Accept, FullPush
  <1>5. ASSUME NEW f \in File
        PROVE  overlay'[f] = NoText \/ (overlay'[f] \in Seq(GoUnits) /\ WellFormed(overlay'[f]))
    <2>1. overlay[f] = NoText \/ (overlay[f] \in Seq(GoUnits) /\ WellFormed(overlay[f]))
      BY DEF WInv, TypeOK
    <2>2. CASE f \in DeltaPush
      <3>1. overlay'[f] = GoApplied(f) /\ overlay[f] # NoText /\ GoApplied(f) # NoSplice
        BY <2>2 DEF Accept, Fits
      <3>2. pend[f] \in Seq(Edit) /\ Len(pend[f]) \in 0..Len(pend[f])
        BY DEF WInv, Recorded
      <3> QED BY <2>1, <3>1, <3>2, TextsWhole DEF GoApplied
    <2>3. CASE f \in FullPush
      <3>1. overlay'[f] = Chars(HostText(f))
        BY <2>3 DEF Accept, FullPush
      <3> QED BY <3>1, HostTexts, CharsWhole DEF WInv
    <2>4. CASE f \notin Pushed
      BY <1>1, <2>1, <2>4 DEF Accept
    <2> QED BY <1>1, <2>2, <2>3, <2>4
  <1>6. TypeOK'
    <2>1. /\ fed' \subseteq File /\ apiOpen' \subseteq File /\ cut' \subseteq File
          /\ outcome' = "accepted"
      BY <1>1 DEF Accept, WInv, TypeOK
    <2>2. /\ tabs' \subseteq File /\ strict' \in BOOLEAN
          /\ \A f \in File : info'[f] \in Texts[f] \union {Disk[f]}
      BY DEF WInv, TypeOK
    <2> QED BY <1>3, <1>4, <1>5, <2>1, <2>2 DEF TypeOK
  <1>7. ASSUME NEW f \in File \ cut', mirror'[f] # NoText
        PROVE  overlay'[f] = Chars(mirror'[f])
    <2>1. CASE f \in DeltaPush
      <3>1. f \notin FullPush /\ f \notin cut /\ ~Cuts(f) /\ mirror[f] # NoText
        BY <1>7, <2>1 DEF Accept, FullPush, DeltaPush
      <3>2. overlay[f] = Chars(mirror[f])
        BY <3>1 DEF WInv, MirrorHolds
      <3>3. mirror[f] \in Seq(Units)
        BY <3>1, TextsAssumption DEF WInv, TypeOK
      <3>4. pend[f] \in Seq(Edit) /\ Len(pend[f]) \in 0..Len(pend[f])
        BY DEF WInv, Recorded
      <3>5. GoApplied(f) = Chars(JsApplied(f))
        BY <3>1, <3>2, <3>3, <3>4, TextsExact DEF Cuts, GoApplied, JsApplied
      <3>6. overlay'[f] = GoApplied(f) /\ mirror'[f] = JsApplied(f)
        BY <1>1, <1>2, <2>1 DEF Accept, Booked
      <3> QED BY <3>5, <3>6
    <2>2. CASE f \in FullPush
      <3>1. f \notin DeltaPush
        BY <2>2 DEF FullPush
      <3> QED BY <1>1, <1>2, <2>2, <3>1 DEF Accept, Booked
    <2>3. CASE f \notin Pushed
      <3>1. f \notin Released \union closed /\ mirror'[f] = mirror[f]
        BY <1>1, <1>2, <1>7, <2>3 DEF Booked
      <3>2. overlay'[f] = overlay[f] /\ f \notin cut
        BY <1>1, <1>7, <2>3, <3>1 DEF Accept, Unfed
      <3> QED BY <1>7, <3>1, <3>2 DEF WInv, MirrorHolds
    <2> QED BY <1>1, <2>1, <2>2, <2>3
  <1> QED BY <1>3, <1>6, <1>7 DEF WInv, MirrorHolds

\* A refusal forgets mirrors and moves versions, but no text.
LEMMA RefusalKeeps ==
    ASSUME WInv, NEW STATE closed, closed \subseteq File,
           UNCHANGED <<tabs, info, strict>>, sent' \subseteq File,
           Booked(Released \union closed, {}), UNCHANGED <<overlay, apiOpen, cut>>,
           outcome' = "refused",
           gver' \in [File -> NoVersion..MaxVersion], fed' \subseteq File
    PROVE  WInv'
  <1>1. /\ \A f \in File : mirror'[f] \in Texts[f] \union {Disk[f], NoText}
        /\ mver' \in [File -> 0..MaxVersion] /\ Recorded'
    BY BookedTyped
  <1>2. TypeOK'
    BY <1>1 DEF WInv, TypeOK
  <1>3. ASSUME NEW f \in File PROVE mirror'[f] \in {mirror[f], NoText}
    BY DEF Booked
  <1>4. MirrorHolds'
    BY <1>3 DEF WInv, MirrorHolds
  <1> QED BY <1>1, <1>2, <1>4 DEF WInv

\* Every request, accepted or refused, keeps the invariant.
LEMMA RequestKeeps ==
    ASSUME WInv, NEW STATE closed, closed \subseteq File, Request(closed), sent' \subseteq File
    PROVE  WInv'
  <1>1. CASE Accept(closed)
    BY <1>1, AcceptKeeps DEF Request
  <1>2. ASSUME NEW f \in DeltaPush, NEW S \in SUBSET Pushed, Refuse(closed, f, S \ {f})
        PROVE  WInv'
    <2>1. S \ {f} \subseteq File
      BY Planned DEF WInv
    <2>2. gver' \in [File -> NoVersion..MaxVersion]
      BY <1>2, VersionsTyped DEF Refuse
    <2>3. fed' \subseteq File
      BY <1>2, <2>1 DEF Refuse, WInv, TypeOK
    <2> QED BY <1>2, <2>2, <2>3, RefusalKeeps DEF Request, Refuse
  <1>3. CASE RefuseText(closed)
    <2>1. gver' \in [File -> NoVersion..MaxVersion] /\ fed' \subseteq File
      BY <1>3 DEF RefuseText, goVars, WInv, TypeOK
    <2> QED BY <1>3, <2>1, RefusalKeeps DEF Request, RefuseText, goVars
  <1> QED BY <1>1, <1>2, <1>3 DEF Request

\* A step of the client moves the texts and the recorded edits of one file.
LEMMA ClientKeeps ==
    ASSUME WInv, ClientStep, tabs' \subseteq File, Recorded',
           \A f \in File : info'[f] \in Texts[f] \union {Disk[f]}
    PROVE  WInv'
  <1>1. TypeOK'
    BY DEF ClientStep, goVars, WInv, TypeOK
  <1>2. MirrorHolds'
    BY DEF ClientStep, goVars, WInv, MirrorHolds
  <1> QED BY <1>1, <1>2 DEF WInv

\* An edit is recorded as the host applies it, below the bound on versions.
LEMMA EditKeeps ==
    ASSUME WInv, NEW f \in File, EditTab(f)
    PROVE  WInv'
  <1>1. PICK e \in EditsOf(f, info[f]) : /\ info' = [info EXCEPT ![f] = JsSplice(@, e)]
                                          /\ pend' = [pend EXCEPT ![f] = Append(@, e)]
    BY DEF EditTab
  <1>2. info[f] \in Seq(Units)
    BY TextsAssumption DEF WInv, TypeOK
  <1>3. e \in Edit /\ JsSplice(info[f], e) \in Texts[f]
    BY <1>2, InsertsAssumption DEF EditsOf, Edit
  <1>4. \A g \in File : info'[g] \in Texts[g] \union {Disk[g]}
    BY <1>1, <1>3 DEF WInv, TypeOK, Recorded
  <1>5. Recorded'
    <2>1. info' = [g \in File |-> info'[g]]
      BY <1>1 DEF WInv, Recorded
    <2>2. pend' \in [File -> Seq(Edit)]
      <3>1. pend \in [File -> Seq(Edit)]
        BY DEF WInv, Recorded
      <3> QED BY <1>1, <1>3, <3>1
    <2>3. \A g \in File : pend'[g] # <<>> => mver'[g] < MaxVersion
      BY <1>1 DEF WInv, Recorded, EditTab, ClientStep
    <2> QED BY <2>1, <2>2, <2>3 DEF Recorded
  <1> QED BY <1>4, <1>5, ClientKeeps DEF EditTab, WInv, TypeOK

LEMMA WInvInit == Init => WInv
  <1> SUFFICES ASSUME Init PROVE WInv
    OBVIOUS
  <1>1. TypeOK
    BY BoundsAssumption DEF Init, TypeOK, NoVersion
  <1>2. Recorded
    BY DEF Init, Recorded
  <1> QED BY <1>1, <1>2 DEF WInv, MirrorHolds, Init

LEMMA WInvNext == WInv /\ [Next]_vars => WInv'
  <1> SUFFICES ASSUME WInv, [Next]_vars PROVE WInv'
    OBVIOUS
  <1>1. tabs \subseteq File /\ sent \subseteq File /\ info = [f \in File |-> info[f]]
        /\ \A f \in File : info[f] \in Texts[f] \union {Disk[f]}
    BY DEF WInv, TypeOK, Recorded
  <1>2. CASE CreateProgram
    BY <1>1, <1>2, RequestKeeps DEF CreateProgram
  <1>3. CASE PushOverlay
    BY <1>1, <1>3, RequestKeeps DEF PushOverlay
  <1>4. CASE UNCHANGED vars
    BY <1>4 DEF vars, jsVars, goVars, WInv, TypeOK, Recorded, MirrorHolds
  <1>5. ASSUME NEW f \in File, NEW t \in Texts[f], OpenTab(f, t)
        PROVE  WInv'
    <2>1. /\ tabs' \subseteq File /\ ClientStep /\ pend' = pend
          /\ \A g \in File : info'[g] \in Texts[g] \union {Disk[g]}
      BY <1>1, <1>5 DEF OpenTab
    <2>2. Recorded'
      BY <1>1, <1>5, <2>1 DEF WInv, Recorded, ClientStep, OpenTab
    <2> QED BY <2>1, <2>2, ClientKeeps
  <1>6. ASSUME NEW f \in File, ReloadTab(f) \/ CloseTab(f)
        PROVE  WInv'
    <2>1. /\ tabs' \subseteq File /\ ClientStep /\ pend' = pend
          /\ \A g \in File : info'[g] \in Texts[g] \union {Disk[g]}
      BY <1>1, <1>6 DEF ReloadTab, CloseTab
    <2>2. Recorded'
      BY <1>1, <1>6, <2>1 DEF WInv, Recorded, ClientStep, ReloadTab, CloseTab
    <2> QED BY <2>1, <2>2, ClientKeeps
  <1>7. ASSUME NEW f \in File, EditTab(f)
        PROVE  WInv'
    BY <1>7, EditKeeps
  <1> QED BY <1>2, <1>3, <1>4, <1>5, <1>6, <1>7 DEF Next

LEMMA WInvHolds == Spec => []WInv
  BY WInvInit, WInvNext, PTL DEF Spec

\* Every reachable state is type-correct; in particular Go's texts consist of
\* characters, whatever surrogates and offsets the client sends.
THEOREM TypeCorrect == Spec => []TypeOK
  <1>1. WInv => TypeOK
    BY DEF WInv
  <1> QED BY <1>1, WInvHolds, PTL

\* The mirror is Go's overlay, for any texts and any edits that cut no character:
\* the client's splice on units and Go's on characters are the same function
\* (applyOverlayEdits, spliceUTF16), and a refusal moves neither text.
THEOREM MirrorKept == Spec => []MirrorHolds
  <1>1. WInv => MirrorHolds
    BY DEF WInv
  <1> QED BY <1>1, WInvHolds, PTL

-----------------------------------------------------------------------------
(* What an accepted request leaves. *)

\* Until the client moves on, the mirror has every unsaved text.
Mirrored == outcome = "accepted" => \A f \in tabs : Diverges(f) => mirror[f] = HostText(f)

\* An accepted request leaves every diverging tab in the mirror: it was pushed, or
\* there already; a tab is never among the closes of a request.
LEMMA MirroredRequest ==
    ASSUME WInv, NEW STATE closed, closed \intersect tabs = {}, Request(closed)
    PROVE  Mirrored'
  <1>1. SUFFICES ASSUME Accept(closed), NEW f \in tabs, Diverges(f)
                 PROVE  mirror'[f] = HostText(f)
    BY DEF Mirrored, Request, Refuse, RefuseText, Diverges, HostText
  <1>2. f \in File /\ f \in ProgramNames
    BY DEF WInv, TypeOK, ProgramNames
  <1>3. f \in DeltaPush => JsApplied(f) = HostText(f)
    BY DEF DeltaPush
  <1>4. f \notin Released \union closed
    BY <1>1 DEF Released
  <1>5. f \notin Pushed => mirror[f] = HostText(f)
    BY <1>1, <1>2 DEF Pushed, FullPush
  <1> QED BY <1>1, <1>2, <1>3, <1>4, <1>5 DEF Accept, Booked, Pushed

LEMMA MirroredNext == WInv /\ Mirrored /\ [Next]_vars => Mirrored'
  <1> SUFFICES ASSUME WInv, Mirrored, [Next]_vars PROVE Mirrored'
    OBVIOUS
  <1>1. CASE CreateProgram
    <2>1. (sent \ tabs) \intersect tabs = {}
      OBVIOUS
    <2> QED BY <1>1, <2>1, MirroredRequest DEF CreateProgram
  <1>2. CASE PushOverlay
    BY <1>2, MirroredRequest DEF PushOverlay
  <1>3. CASE UNCHANGED vars
    BY <1>3 DEF vars, jsVars, Mirrored, Diverges, HostText
  <1>4. CASE ClientStep
    BY <1>4 DEF ClientStep, Mirrored
  <1> QED BY <1>1, <1>2, <1>3, <1>4 DEF Next, OpenTab, EditTab, ReloadTab, CloseTab

\* After an accepted request Go checks every tab, whose edits have cut no
\* character since its last full text, with the client's unsaved text, whatever
\* was refused before (planOverlayPush).
THEOREM UnsavedTextsServed == Spec => []UnsavedServed
  <1>1. Init => Mirrored
    BY DEF Init, Mirrored
  <1>2. Spec => []Mirrored
    BY <1>1, MirroredNext, WInvHolds, PTL DEF Spec
  <1>3. WInv /\ Mirrored => UnsavedServed
    <2> SUFFICES ASSUME WInv, Mirrored, outcome = "accepted", NEW f \in tabs \ cut, Diverges(f)
                 PROVE  overlay[f] = Chars(HostText(f))
      BY DEF UnsavedServed
    <2>1. f \in File
      BY DEF WInv, TypeOK
    <2>2. mirror[f] = HostText(f) /\ mirror[f] # NoText
      BY <2>1, HostTexts DEF WInv, Mirrored
    <2> QED BY <2>1, <2>2 DEF WInv, MirrorHolds
  <1> QED BY <1>2, <1>3, WInvHolds, PTL

-----------------------------------------------------------------------------
(* Refusals.  After one no delta is planned: a delta needs recorded edits of  *)
(* a file that differs from the disk, and the plan of the refused request has *)
(* consumed the edits of all those files.                                    *)

\* The strengthening: after a refusal nothing is left to send as a delta.
NoDeltaLeft == outcome = "refused" => DeltaPush = {}

IInv == TabsAreFiles /\ NoDeltaLeft

\* A plan that commits nothing leaves no delta to the next one.
LEMMA RefusedPlan ==
    ASSUME TabsAreFiles, NEW STATE forgotten, Booked(forgotten, {}),
           UNCHANGED <<tabs, info>>
    PROVE  DeltaPush' = {}
  <1>1. SUFFICES ASSUME NEW f, f \in DeltaPush'
                 PROVE  FALSE
    BY DEF DeltaPush
  <1>2. f \in ProgramNames /\ Diverges(f) /\ pend'[f] # <<>>
    BY <1>1 DEF DeltaPush, ProgramNames, Diverges, HostText
  <1>3. f \in File /\ f \in Consumed(forgotten)
    BY <1>2, FilesAssumption DEF Consumed, ProgramNames, TabsAreFiles
  <1>4. pend'[f] = <<>>
    BY <1>3 DEF Booked
  <1> QED
    BY <1>2, <1>4

\* A request, accepted or refused, keeps the invariant.
LEMMA RequestKeepsIInv ==
    ASSUME IInv, NEW STATE closed, Request(closed)
    PROVE  IInv'
  <1>1. TabsAreFiles'
    BY DEF IInv, TabsAreFiles, Request
  <1>2. CASE Accept(closed)
    BY <1>1, <1>2 DEF Accept, IInv, NoDeltaLeft
  <1>3. CASE ~Accept(closed)
    <2>1. Booked(Released \union closed, {})
      BY <1>3 DEF Request, Refuse, RefuseText
    <2>2. DeltaPush' = {}
      BY <2>1, RefusedPlan DEF Request, IInv
    <2> QED
      BY <1>1, <2>2 DEF IInv, NoDeltaLeft
  <1> QED
    BY <1>2, <1>3

LEMMA IInvInit == Init => IInv
  BY DEF Init, IInv, TabsAreFiles, NoDeltaLeft

LEMMA IInvStep == IInv /\ [Next]_vars => IInv'
  <1> SUFFICES ASSUME IInv, [Next]_vars
               PROVE  IInv'
    OBVIOUS
  <1>1. CASE CreateProgram
    BY <1>1, RequestKeepsIInv DEF CreateProgram
  <1>2. CASE PushOverlay
    BY <1>2, RequestKeepsIInv DEF PushOverlay
  <1>3. CASE UNCHANGED vars
    BY <1>3 DEF vars, jsVars, goVars, IInv, TabsAreFiles, NoDeltaLeft, DeltaPush,
                ProgramNames, Diverges, HostText, JsApplied
  <1>4. ASSUME NEW f \in File, NEW t \in Texts[f], OpenTab(f, t)
        PROVE  IInv'
    BY <1>4 DEF OpenTab, ClientStep, IInv, TabsAreFiles, NoDeltaLeft
  <1>5. ASSUME NEW f \in File, EditTab(f)
        PROVE  IInv'
    BY <1>5 DEF EditTab, ClientStep, IInv, TabsAreFiles, NoDeltaLeft
  <1>6. ASSUME NEW f \in File, ReloadTab(f)
        PROVE  IInv'
    BY <1>6 DEF ReloadTab, ClientStep, IInv, TabsAreFiles, NoDeltaLeft
  <1>7. ASSUME NEW f \in File, CloseTab(f)
        PROVE  IInv'
    BY <1>7 DEF CloseTab, ClientStep, IInv, TabsAreFiles, NoDeltaLeft
  <1> QED
    BY <1>1, <1>2, <1>3, <1>4, <1>5, <1>6, <1>7 DEF Next

\* Without a delta, only the full texts have to be decoded: those of tabs, which
\* RefusalHeals supposes, and those of the disk.
LEMMA IInvHeals == IInv => RefusalHeals
  <1> SUFFICES ASSUME IInv, outcome = "refused", Decodable
               PROVE  Decodes /\ \A f \in DeltaPush, closed \in {{}, sent \ tabs} : Fits(f, closed)
    BY DEF RefusalHeals
  <1>1. DeltaPush = {}
    BY DEF IInv, NoDeltaLeft
  <1>2. ASSUME strict, NEW f \in FullPush
        PROVE  WellFormed(HostText(f))
    <2>1. f \in File
      BY FilesAssumption DEF FullPush, ProgramNames, IInv, TabsAreFiles
    <2> QED
      BY <1>2, <2>1, TextsAssumption DEF Decodable, HostText
  <1> QED
    BY <1>1, <1>2 DEF Decodes

\* A request that follows a refused one is accepted, whatever the refused one
\* has left in Go, as long as the texts can be decoded (planOverlayPush consumes
\* the recorded edits before the request is sent).
THEOREM RefusalNotRepeated == Spec => []RefusalHeals
  <1>1. Spec => []IInv
    BY IInvInit, IInvStep, PTL DEF Spec
  <1> QED
    BY <1>1, IInvHeals, PTL
=============================================================================
