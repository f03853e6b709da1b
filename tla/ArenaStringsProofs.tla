-------------------------- MODULE ArenaStringsProofs --------------------------
(* Theorems about ArenaStrings, for every set of strings and answers and      *)
(* whatever fits the buffer.                                                  *)
EXTENDS ArenaStrings, SequenceTheorems, TLAPS

\* The strings Go has numbered and the client has not taken yet.
Pending ==
    CASE stage = "encode" -> newStrs
      [] stage = "answered" -> resp.news
      [] OTHER -> <<>>

\* The map and the list are inverse to each other.
MutuallyInverse(tab, list) ==
    /\ \A s \in DOMAIN tab : tab[s] \in 1..Len(list) /\ list[tab[s]] = s
    /\ \A i \in 1..Len(list) : list[i] \in DOMAIN tab /\ tab[list[i]] = i

Numbered == MutuallyInverse(strTab, strs)
Announced == strs = table \o Pending

\* The numbers stand for the fields of the answer.
Spells(numbers) ==
    /\ Len(numbers) <= Len(want.fields)
    /\ \A i \in 1..Len(numbers) : numbers[i] <= Len(strs) /\ Str(strs, numbers[i]) = want.fields[i]

Written == stage = "encode" => Spells(ids)
Finished ==
    stage = "answered" =>
        resp.kind = want.kind /\ Len(resp.ids) = Len(want.fields) /\ Spells(resp.ids)

IInv == TypeOK /\ Numbered /\ Announced /\ Written /\ Finished /\ AnswerExact

-----------------------------------------------------------------------------
(* Sequences                                                                  *)

LEMMA AppendSeq ==
    ASSUME NEW S, NEW s \in Seq(S), NEW e \in S
    PROVE  /\ Append(s, e) \in Seq(S)
           /\ Len(Append(s, e)) = Len(s) + 1
           /\ \A i \in 1..Len(s) : Append(s, e)[i] = s[i]
           /\ Append(s, e)[Len(s) + 1] = e
  OBVIOUS

LEMMA ConcatAppend ==
    ASSUME NEW S, NEW s \in Seq(S), NEW t \in Seq(S), NEW e \in S
    PROVE  s \o Append(t, e) = Append(s \o t, e)
<1>1. s \o Append(t, e) \in Seq(S) /\ Append(s \o t, e) \in Seq(S)
  BY ConcatProperties, AppendSeq
<1>2. Len(s \o Append(t, e)) = Len(Append(s \o t, e))
  BY ConcatProperties, AppendSeq
<1>3. ASSUME NEW i \in 1..Len(Append(s \o t, e))
      PROVE  (s \o Append(t, e))[i] = Append(s \o t, e)[i]
  <2>1. Append(t, e) \in Seq(S) /\ s \o t \in Seq(S)
    BY ConcatProperties, AppendSeq
  <2>2. Len(s \o t) = Len(s) + Len(t) /\ Len(Append(t, e)) = Len(t) + 1
    BY ConcatProperties, AppendSeq
  <2>3. Len(s) \in Nat /\ Len(t) \in Nat
    BY LenProperties
  <2>4. CASE i <= Len(s)
    BY <2>1, <2>2, <2>3, <2>4, ConcatProperties, AppendSeq
  <2>5. CASE i > Len(s) /\ i <= Len(s) + Len(t)
    BY <2>1, <2>2, <2>3, <2>5, ConcatProperties, AppendSeq
  <2>6. CASE i = Len(s) + Len(t) + 1
    BY <2>1, <2>2, <2>3, <2>6, ConcatProperties, AppendSeq
  <2>7. i \in 1..Len(s) + Len(t) + 1
    BY <2>1, <2>2, AppendSeq
  <2> QED BY <2>3, <2>4, <2>5, <2>6, <2>7
<1> QED BY <1>1, <1>2, <1>3, SeqEqual

\* Cutting off what was appended.
LEMMA CutBack ==
    ASSUME NEW S, NEW s \in Seq(S), NEW t \in Seq(S)
    PROVE  SubSeq(s \o t, 1, Len(s \o t) - Len(t)) = s
<1>1. s \o t \in Seq(S) /\ Len(s \o t) = Len(s) + Len(t)
  BY ConcatProperties
<1>2. Len(s) \in Nat /\ Len(t) \in Nat
  BY LenProperties
<1>3. Len(s \o t) - Len(t) = Len(s)
  BY <1>1, <1>2
<1>4. \A i \in 1..Len(s) : (s \o t)[i] = s[i]
  BY <1>1, <1>2, ConcatProperties
<1>5. \A i \in 1..Len(s) : (s \o t)[i] \in S
  BY <1>4, ElementOfSeq
<1>6. /\ SubSeq(s \o t, 1, Len(s)) \in Seq(S)
      /\ Len(SubSeq(s \o t, 1, Len(s))) = Len(s)
      /\ \A i \in 1..Len(s) : SubSeq(s \o t, 1, Len(s))[i] = s[i]
  <2> DEFINE u == s \o t
             n == Len(s)
  <2>1. n \in Int /\ 1 \in Int
    BY <1>2
  <2>2. \A i \in 1..n : u[i] \in S
    BY <1>5
  <2> HIDE DEF u, n
  <2>3. /\ SubSeq(u, 1, n) \in Seq(S)
        /\ Len(SubSeq(u, 1, n)) = IF 1 <= n THEN n - 1 + 1 ELSE 0
        /\ \A i \in 1..n - 1 + 1 : SubSeq(u, 1, n)[i] = u[1 + i - 1]
    BY <2>1, <2>2, SubSeqProperties
  <2>4. n \in Nat
    BY <1>2 DEF n
  <2>5. Len(SubSeq(u, 1, n)) = n /\ \A i \in 1..n : SubSeq(u, 1, n)[i] = u[i]
    BY <2>3, <2>4
  <2> QED BY <2>3, <2>5, <1>4 DEF u, n
<1> QED BY <1>3, <1>6, SeqEqual

\* A new string at the end of the list and in the map.
LEMMA InverseAppend ==
    ASSUME NEW tab, NEW list \in Seq(Strings), MutuallyInverse(tab, list),
           NEW e \in Strings, e \notin DOMAIN tab
    PROVE  MutuallyInverse([s \in DOMAIN tab \cup {e} |-> IF s = e THEN Len(list) + 1 ELSE tab[s]],
                   Append(list, e))
<1> DEFINE t == [s \in DOMAIN tab \cup {e} |-> IF s = e THEN Len(list) + 1 ELSE tab[s]]
           u == Append(list, e)
<1>1. Len(u) = Len(list) + 1 /\ Len(list) \in Nat
  BY AppendSeq, LenProperties
<1>2. \A i \in 1..Len(list) : u[i] = list[i]
  BY AppendSeq
<1>3. u[Len(list) + 1] = e
  BY AppendSeq
<1>4. DOMAIN t = DOMAIN tab \cup {e} /\ t[e] = Len(list) + 1
  OBVIOUS
<1>5. \A s \in DOMAIN tab : t[s] = tab[s]
  OBVIOUS
<1> HIDE DEF t, u
<1>6. ASSUME NEW s \in DOMAIN t PROVE t[s] \in 1..Len(u) /\ u[t[s]] = s
  <2>1. CASE s = e
    BY <1>1, <1>3, <1>4, <2>1
  <2>2. CASE s \in DOMAIN tab
    <3>1. tab[s] \in 1..Len(list) /\ list[tab[s]] = s
      BY <2>2 DEF MutuallyInverse
    <3> QED BY <1>1, <1>2, <1>5, <2>2, <3>1
  <2> QED BY <1>4, <2>1, <2>2
<1>7. ASSUME NEW i \in 1..Len(u) PROVE u[i] \in DOMAIN t /\ t[u[i]] = i
  <2>1. CASE i = Len(list) + 1
    BY <1>3, <1>4, <2>1
  <2>2. CASE i \in 1..Len(list)
    <3>1. list[i] \in DOMAIN tab /\ tab[list[i]] = i
      BY <2>2 DEF MutuallyInverse
    <3> QED BY <1>2, <1>4, <1>5, <2>2, <3>1
  <2> QED BY <1>1, <2>1, <2>2
<1>8. MutuallyInverse(t, u)
  BY <1>6, <1>7 DEF MutuallyInverse
<1> QED BY <1>8 DEF t, u

\* The strings behind a cut leave the map, and no other does.
LEMMA InverseCut ==
    ASSUME NEW tab, NEW base \in Seq(Strings), NEW news \in Seq(Strings),
           MutuallyInverse(tab, base \o news)
    PROVE  MutuallyInverse([s \in {x \in DOMAIN tab : \A i \in DOMAIN news : news[i] # x} |-> tab[s]],
                   base)
<1> DEFINE D == {x \in DOMAIN tab : \A i \in DOMAIN news : news[i] # x}
           t == [s \in D |-> tab[s]]
           u == base \o news
           n == Len(base)
           m == Len(news)
<1>1. n \in Nat /\ m \in Nat /\ Len(u) = n + m /\ DOMAIN news = 1..m
  BY LenProperties, ConcatProperties
<1>2. \A i \in 1..n : u[i] = base[i]
  BY <1>1, ConcatProperties
<1>3. \A i \in 1..m : u[n + i] = news[i]
  BY <1>1, ConcatProperties
<1>4. DOMAIN t = D /\ \A s \in D : t[s] = tab[s]
  OBVIOUS
<1>5. /\ \A s \in DOMAIN tab : tab[s] \in 1..Len(u) /\ u[tab[s]] = s
      /\ \A i \in 1..Len(u) : u[i] \in DOMAIN tab /\ tab[u[i]] = i
  BY DEF MutuallyInverse
<1>d. \A x : x \in D <=> x \in DOMAIN tab /\ \A i \in 1..m : news[i] # x
  BY <1>1
<1> HIDE DEF D, t, u, n, m
<1>6. ASSUME NEW s \in D PROVE t[s] \in 1..n /\ base[t[s]] = s
  <2>1. s \in DOMAIN tab /\ \A i \in 1..m : news[i] # s
    BY <1>d
  <2>2. tab[s] \in 1..n + m /\ u[tab[s]] = s
    BY <1>1, <1>5, <2>1
  <2>3. ASSUME tab[s] > n PROVE FALSE
    <3>1. tab[s] - n \in 1..m
      BY <1>1, <2>2, <2>3
    <3>2. u[n + (tab[s] - n)] = news[tab[s] - n]
      BY <1>3, <3>1
    <3>3. n + (tab[s] - n) = tab[s]
      BY <1>1, <2>2
    <3> QED BY <2>1, <2>2, <3>1, <3>2, <3>3
  <2>4. tab[s] \in 1..n
    BY <1>1, <2>2, <2>3
  <2> QED BY <1>2, <1>4, <2>2, <2>4
<1>7. ASSUME NEW i \in 1..n PROVE base[i] \in D /\ t[base[i]] = i
  <2>1. i \in 1..Len(u) /\ u[i] = base[i]
    BY <1>1, <1>2
  <2>2. base[i] \in DOMAIN tab /\ tab[base[i]] = i
    BY <1>5, <2>1
  <2>3. ASSUME NEW j \in 1..m, news[j] = base[i] PROVE FALSE
    <3>1. n + j \in 1..Len(u) /\ n + j # i
      BY <1>1
    <3>2. u[n + j] = base[i]
      BY <1>3, <2>3
    <3>3. tab[base[i]] = n + j
      BY <1>5, <3>1, <3>2
    <3> QED BY <2>2, <3>1, <3>3
  <2>4. base[i] \in D
    BY <1>d, <2>2, <2>3
  <2> QED BY <1>4, <2>2, <2>4
<1>8. MutuallyInverse(t, base)
  BY <1>4, <1>6, <1>7 DEF MutuallyInverse, n
<1> QED BY <1>8 DEF t, D
-----------------------------------------------------------------------------
(* The invariant                                                              *)

\* What a number stands for does not change when the list grows.
LEMMA StrOfList ==
    ASSUME NEW list \in Seq(Strings)
    PROVE  /\ Str(list, 0) = Empty
           /\ \A n \in 1..Len(list) : Str(list, n) = list[n] /\ Str(list, n) # Empty
           /\ \A e \in Strings : Str(Append(list, e), Len(list) + 1) = e
           /\ \A e \in Strings, n \in 0..Len(list) : Str(Append(list, e), n) = Str(list, n)
<1>1. Len(list) \in Nat /\ DOMAIN list = 1..Len(list)
  BY LenProperties
<1>2. \A n \in 1..Len(list) : list[n] \in Strings
  BY ElementOfSeq
<1>3. \A e \in Strings : /\ DOMAIN Append(list, e) = 1..Len(list) + 1
                         /\ \A n \in 1..Len(list) : Append(list, e)[n] = list[n]
                         /\ Append(list, e)[Len(list) + 1] = e
  BY <1>1, AppendSeq, LenProperties
<1>4. \A n \in 1..Len(list) : Str(list, n) = list[n] /\ Str(list, n) # Empty
  BY <1>1, <1>2, StringAssumption DEF Str
<1>5. ASSUME NEW e \in Strings
      PROVE  Str(Append(list, e), Len(list) + 1) = e
  <2>1. Len(list) + 1 \in DOMAIN Append(list, e) /\ Len(list) + 1 # 0
    BY <1>1, <1>3
  <2> QED BY <1>3, <2>1 DEF Str
<1>6. ASSUME NEW e \in Strings, NEW n \in 0..Len(list)
      PROVE  Str(Append(list, e), n) = Str(list, n)
  <2>1. n = 0 \/ n \in 1..Len(list)
    BY <1>1
  <2>2. CASE n = 0
    BY <2>2 DEF Str
  <2>3. CASE n \in 1..Len(list)
    <3>1. n \in DOMAIN Append(list, e) /\ n \in DOMAIN list /\ n # 0
      BY <1>1, <1>3, <2>3
    <3> QED BY <1>3, <2>3, <3>1 DEF Str
  <2> QED BY <2>1, <2>2, <2>3
<1> QED BY <1>4, <1>5, <1>6 DEF Str

LEMMA AnswerShape ==
    ASSUME NEW a \in Answers
    PROVE  /\ a.fields \in Seq(Strings \cup {Empty})
           /\ a.kind \in {"record", "null", "error"}
           /\ a = Answer(a.kind, a.fields)
<1>1. CASE a \in {Answer("record", r) : r \in Records}
  <2>1. PICK r \in Records : a = Answer("record", r)
    BY <1>1
  <2>2. r \in Seq(Strings \cup {Empty})
    BY StringAssumption
  <2> QED BY <2>1, <2>2 DEF Answer
<1>2. CASE a \in {Null, Error}
  <2>1. <<>> \in Seq(Strings \cup {Empty})
    BY EmptySeq
  <2>2. a = Answer("null", <<>>) \/ a = Answer("error", <<>>)
    BY <1>2 DEF Null, Error
  <2>3. \A k : /\ Answer(k, <<>>).kind = k
               /\ Answer(k, <<>>).fields = <<>>
    BY DEF Answer
  <2> QED BY <2>1, <2>2, <2>3
<1> QED BY <1>1, <1>2 DEF Answers

LEMMA WantShape ==
    ASSUME want \in Answers
    PROVE  /\ want.fields \in Seq(Strings \cup {Empty})
           /\ want.kind \in {"record", "null", "error"}
           /\ want = Answer(want.kind, want.fields)
  BY AnswerShape

LEMMA InitInv == Init => IInv
<1> SUFFICES ASSUME Init PROVE IInv
  OBVIOUS
<1> USE DEF Init
<1>1. <<>> \in Seq(Strings) /\ <<>> \in Seq(Nat) /\ Null \in Answers
  BY EmptySeq DEF Answers
<1>2. TypeOK
  BY <1>1 DEF TypeOK
<1>3. Numbered
  BY DEF Numbered, MutuallyInverse
<1>4. Announced
  BY <1>1, ConcatEmptySeq DEF Announced, Pending
<1> QED BY <1>2, <1>3, <1>4 DEF IInv, Written, Finished, AnswerExact

LEMMA RequestStep ==
    ASSUME IInv, NEW answer \in Answers, Request(answer)
    PROVE  IInv'
<1> USE DEF Request
<1>1. TypeOK'
  BY EmptySeq DEF IInv, TypeOK
<1>2. Announced'
  BY DEF IInv, Announced, Pending
<1>3. Written'
  <2>1. answer.fields \in Seq(Strings \cup {Empty})
    BY AnswerShape
  <2>2. Len(answer.fields) \in Nat
    BY <2>1, LenProperties
  <2> QED BY <2>2 DEF Written, Spells
<1> QED BY <1>1, <1>2, <1>3 DEF IInv, Numbered, Finished, AnswerExact

\* The number of the next field.
LEMMA OneMore ==
    ASSUME TypeOK, stage = "encode", Rest, Spells(ids),
           NEW list \in Seq(Strings), Len(strs) <= Len(list),
           \A n \in 0..Len(strs) : Str(list, n) = Str(strs, n),
           NEW n \in 0..Len(list), Str(list, n) = Field
    PROVE  /\ Append(ids, n) \in Seq(Nat)
           /\ Len(Append(ids, n)) <= Len(want.fields)
           /\ \A i \in 1..Len(Append(ids, n)) :
                 Append(ids, n)[i] <= Len(list) /\ Str(list, Append(ids, n)[i]) = want.fields[i]
<1>1. ids \in Seq(Nat) /\ Len(ids) \in Nat /\ Len(strs) \in Nat /\ Len(list) \in Nat
  BY LenProperties DEF TypeOK
<1>2. Len(want.fields) \in Nat
  BY WantShape, LenProperties DEF TypeOK
<1>3. /\ Append(ids, n) \in Seq(Nat)
      /\ Len(Append(ids, n)) = Len(ids) + 1
      /\ \A i \in 1..Len(ids) : Append(ids, n)[i] = ids[i]
      /\ Append(ids, n)[Len(ids) + 1] = n
  BY <1>1, AppendSeq
<1>4. \A i \in 1..Len(ids) : ids[i] \in 0..Len(strs) /\ Str(list, ids[i]) = want.fields[i]
  <2>1. \A i \in 1..Len(ids) : ids[i] \in Nat
    BY <1>1, ElementOfSeq
  <2> QED BY <1>1, <2>1 DEF Spells
<1>5. \A i \in 1..Len(ids) + 1 :
         Append(ids, n)[i] <= Len(list) /\ Str(list, Append(ids, n)[i]) = want.fields[i]
  <2> SUFFICES ASSUME NEW i \in 1..Len(ids) + 1
               PROVE  Append(ids, n)[i] <= Len(list) /\ Str(list, Append(ids, n)[i]) = want.fields[i]
    OBVIOUS
  <2>1. CASE i = Len(ids) + 1
    BY <1>1, <1>3, <2>1 DEF Field
  <2>2. CASE i \in 1..Len(ids)
    BY <1>1, <1>3, <1>4, <2>2
  <2>3. i = Len(ids) + 1 \/ i \in 1..Len(ids)
    BY <1>1
  <2> QED BY <2>1, <2>2, <2>3
<1>6. Len(ids) + 1 <= Len(want.fields)
  BY <1>1, <1>2 DEF Rest
<1> QED BY <1>3, <1>5, <1>6

LEMMA FieldOfWant ==
    ASSUME TypeOK, Rest
    PROVE  Field \in Strings \cup {Empty}
<1>1. want.fields \in Seq(Strings \cup {Empty}) /\ Len(want.fields) \in Nat /\ Len(ids) \in Nat
  BY WantShape, LenProperties DEF TypeOK
<1>2. Len(ids) + 1 \in 1..Len(want.fields)
  BY <1>1 DEF Rest
<1> QED BY <1>1, <1>2, ElementOfSeq DEF Field

LEMMA InternKnownStep ==
    ASSUME IInv, InternKnown
    PROVE  IInv'
<1> DEFINE n == IF Field = Empty THEN 0 ELSE strTab[Field]
<1>1. strs \in Seq(Strings) /\ Len(strs) \in Nat /\ Spells(ids)
  BY LenProperties DEF IInv, TypeOK, InternKnown, Written
<1>2. n \in 0..Len(strs) /\ Str(strs, n) = Field
  <2>1. CASE Field = Empty
    BY <1>1, <2>1, StrOfList
  <2>2. CASE Field # Empty
    <3>1. strTab[Field] \in 1..Len(strs) /\ strs[strTab[Field]] = Field
      BY <2>2 DEF IInv, Numbered, MutuallyInverse, InternKnown, Known
    <3> QED BY <1>1, <2>2, <3>1, StrOfList
  <2> QED BY <2>1, <2>2
<1>3. ids' = Append(ids, n)
  BY DEF InternKnown
<1> HIDE DEF n
<1>4. /\ ids' \in Seq(Nat)
      /\ Len(ids') <= Len(want.fields)
      /\ \A i \in 1..Len(ids') : ids'[i] <= Len(strs) /\ Str(strs, ids'[i]) = want.fields[i]
  BY <1>1, <1>2, <1>3, OneMore DEF IInv, InternKnown
<1>5. TypeOK'
  BY <1>4 DEF IInv, TypeOK, InternKnown
<1>6. Written'
  BY <1>4 DEF Written, Spells, InternKnown
<1> QED BY <1>5, <1>6 DEF IInv, InternKnown, Numbered, Announced, Pending, Finished, AnswerExact

LEMMA InternNewStep ==
    ASSUME IInv, InternNew
    PROVE  IInv'
<1> USE DEF InternNew
<1>1. Field \in Strings /\ Field \notin DOMAIN strTab
  BY FieldOfWant DEF IInv, Known
<1>2. /\ strs \in Seq(Strings) /\ newStrs \in Seq(Strings) /\ table \in Seq(Strings)
      /\ Len(strs) \in Nat /\ Spells(ids)
  BY LenProperties DEF IInv, TypeOK, Written
<1>3. strs' \in Seq(Strings) /\ newStrs' \in Seq(Strings) /\ Len(strs') = Len(strs) + 1
  BY <1>1, <1>2, AppendSeq
<1>4. /\ \A n \in 0..Len(strs) : Str(strs', n) = Str(strs, n)
      /\ Str(strs', Len(strs) + 1) = Field
  BY <1>1, <1>2, StrOfList
<1>5. /\ ids' \in Seq(Nat)
      /\ Len(ids') <= Len(want.fields)
      /\ \A i \in 1..Len(ids') : ids'[i] <= Len(strs') /\ Str(strs', ids'[i]) = want.fields[i]
  <2>1. Len(strs) <= Len(strs') /\ NextId \in 0..Len(strs') /\ Str(strs', NextId) = Field
    BY <1>2, <1>3, <1>4 DEF NextId
  <2>2. ids' = Append(ids, NextId)
    OBVIOUS
  <2>3. TypeOK /\ stage = "encode" /\ Rest
    BY DEF IInv
  <2> HIDE DEF InternNew
  <2> QED BY <1>2, <1>3, <1>4, <2>1, <2>2, <2>3, OneMore
<1>6. TypeOK'
  <2>1. DOMAIN strTab' \subseteq Strings /\ \A s \in DOMAIN strTab' : strTab'[s] \in Nat \ {0}
    BY <1>1, <1>2 DEF IInv, TypeOK, NextId
  <2> QED BY <1>3, <1>5, <2>1 DEF IInv, TypeOK
<1>7. Numbered'
  BY <1>1, <1>2, InverseAppend DEF IInv, Numbered, NextId
<1>8. Announced'
  <2>1. strs = table \o newStrs
    BY DEF IInv, Announced, Pending
  <2>2. strs' = table \o newStrs'
    <3>1. table \o Append(newStrs, Field) = Append(table \o newStrs, Field)
      BY <1>1, <1>2, ConcatAppend
    <3>2. strs' = Append(strs, Field) /\ newStrs' = Append(newStrs, Field)
      OBVIOUS
    <3> HIDE DEF InternNew
    <3> QED BY <2>1, <3>1, <3>2
  <2> QED BY <2>2 DEF Announced, Pending
<1>9. Written'
  BY <1>5 DEF Written, Spells
<1> QED BY <1>6, <1>7, <1>8, <1>9 DEF IInv, Finished, AnswerExact

LEMMA FinishStep ==
    ASSUME IInv, Finish
    PROVE  IInv'
<1> USE DEF Finish
<1>1. want.kind \in {"record", "null", "error"}
  BY WantShape DEF IInv, TypeOK
<1>2. TypeOK'
  BY <1>1 DEF IInv, TypeOK
<1>3. Finished'
  <2>1. Len(ids) \in Nat /\ Len(want.fields) \in Nat
    BY WantShape, LenProperties DEF IInv, TypeOK
  <2>2. Spells(ids)
    BY DEF IInv, Written
  <2>3. Len(ids) = Len(want.fields)
    BY <2>1, <2>2 DEF Rest, Spells
  <2> QED BY <2>2, <2>3 DEF Finished, Spells
<1> QED BY <1>2, <1>3 DEF IInv, Numbered, Announced, Pending, Written, AnswerExact

\* Giving up an answer takes both tables back to what the client has.
LEMMA RewindBack ==
    ASSUME IInv, stage = "encode", RewindStrings
    PROVE  /\ strs' = table
           /\ MutuallyInverse(strTab', table)
           /\ newStrs' = <<>>
           /\ strs' \in Seq(Strings)
           /\ DOMAIN strTab' \subseteq Strings
           /\ \A s \in DOMAIN strTab' : strTab'[s] \in Nat \ {0}
<1>1. strs = table \o newStrs /\ table \in Seq(Strings) /\ newStrs \in Seq(Strings)
  BY DEF IInv, Announced, Pending, TypeOK
<1>2. strs' = table
  BY <1>1, CutBack DEF RewindStrings
<1>3. MutuallyInverse(strTab', table)
  BY <1>1, InverseCut DEF RewindStrings, IInv, Numbered
<1>4. DOMAIN strTab' \subseteq Strings /\ \A s \in DOMAIN strTab' : strTab'[s] \in Nat \ {0}
  BY DEF RewindStrings, IInv, TypeOK
<1> QED BY <1>1, <1>2, <1>3, <1>4 DEF RewindStrings

LEMMA EscapeStep ==
    ASSUME IInv, Escape
    PROVE  IInv'
<1>1. /\ strs' = table /\ MutuallyInverse(strTab', table) /\ newStrs' = <<>> /\ strs' \in Seq(Strings)
      /\ DOMAIN strTab' \subseteq Strings
      /\ \A s \in DOMAIN strTab' : strTab'[s] \in Nat \ {0}
  BY RewindBack DEF Escape
<1>2. TypeOK'
  BY <1>1, EmptySeq DEF IInv, TypeOK, Escape
<1>3. Numbered'
  BY <1>1 DEF Numbered
<1>4. Announced'
  BY <1>1, ConcatEmptySeq DEF Announced, Pending, Escape
<1> QED BY <1>2, <1>3, <1>4 DEF IInv, Escape, Written, Finished, AnswerExact

LEMMA FinishErrorStep ==
    ASSUME IInv, FinishError
    PROVE  IInv'
<1>1. /\ strs' = table /\ MutuallyInverse(strTab', table) /\ newStrs' = <<>> /\ strs' \in Seq(Strings)
      /\ DOMAIN strTab' \subseteq Strings
      /\ \A s \in DOMAIN strTab' : strTab'[s] \in Nat \ {0}
  BY RewindBack DEF FinishError
<1>2. TypeOK'
  BY <1>1, EmptySeq DEF IInv, TypeOK, FinishError, Answers
<1>3. Numbered'
  BY <1>1 DEF Numbered
<1>4. Announced'
  <2>1. Pending' = <<>> /\ table' = table
    BY DEF Pending, FinishError
  <2> QED BY <1>1, <2>1, ConcatEmptySeq DEF Announced
<1>5. Finished'
  BY DEF Finished, FinishError, Spells, Error, Answer
<1> QED BY <1>2, <1>3, <1>4, <1>5 DEF IInv, FinishError, Written, AnswerExact

LEMMA ResponseStep ==
    ASSUME IInv, Response
    PROVE  IInv'
<1> USE DEF Response, goVars
<1>1. strs = Synced /\ table \in Seq(Strings) /\ strs \in Seq(Strings)
  BY DEF IInv, TypeOK, Announced, Pending, Synced
<1>2. TypeOK'
  BY <1>1 DEF IInv, TypeOK
<1>3. Announced'
  BY <1>1, ConcatEmptySeq DEF Announced, Pending
<1>4. got' = want
  <2>1. /\ resp.kind = want.kind /\ Len(resp.ids) = Len(want.fields)
        /\ Spells(resp.ids)
    BY DEF IInv, Finished
  <2>2. resp.ids \in Seq(Nat) /\ want.fields \in Seq(Strings \cup {Empty})
    BY WantShape DEF IInv, TypeOK
  <2>3. DOMAIN resp.ids = 1..Len(want.fields) /\ DOMAIN want.fields = 1..Len(want.fields)
    BY <2>1, <2>2, LenProperties
  <2>4. \A i \in DOMAIN resp.ids : Str(Synced, resp.ids[i]) = want.fields[i]
    BY <1>1, <2>1, <2>3 DEF Spells
  <2>5. [i \in DOMAIN resp.ids |-> Str(Synced, resp.ids[i])] = want.fields
    <3>1. want.fields = [i \in DOMAIN want.fields |-> want.fields[i]]
      BY <2>2, LenProperties
    <3> QED BY <2>3, <2>4, <3>1
  <2> QED BY <2>1, <2>5, WantShape DEF IInv, TypeOK
<1> QED BY <1>2, <1>3, <1>4 DEF IInv, Numbered, Written, Finished, AnswerExact

LEMMA ReadDocumentStep ==
    ASSUME IInv, ReadDocument
    PROVE  IInv'
<1>1. TypeOK'
  BY DEF IInv, TypeOK, ReadDocument, goVars
<1> QED BY <1>1 DEF IInv, ReadDocument, goVars, Numbered, Announced, Pending, Written,
              Finished, AnswerExact

LEMMA StepInv == IInv /\ [Next]_vars => IInv'
<1> SUFFICES ASSUME IInv, [Next]_vars PROVE IInv'
  OBVIOUS
<1>1. CASE \E answer \in Answers : Request(answer)
  BY <1>1, RequestStep
<1>2. CASE InternKnown
  BY <1>2, InternKnownStep
<1>3. CASE InternNew
  BY <1>3, InternNewStep
<1>4. CASE Finish
  BY <1>4, FinishStep
<1>5. CASE Escape
  BY <1>5, EscapeStep
<1>6. CASE FinishError
  BY <1>6, FinishErrorStep
<1>7. CASE Response
  BY <1>7, ResponseStep
<1>8. CASE ReadDocument
  BY <1>8, ReadDocumentStep
<1>9. CASE UNCHANGED vars
  BY <1>9 DEF vars, goVars, IInv, TypeOK, Numbered, Announced, Pending, Written, Finished,
              Spells, AnswerExact
<1> QED BY <1>1, <1>2, <1>3, <1>4, <1>5, <1>6, <1>7, <1>8, <1>9 DEF Next

LEMMA Invariant == Spec => []IInv
<1> QED BY InitInv, StepInv, PTL DEF Spec
-----------------------------------------------------------------------------
(* The theorems                                                               *)

\* Every variable of the transport keeps its type: the numbers in the map start
\* at 1, for 0 is the empty string on the wire (arena.intern).
THEOREM TypeCorrect == Spec => []TypeOK
<1>1. IInv => TypeOK
  BY DEF IInv
<1> QED BY Invariant, <1>1, PTL

\* Between two calls the client's table is Go's list, whatever was encoded,
\* given up, refused or failed before (arena.rewindStrings, ArenaClient.response).
THEOREM TablesInLockstep == Spec => []Lockstep
<1>1. IInv => Lockstep
  <2> SUFFICES ASSUME IInv, stage = "idle" PROVE table = strs
    BY DEF Lockstep
  <2>1. strs = table \o <<>> /\ table \in Seq(Strings)
    BY DEF IInv, Announced, Pending, TypeOK
  <2> QED BY <2>1, ConcatEmptySeq
<1> QED BY Invariant, <1>1, PTL

\* The client's caller receives the strings, the absence or the error that the
\* handler returned, on both ways out of Go (HandleArenaRequest, request).
THEOREM AnswersExact == Spec => []AnswerExact
<1>1. IInv => AnswerExact
  BY DEF IInv
<1> QED BY Invariant, <1>1, PTL

\* No string is announced to the client twice (arena.intern, arena.finish).
THEOREM StringsAnnouncedOnce == Spec => []AnnouncedOnce
<1>1. IInv => AnnouncedOnce
  <2> SUFFICES ASSUME IInv, NEW i \in DOMAIN table, NEW j \in DOMAIN table, table[i] = table[j]
               PROVE  i = j
    BY DEF AnnouncedOnce
  <2>1. table \in Seq(Strings) /\ Pending \in Seq(Strings) /\ strs = table \o Pending
    BY EmptySeq DEF IInv, TypeOK, Announced, Pending
  <2>2. i \in 1..Len(table) /\ j \in 1..Len(table) /\ Len(table) \in Nat /\ Len(Pending) \in Nat
    BY <2>1, LenProperties
  <2>3. Len(strs) = Len(table) + Len(Pending) /\ strs[i] = table[i] /\ strs[j] = table[j]
    BY <2>1, <2>2, ConcatProperties
  <2>4. i \in 1..Len(strs) /\ j \in 1..Len(strs)
    BY <2>2, <2>3
  <2>5. strTab[strs[i]] = i /\ strTab[strs[j]] = j
    BY <2>4 DEF IInv, Numbered, MutuallyInverse
  <2> QED BY <2>3, <2>5
<1> QED BY Invariant, <1>1, PTL
=============================================================================
