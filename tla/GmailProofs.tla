---------------------------- MODULE GmailProofs ----------------------------
(***************************************************************************)
(* Proofs about GmailMailbox, for every mailbox, page size and number of   *)
(* changes that other clients make during the ingestion.                   *)
(***************************************************************************)
EXTENDS GmailMailbox, IngestionProofs, FiniteSetTheorems

-----------------------------------------------------------------------------
(* Facts about lists without repetition. *)

(* Such a list has as many members as places. *)
LEMMA DistinctCardinality ==
    ASSUME NEW S, NEW s \in Seq(S), Distinct(s)
    PROVE  IsFiniteSet(Members(s)) /\ Cardinality(Members(s)) = Len(s)
<1>1. Len(s) \in Nat /\ DOMAIN s = 1..Len(s)
  OBVIOUS
<1>2. IsFiniteSet(1..Len(s)) /\ Cardinality(1..Len(s)) = Len(s)
  BY <1>1, FS_Interval
<1>3. s \in [1..Len(s) -> Members(s)]
  <2>1. \A i \in 1..Len(s) : s[i] \in Members(s)
    BY <1>1 DEF Members
  <2>2. s = [i \in 1..Len(s) |-> s[i]]
    BY <1>1
  <2> QED
    BY <2>1, <2>2
<1>4. \A i, j \in 1..Len(s) : s[i] = s[j] => i = j
  BY <1>1 DEF Distinct
<1>5. \A m \in Members(s) : \E i \in 1..Len(s) : s[i] = m
  BY <1>1 DEF Members
<1>6. s \in Bijection(1..Len(s), Members(s))
  BY <1>3, <1>4, <1>5 DEF Bijection, Injection, Surjection, IsInjective
<1>7. ExistsBijection(1..Len(s), Members(s))
  BY <1>6 DEF ExistsBijection
<1> QED
  BY <1>2, <1>7, FS_Bijection

(* A part of a list. *)
LEMMA SliceFacts ==
    ASSUME NEW S, NEW s \in Seq(S), NEW a \in Nat, NEW b \in Nat, a <= b, b <= Len(s)
    PROVE  /\ SubSeq(s, a + 1, b) \in Seq(S)
           /\ Len(SubSeq(s, a + 1, b)) = b - a
           /\ \A i \in 1..(b - a) : SubSeq(s, a + 1, b)[i] = s[a + i]
<1>1. \A i \in (a + 1)..b : s[i] \in S
  <2>1. \A i \in (a + 1)..b : i \in 1..Len(s)
    OBVIOUS
  <2> QED
    BY <2>1, ElementOfSeq
<1>2. a + 1 \in Int /\ b \in Int
  OBVIOUS
<1>3. /\ SubSeq(s, a + 1, b) \in Seq(S)
      /\ Len(SubSeq(s, a + 1, b)) = IF a + 1 <= b THEN b - (a + 1) + 1 ELSE 0
      /\ \A i \in 1..(b - (a + 1) + 1) : SubSeq(s, a + 1, b)[i] = s[(a + 1) + i - 1]
  BY <1>1, <1>2, SubSeqProperties
<1>4. b - (a + 1) + 1 = b - a /\ (a + 1 <= b \/ b - a = 0)
  OBVIOUS
<1>5. \A i \in 1..(b - a) : (a + 1) + i - 1 = a + i
  OBVIOUS
<1> QED
  BY <1>3, <1>4, <1>5

(* The list without one of its threads. *)
LEMMA WithoutFacts ==
    ASSUME box \in Seq(Threads), Distinct(box), NEW t \in Threads
    PROVE  /\ Without(t) \in Seq(Threads)
           /\ Distinct(Without(t))
           /\ Members(Without(t)) = Members(box) \ {t}
<1>0. Len(box) \in Nat /\ DOMAIN box = 1..Len(box)
  OBVIOUS
<1>1. CASE t \notin Members(box)
  BY <1>1 DEF Without
<1>2. CASE t \in Members(box)
  <2> DEFINE at == CHOOSE i \in DOMAIN box : box[i] = t
             left == SubSeq(box, 1, at - 1)
             right == SubSeq(box, at + 1, Len(box))
             w == left \o right
  <2>1. at \in 1..Len(box) /\ box[at] = t
    BY <1>0, <1>2 DEF Members
  <2> HIDE DEF at
  <2>2. /\ left \in Seq(Threads) /\ Len(left) = at - 1
        /\ \A i \in 1..(at - 1) : left[i] = box[i]
    <3>1. 0 \in Nat /\ at - 1 \in Nat /\ 0 <= at - 1 /\ at - 1 <= Len(box)
      BY <1>0, <2>1
    <3>2. /\ SubSeq(box, 0 + 1, at - 1) \in Seq(Threads)
          /\ Len(SubSeq(box, 0 + 1, at - 1)) = (at - 1) - 0
          /\ \A i \in 1..((at - 1) - 0) : SubSeq(box, 0 + 1, at - 1)[i] = box[0 + i]
      BY <3>1, SliceFacts
    <3>3. 0 + 1 = 1 /\ (at - 1) - 0 = at - 1 /\ \A i \in 1..(at - 1) : 0 + i = i
      BY <2>1
    <3> QED
      BY <3>2, <3>3
  <2>3. /\ right \in Seq(Threads) /\ Len(right) = Len(box) - at
        /\ \A i \in 1..(Len(box) - at) : right[i] = box[at + i]
    <3>1. at \in Nat /\ Len(box) \in Nat /\ at <= Len(box) /\ Len(box) <= Len(box)
      BY <1>0, <2>1
    <3> QED
      BY <3>1, SliceFacts
  <2> HIDE DEF left, right
  <2>4. /\ w \in Seq(Threads) /\ Len(w) = (at - 1) + (Len(box) - at)
        /\ \A i \in 1..((at - 1) + (Len(box) - at)) :
              w[i] = IF i <= at - 1 THEN left[i] ELSE right[i - (at - 1)]
    <3>1. /\ left \o right \in Seq(Threads)
          /\ Len(left \o right) = Len(left) + Len(right)
          /\ \A i \in 1..(Len(left) + Len(right)) :
                (left \o right)[i] = IF i <= Len(left) THEN left[i] ELSE right[i - Len(left)]
      BY <2>2, <2>3, ConcatProperties
    <3> QED
      BY <2>2, <2>3, <3>1, Zenon
  <2>5. DOMAIN w = 1..(Len(box) - 1)
    <3>1. DOMAIN w = 1..Len(w)
      BY <2>4
    <3>2. (at - 1) + (Len(box) - at) = Len(box) - 1
      BY <1>0, <2>1
    <3> QED
      BY <2>4, <3>1, <3>2
  <2>6. \A i \in 1..(Len(box) - 1) : w[i] = IF i < at THEN box[i] ELSE box[i + 1]
    <3> SUFFICES ASSUME NEW i \in 1..(Len(box) - 1)
                 PROVE  w[i] = IF i < at THEN box[i] ELSE box[i + 1]
      OBVIOUS
    <3>1. i \in 1..((at - 1) + (Len(box) - at))
      BY <1>0, <2>1
    <3>2. CASE i < at
      BY <2>1, <2>2, <2>4, <3>1, <3>2
    <3>3. CASE ~ i < at
      <4>1. i - (at - 1) \in 1..(Len(box) - at) /\ at + (i - (at - 1)) = i + 1
            /\ ~ i <= at - 1
        BY <1>0, <2>1, <3>3
      <4> QED
        BY <2>3, <2>4, <3>1, <3>3, <4>1
    <3> QED
      BY <3>2, <3>3
  <2> HIDE DEF w
  <2>7. \A i, j \in 1..Len(box) : box[i] = box[j] => i = j
    BY <1>0 DEF Distinct
  <2>8. Distinct(w)
    <3> SUFFICES ASSUME NEW i \in 1..(Len(box) - 1), NEW j \in 1..(Len(box) - 1), w[i] = w[j]
                 PROVE  i = j
      BY <2>5 DEF Distinct
    <3>1. i \in 1..Len(box) /\ i + 1 \in 1..Len(box) /\ j \in 1..Len(box) /\ j + 1 \in 1..Len(box)
      BY <1>0
    <3> QED
      BY <2>1, <2>6, <2>7, <3>1
  <2>9. Members(w) \subseteq Members(box) \ {t}
    <3> SUFFICES ASSUME NEW i \in 1..(Len(box) - 1)
                 PROVE  w[i] \in Members(box) /\ w[i] # t
      BY <2>5 DEF Members
    <3>1. PICK k \in 1..Len(box) : w[i] = box[k] /\ k # at
      BY <1>0, <2>1, <2>6
    <3> QED
      BY <1>0, <2>1, <2>7, <3>1 DEF Members
  <2>10. Members(box) \ {t} \subseteq Members(w)
    <3> SUFFICES ASSUME NEW k \in 1..Len(box), box[k] # t
                 PROVE  box[k] \in Members(w)
      BY <1>0 DEF Members
    <3>1. PICK i \in 1..(Len(box) - 1) : w[i] = box[k]
      <4>1. CASE k < at
        <5>1. k \in 1..(Len(box) - 1)
          BY <1>0, <2>1, <4>1
        <5> QED
          BY <2>6, <4>1, <5>1
      <4>2. CASE k > at
        <5>1. k - 1 \in 1..(Len(box) - 1) /\ ~ k - 1 < at /\ (k - 1) + 1 = k
          BY <1>0, <2>1, <4>2
        <5> QED
          BY <2>6, <5>1
      <4>3. k # at
        BY <2>1
      <4> QED
        BY <2>1, <4>1, <4>2, <4>3
    <3> QED
      BY <2>5, <3>1 DEF Members
  <2>11. Without(t) = w
    BY <1>2 DEF Without, w, left, right, at
  <2> QED
    BY <2>4, <2>8, <2>9, <2>10, <2>11
<1> QED
  BY <1>1, <1>2

(* A thread becomes the newest. *)
LEMMA NewestFacts ==
    ASSUME box \in Seq(Threads), Distinct(box), NEW t \in Threads
    PROVE  /\ <<t>> \o Without(t) \in Seq(Threads)
           /\ Distinct(<<t>> \o Without(t))
           /\ Members(<<t>> \o Without(t)) = Members(box) \union {t}
<1>1. PICK w : w = Without(t)
  OBVIOUS
<1>2. w \in Seq(Threads) /\ Distinct(w) /\ Members(w) = Members(box) \ {t}
  BY <1>1, WithoutFacts
<1>3. /\ <<t>> \o w \in Seq(Threads)
      /\ Len(w) \in Nat /\ DOMAIN w = 1..Len(w)
      /\ DOMAIN (<<t>> \o w) = 1..(Len(w) + 1)
      /\ (<<t>> \o w)[1] = t
      /\ \A i \in 1..Len(w) : (<<t>> \o w)[i + 1] = w[i]
  BY <1>2
<1>4. PICK u : u = <<t>> \o w
  OBVIOUS
<1>5. \A i \in 1..(Len(w) + 1) :
          \/ i = 1 /\ u[i] = t
          \/ i - 1 \in 1..Len(w) /\ u[i] = w[i - 1]
  <2> SUFFICES ASSUME NEW i \in 1..(Len(w) + 1), i # 1
               PROVE  i - 1 \in 1..Len(w) /\ u[i] = w[i - 1]
    BY <1>3, <1>4
  <2>1. i - 1 \in 1..Len(w) /\ (i - 1) + 1 = i
    BY <1>3
  <2> QED
    BY <1>3, <1>4, <2>1
<1>6. Members(u) = Members(w) \union {t}
  <2>1. \A x : x \in Members(u) <=> \E i \in 1..(Len(w) + 1) : x = u[i]
    BY <1>3, <1>4 DEF Members
  <2>2. \A x : x \in Members(w) <=> \E i \in 1..Len(w) : x = w[i]
    BY <1>3 DEF Members
  <2>3. Members(u) \subseteq Members(w) \union {t}
    BY <1>5, <2>1, <2>2
  <2>4. \A i \in 1..Len(w) : i + 1 \in 1..(Len(w) + 1)
    BY <1>3
  <2>5. 1 \in 1..(Len(w) + 1)
    BY <1>3
  <2>6. t \in Members(u)
    BY <1>3, <1>4, <2>1, <2>5
  <2>7. \A i \in 1..Len(w) : w[i] \in Members(u)
    BY <1>3, <1>4, <2>1, <2>4
  <2>8. Members(w) \union {t} \subseteq Members(u)
    BY <2>2, <2>6, <2>7
  <2> QED
    BY <2>3, <2>8
<1>7. Distinct(u)
  <2> SUFFICES ASSUME NEW i \in 1..(Len(w) + 1), NEW j \in 1..(Len(w) + 1), u[i] = u[j]
               PROVE  i = j
    BY <1>3, <1>4 DEF Distinct
  <2>1. \A k \in 1..Len(w) : w[k] # t
    BY <1>2, <1>3 DEF Members
  <2>2. \A k, l \in 1..Len(w) : w[k] = w[l] => k = l
    BY <1>2, <1>3 DEF Distinct
  <2> QED
    BY <1>3, <1>5, <2>1, <2>2
<1> QED
  BY <1>1, <1>2, <1>3, <1>4, <1>6, <1>7

-----------------------------------------------------------------------------
(* The adapter is a provider as Ingestion expects it. *)

(* The answer to threads.list: a slice of the list that starts where the   *)
(* token says, and a token that says where it stops, or none at the end.   *)
LEMMA ListFacts ==
    ASSUME GmailTypeOK, ListThreads
    PROVE  \E refs \in Seq(Threads), next \in Nat :
              /\ ReceiveThreadPage(refs, next)
              /\ listing' = Members(box) /\ UNCHANGED <<mailbox, history>>
              /\ token \in Nat /\ Len(refs) <= MaxResults
              /\ \A i \in 1..Len(refs) : token + i <= Len(box) /\ refs[i] = box[token + i]
              /\ next # NoToken =>
                    refs # <<>> /\ next = token + Len(refs) /\ next <= Len(box)
              /\ next = NoToken /\ token <= Len(box) => token + Len(refs) = Len(box)
<1> DEFINE upto == IF Len(box) < token + MaxResults THEN Len(box) ELSE token + MaxResults
<1>1. /\ box \in Seq(Threads) /\ Len(box) \in Nat /\ token \in Nat
      /\ MaxResults \in Nat /\ MaxResults >= 1
  BY PositionTokens, LettersAssumption DEF GmailTypeOK, TypeOK
<1>2. PICK next \in (IF upto < Len(box) \/ upto = token + MaxResults THEN {upto} ELSE {})
                    \union (IF upto = Len(box) THEN {NoToken} ELSE {}) :
          ReceiveThreadPage(SubSeq(box, token + 1, upto), next)
  BY DEF ListThreads
<1>3. upto \in Nat /\ upto <= Len(box) /\ upto <= token + MaxResults
  BY <1>1
<1>4. next = NoToken \/ next = upto
  BY <1>2
<1>5. next = NoToken => upto = Len(box)
  BY <1>1, <1>2, <1>3, PositionTokens
<1>6. next # NoToken => upto = token + MaxResults
  BY <1>1, <1>2
<1>7. next \in Nat
  BY <1>3, <1>4, PositionTokens
<1>8. /\ listing' = Members(box) /\ UNCHANGED <<mailbox, history>>
  BY DEF ListThreads
<1> HIDE DEF upto
<1>9. CASE token <= upto
  <2>1. PICK refs \in Seq(Threads) :
            /\ refs = SubSeq(box, token + 1, upto)
            /\ Len(refs) = upto - token
            /\ \A i \in 1..(upto - token) : refs[i] = box[token + i]
    <3>1. /\ SubSeq(box, token + 1, upto) \in Seq(Threads)
          /\ Len(SubSeq(box, token + 1, upto)) = upto - token
          /\ \A i \in 1..(upto - token) : SubSeq(box, token + 1, upto)[i] = box[token + i]
      BY <1>1, <1>3, <1>9, SliceFacts
    <3> QED
      BY <3>1
  <2>2. Len(refs) <= MaxResults /\ token + Len(refs) = upto
    BY <1>1, <1>3, <2>1
  <2>3. \A i \in 1..Len(refs) : token + i <= Len(box) /\ refs[i] = box[token + i]
    BY <1>1, <1>3, <2>1
  <2>4. next # NoToken => refs # <<>> /\ next = token + Len(refs) /\ next <= Len(box)
    <3> SUFFICES ASSUME next # NoToken
                 PROVE  refs # <<>> /\ next = token + Len(refs) /\ next <= Len(box)
      OBVIOUS
    <3>1. Len(refs) = MaxResults
      BY <1>1, <1>6, <2>1
    <3>2. Len(refs) # 0
      BY <1>1, <3>1
    <3> QED
      BY <1>3, <1>4, <2>2, <3>2
  <2>5. next = NoToken => token + Len(refs) = Len(box)
    BY <1>5, <2>2
  <2> QED
    BY <1>1, <1>2, <1>7, <1>8, <2>1, <2>2, <2>3, <2>4, <2>5
<1>10. CASE token > upto
  <2>1. SubSeq(box, token + 1, upto) = <<>>
    BY <1>1, <1>3, <1>10, SubSeqEmpty
  <2>2. next = NoToken /\ upto = Len(box)
    BY <1>1, <1>5, <1>6, <1>10
  <2>3. <<>> \in Seq(Threads) /\ Len(<<>>) = 0
    OBVIOUS
  <2>4. ReceiveThreadPage(<<>>, next)
    BY <1>2, <2>1
  <2>5. ~ token <= Len(box)
    BY <1>1, <1>10, <2>2
  <2>6. 1..0 = {} /\ 0 <= MaxResults
    BY <1>1
  <2> QED
    BY <1>1, <1>7, <1>8, <2>2, <2>3, <2>4, <2>5, <2>6
<1> QED
  BY <1>1, <1>3, <1>9, <1>10

(* What list_messages returns for a thread. *)
LEMMA SnapshotFacts ==
    ASSUME GmailTypeOK, NEW t \in Threads
    PROVE  /\ Snapshot(t) \in Seq(Mail) /\ Snapshot(t) \in Pages(Mail)
           /\ DOMAIN Snapshot(t) = 1..arrived[t] /\ arrived[t] \in 0..Len(LetterIn[t])
           /\ \A i \in 1..arrived[t] :
                 /\ i \in DOMAIN LetterIn[t] /\ LetterIn[t][i] \in Letters
                 /\ Snapshot(t)[i] = Translated(LetterIn[t][i])
<1>1. LetterIn[t] \in Seq(Letters) /\ Len(LetterIn[t]) \in Nat /\ Len(LetterIn[t]) <= MaxPage
  BY LettersAssumption, AdapterAssumption
<1>2. arrived[t] \in Nat /\ arrived[t] \in 0..Len(LetterIn[t])
  BY DEF GmailTypeOK
<1>3. \A i \in 1..arrived[t] : i \in DOMAIN LetterIn[t] /\ LetterIn[t][i] \in Letters
  BY <1>1, <1>2
<1>4. \A i \in 1..arrived[t] : Translated(LetterIn[t][i]) \in Mail
  BY <1>3, AdapterAssumption
<1>5. Snapshot(t) \in [1..arrived[t] -> Mail]
  BY <1>4 DEF Snapshot
<1>6. MaxPage \in Nat /\ arrived[t] \in 0..MaxPage
  BY <1>1, <1>2, IngestionAssumption
<1>7. Snapshot(t) \in Pages(Mail)
  BY <1>5, <1>6 DEF Pages
<1>8. Snapshot(t) \in Seq(Mail)
  BY <1>2, <1>5
<1>9. DOMAIN Snapshot(t) = 1..arrived[t]
      /\ \A i \in 1..arrived[t] : Snapshot(t)[i] = Translated(LetterIn[t][i])
  BY DEF Snapshot
<1> QED
  BY <1>2, <1>3, <1>7, <1>8, <1>9

(* The thread whose messages are awaited. *)
LEMMA HeadFacts ==
    ASSUME TypeOK, phase = "messages"
    PROVE  page # <<>> /\ page \in Seq(Threads) /\ Head(page) \in Threads
BY DEF TypeOK

(* A list of at most MaxPage elements is a page. *)
LEMMA ShortIsPage ==
    ASSUME NEW S, NEW s \in Seq(S), Len(s) <= MaxPage
    PROVE  s \in Pages(S)
<1>1. Len(s) \in 0..MaxPage
  BY IngestionAssumption
<1>2. s \in [1..Len(s) -> S]
  OBVIOUS
<1> QED
  BY <1>1, <1>2 DEF Pages

(* Every step is an answer, or leaves the loop alone. *)
LEMMA NextIsAnswer ==
    ASSUME GmailTypeOK, [GmailNext]_gmailVars
    PROVE  [Answer]_vars
<1>0. TypeOK /\ MaxPage \in Nat /\ MaxResults \in Nat
  BY IngestionAssumption, LettersAssumption DEF GmailTypeOK
<1>1. CASE ListLabels
  <2>1. PICK s \in [1..Cardinality(labels) -> labels] : ReceiveLabels(s)
    BY <1>1 DEF ListLabels
  <2>2. labels \subseteq LabelIds /\ IsFiniteSet(LabelIds)
    BY AdapterAssumption DEF GmailTypeOK
  <2>3. IsFiniteSet(labels) /\ Cardinality(labels) <= Cardinality(LabelIds)
    BY <2>2, FS_Subset
  <2>4. Cardinality(labels) \in Nat /\ Cardinality(LabelIds) \in Nat
    BY <2>2, <2>3, FS_CardinalityType
  <2>5. Cardinality(labels) \in 0..MaxPage
    BY <1>0, <2>3, <2>4, AdapterAssumption
  <2>6. s \in [1..Cardinality(labels) -> LabelIds]
    BY <2>1, <2>2
  <2>7. s \in Pages(LabelIds)
    BY <2>5, <2>6 DEF Pages
  <2> QED
    BY <2>1, <2>7 DEF Answer
<1>2. CASE ListThreads
  <2>1. PICK refs \in Seq(Threads), next \in Nat :
            /\ ReceiveThreadPage(refs, next) /\ Len(refs) <= MaxResults
            /\ next # NoToken => next <= Len(box)
    BY <1>2, ListFacts
  <2>2. refs \in Pages(Threads)
    <3>1. Len(refs) <= MaxPage
      BY <1>0, <2>1, AdapterAssumption
    <3> QED
      BY <3>1, ShortIsPage
  <2>3. Len(box) \in Nat /\ Len(box) <= Cardinality(Threads) /\ Cardinality(Threads) \in Nat
    <3>1. box \in Seq(Threads) /\ Distinct(box)
      BY DEF GmailTypeOK
    <3>2. Cardinality(Members(box)) = Len(box) /\ Members(box) \subseteq Threads
      <4>1. \A i \in DOMAIN box : box[i] \in Threads
        BY <3>1
      <4> QED
        BY <3>1, <4>1, DistinctCardinality DEF Members
    <3>3. IsFiniteSet(Threads)
      BY AdapterAssumption
    <3> QED
      BY <3>1, <3>2, <3>3, FS_Subset, FS_CardinalityType
  <2>4. next \in Continuations
    <3>1. CASE next = NoToken
      BY <3>1 DEF Continuations
    <3>2. CASE next # NoToken
      <4>1. next \in 1..Cardinality(Threads)
        BY <2>1, <2>3, <3>2, PositionTokens
      <4> QED
        BY <4>1, AdapterAssumption DEF Continuations
    <3> QED
      BY <3>1, <3>2
  <2> QED
    BY <2>1, <2>2, <2>4 DEF Answer
<1>3. CASE ListMessages
  <2>1. phase = "messages" /\ ReceiveMessagePage(Snapshot(Head(page)), NoToken)
    BY <1>3 DEF ListMessages
  <2>2. Snapshot(Head(page)) \in Pages(Mail)
    BY <1>0, <2>1, HeadFacts, SnapshotFacts
  <2> QED
    BY <2>1, <2>2 DEF Answer, Continuations
<1>4. CASE ThreadNotFound \/ RequestFails
  BY <1>4 DEF ThreadNotFound, RequestFails, Answer
<1>5. CASE Elsewhere \/ UNCHANGED gmailVars
  BY <1>5 DEF Elsewhere, Arrive, Remove, CreateLabel, Change, gmailVars
<1> QED
  BY <1>1, <1>2, <1>3, <1>4, <1>5 DEF GmailNext, Reading

(* The types of the mailbox. *)
LEMMA GmailTypes ==
    ASSUME GmailTypeOK, [GmailNext]_gmailVars
    PROVE  GmailTypeOK'
<1>1. TypeOK'
  BY NextIsAnswer, AnswerTypes DEF GmailTypeOK
<1>2. CASE ListLabels \/ ListMessages \/ ThreadNotFound
  BY <1>1, <1>2 DEF ListLabels, ListMessages, ThreadNotFound, mailbox, history, GmailTypeOK, Distinct
<1>3. CASE ListThreads
  <2>1. listing' = Members(box) /\ UNCHANGED <<mailbox, history>>
    BY <1>3 DEF ListThreads
  <2>2. Members(box) \subseteq Threads
    BY DEF GmailTypeOK, Members
  <2> QED
    BY <1>1, <2>1, <2>2 DEF mailbox, history, GmailTypeOK, Distinct
<1>4. CASE RequestFails
  BY <1>1, <1>4 DEF RequestFails, mailbox, GmailTypeOK, Distinct
<1>5. ASSUME Change
      PROVE  changes' \in 0..MaxChanges /\ disturbed' \in BOOLEAN /\ listing' \subseteq Threads
  BY <1>5, LettersAssumption DEF Change, GmailTypeOK
<1>6. ASSUME NEW t \in Threads, Arrive(t) PROVE GmailTypeOK'
  <2>1. box' \in Seq(Threads) /\ Distinct(box')
    BY <1>6, NewestFacts DEF Arrive, GmailTypeOK
  <2>2. /\ arrived' \in [Threads -> Nat]
        /\ \A u \in Threads : arrived'[u] \in 0..Len(LetterIn[u])
    <3>1. Len(LetterIn[t]) \in Nat
      BY LettersAssumption
    <3>2. arrived' = [arrived EXCEPT ![t] = arrived[t] + 1] /\ arrived[t] < Len(LetterIn[t])
      BY <1>6 DEF Arrive
    <3>3. arrived \in [Threads -> Nat] /\ \A u \in Threads : arrived[u] \in 0..Len(LetterIn[u])
      BY DEF GmailTypeOK
    <3>4. arrived[t] + 1 \in 0..Len(LetterIn[t]) /\ arrived[t] + 1 \in Nat
      BY <3>1, <3>2, <3>3
    <3> QED
      BY <3>2, <3>3, <3>4
  <2>3. UNCHANGED <<labels, removals>>
    BY <1>6 DEF Arrive
  <2> QED
    BY <1>1, <1>5, <1>6, <2>1, <2>2, <2>3 DEF Arrive, GmailTypeOK
<1>7. ASSUME NEW t \in Threads, Remove(t) PROVE GmailTypeOK'
  <2>1. box' \in Seq(Threads) /\ Distinct(box')
    BY <1>7, WithoutFacts DEF Remove, GmailTypeOK
  <2> QED
    BY <1>1, <1>5, <1>7, <2>1 DEF Remove, GmailTypeOK
<1>8. ASSUME NEW l \in LabelIds \ labels, CreateLabel(l) PROVE GmailTypeOK'
  BY <1>1, <1>5, <1>8 DEF CreateLabel, GmailTypeOK, Distinct
<1>9. CASE UNCHANGED gmailVars
  BY <1>1, <1>9 DEF gmailVars, mailbox, history, GmailTypeOK, Distinct
<1> QED
  BY <1>2, <1>3, <1>4, <1>6, <1>7, <1>8, <1>9 DEF GmailNext, Reading, Elsewhere

(* The mailbox keeps its types whatever other clients do: in particular    *)
(* its list never holds a thread twice.                                    *)
THEOREM GmailTypeCorrect == GmailSpec => []GmailTypeOK
<1>1. GmailInit => GmailTypeOK
  <2> SUFFICES ASSUME GmailInit PROVE GmailTypeOK
    OBVIOUS
  <2>1. TypeOK
    BY IngestionAssumption DEF GmailInit, Init, TypeOK, Codes
  <2>2. box \in Seq(Threads) /\ Distinct(box) /\ \A i \in DOMAIN box : LetterIn[box[i]] # <<>>
    BY MailboxAssumption DEF GmailInit
  <2>3. ASSUME NEW t \in Threads
        PROVE  arrived[t] \in Nat /\ arrived[t] \in 0..Len(LetterIn[t])
    <3>1. LetterIn[t] \in Seq(Letters) /\ Len(LetterIn[t]) \in Nat
      BY LettersAssumption
    <3>2. CASE t \in Members(box)
      <4>1. LetterIn[t] # <<>>
        BY <2>2, <3>2 DEF Members
      <4>2. Len(LetterIn[t]) >= 1
        BY <3>1, <4>1
      <4> QED
        BY <3>1, <3>2, <4>2 DEF GmailInit
    <3>3. CASE t \notin Members(box)
      BY <3>1, <3>3 DEF GmailInit
    <3> QED
      BY <3>2, <3>3
  <2>4. arrived \in [Threads -> Nat]
    BY <2>3 DEF GmailInit
  <2> QED
    <3>1. labels \subseteq LabelIds /\ changes \in 0..MaxChanges
      BY LettersAssumption DEF GmailInit
    <3> QED
      BY <2>1, <2>2, <2>3, <2>4, <3>1 DEF GmailInit, GmailTypeOK
<1>2. GmailTypeOK /\ [GmailNext]_gmailVars => GmailTypeOK'
  BY GmailTypes
<1> QED
  BY <1>1, <1>2, PTL DEF GmailSpec

(* Whatever other clients do to the mailbox, the adapter's answers are     *)
(* answers that Ingestion allows, so every theorem about Ingestion holds   *)
(* of an ingestion from Gmail.                                             *)
THEOREM GmailImplementsIngestion == GmailSpec => ImplementsIngestion
<1>1. GmailInit => Init
  BY DEF GmailInit
<1>2. GmailTypeOK /\ [GmailNext]_gmailVars => [Answer]_vars
  BY NextIsAnswer
<1> QED
  BY <1>1, <1>2, GmailTypeCorrect, PTL DEF GmailSpec, Spec, ImplementsIngestion

-----------------------------------------------------------------------------
(* Positions: how far the enumeration has come, as the tokens tell it. *)

PagingInv ==
    /\ phase = "labels" => token = 0 /\ enumerated = <<>> /\ threadTokens = {}
    /\ phase = "threads" =>
          Len(enumerated) = token /\ \A k \in threadTokens : k <= token
    /\ phase = "messages" =>
          /\ current = <<>> /\ messageTokens = {}
          /\ following # NoToken =>
                Len(enumerated) = following /\ \A k \in threadTokens : k < following

(* An answer to threads.list moves the position behind what it lists. *)
LEMMA ListPages ==
    ASSUME GmailTypeOK, PagingInv, ListThreads
    PROVE  PagingInv'
<1>1. PICK refs \in Seq(Threads), next \in Nat :
          /\ ReceiveThreadPage(refs, next)
          /\ token \in Nat
          /\ next # NoToken => refs # <<>> /\ next = token + Len(refs)
  BY ListFacts
<1>2. /\ phase = "threads" /\ enumerated' = enumerated \o refs
      /\ Advance(threads, refs, next)
  BY <1>1 DEF ReceiveThreadPage
<1>3. enumerated \in Seq(Threads) /\ threadTokens \subseteq Nat
  BY PositionTokens DEF GmailTypeOK, TypeOK
<1>4. Len(enumerated') = token + Len(refs) /\ Len(refs) \in Nat
  <2>1. Len(enumerated) = token
    BY <1>2 DEF PagingInv
  <2>2. Len(enumerated \o refs) = Len(enumerated) + Len(refs)
    BY <1>3, ConcatProperties
  <2> QED
    BY <1>2, <2>1, <2>2
<1>5. /\ following' = next /\ current' = <<>> /\ messageTokens' = {}
      /\ phase' # "labels"
      /\ phase' = "threads" => refs = <<>> /\ next # NoToken
      /\ phase' = "messages" => threadTokens' = threadTokens
  BY <1>2 DEF Advance, NextThread, NextPage
<1>6. phase' # "threads"
  BY <1>1, <1>5
<1>7. ASSUME phase' = "messages", next # NoToken
      PROVE  Len(enumerated') = next /\ \A k \in threadTokens' : k < next
  <2>1. Len(refs) > 0
    BY <1>1, <1>7
  <2>2. \A k \in threadTokens : k <= token /\ k \in Nat
    BY <1>2, <1>3 DEF PagingInv
  <2> QED
    BY <1>1, <1>4, <1>5, <1>7, <2>1, <2>2
<1> QED
  BY <1>5, <1>6, <1>7 DEF PagingInv

(* A thread read, or an error, leaves the position where it is. *)
LEMMA MessagesPage ==
    ASSUME GmailTypeOK, PagingInv, NEW msgs, ReceiveMessagePage(msgs, NoToken)
    PROVE  PagingInv'
<1>1. phase = "messages" /\ enumerated' = enumerated /\ threadTokens \subseteq Nat
  BY PositionTokens DEF ReceiveMessagePage, GmailTypeOK, TypeOK
<1>2. CASE Fail
  BY <1>2 DEF Fail, PagingInv
<1>3. CASE EndThread(current \o msgs)
  <2>1. PICK done, rest :
            \/ Advance(done, rest, following)
            \/ phase' = "bounded"
    BY <1>3 DEF EndThread
  <2>2. CASE phase' = "bounded"
    BY <2>2 DEF PagingInv
  <2>3. CASE Advance(done, rest, following)
    <3>1. /\ following' = following /\ current' = <<>> /\ messageTokens' = {}
          /\ phase' # "labels"
          /\ phase' = "messages" => threadTokens' = threadTokens
          /\ phase' = "threads" =>
                /\ following # NoToken /\ token' = following
                /\ threadTokens' = threadTokens \union {following}
      BY <2>3 DEF Advance, NextThread, NextPage
    <3>2. following # NoToken =>
              Len(enumerated) = following /\ \A k \in threadTokens : k < following
      BY <1>1 DEF PagingInv
    <3>3. ASSUME phase' = "threads"
          PROVE  Len(enumerated') = token' /\ \A k \in threadTokens' : k <= token'
      <4>1. following \in Nat
        BY PositionTokens DEF GmailTypeOK, TypeOK
      <4> QED
        <5>1. \A k \in threadTokens : k <= following
          BY <1>1, <3>1, <3>2, <3>3, <4>1
        <5>2. following <= following
          BY <4>1
        <5>3. \A k \in threadTokens' : k <= following
          BY <3>1, <3>3, <5>1, <5>2
        <5> QED
          BY <1>1, <3>1, <3>2, <3>3, <5>3
    <3> QED
      BY <1>1, <3>1, <3>2, <3>3 DEF PagingInv
  <2> QED
    BY <2>1, <2>2, <2>3
<1> QED
  BY <1>2, <1>3 DEF ReceiveMessagePage

LEMMA PagingInvariant == GmailSpec => []PagingInv
<1>1. GmailInit => PagingInv
  BY PositionTokens DEF GmailInit, Init, PagingInv
<1>2. GmailTypeOK /\ PagingInv /\ [GmailNext]_gmailVars => PagingInv'
  <2> SUFFICES ASSUME GmailTypeOK, PagingInv, [GmailNext]_gmailVars PROVE PagingInv'
    OBVIOUS
  <2>1. CASE Fail
    BY <2>1 DEF Fail, PagingInv
  <2>2. CASE ListLabels
    <3>1. PICK s : ReceiveLabels(s)
      BY <2>2 DEF ListLabels
    <3>2. CASE phase' = "threads" /\ UNCHANGED <<token, threadTokens, enumerated>>
      BY <3>1, <3>2 DEF ReceiveLabels, PagingInv
    <3> QED
      BY <2>1, <3>1, <3>2 DEF ReceiveLabels
  <2>3. CASE ListMessages
    BY <2>3, MessagesPage DEF ListMessages
  <2>4. CASE UNCHANGED vars
    BY <2>4 DEF vars, PagingInv
  <2> QED
    BY <2>1, <2>2, <2>3, <2>4, ListPages
    DEF GmailNext, Reading, ThreadNotFound, RequestFails, ProviderFails, Elsewhere,
        Arrive, Remove, CreateLabel, Change, gmailVars
<1> QED
  BY <1>1, <1>2, GmailTypeCorrect, PTL DEF GmailSpec

-----------------------------------------------------------------------------
(* Mail that arrives during the ingestion. *)

(* Without removals the mailbox keeps every thread it has listed; and when *)
(* the last page is listed, a list without a repetition is a complete one, *)
(* because it is as long as the mailbox.                                   *)
ArrivalsInv ==
    ~ removals /\ phase # "failed" =>
        /\ Members(enumerated) \subseteq Members(box)
        /\ phase \in {"messages", "complete"} /\ following = NoToken /\ Distinct(enumerated)
              => listing \subseteq Members(enumerated)

LEMMA ListMissesNothing ==
    ASSUME GmailTypeOK, PagingInv, ArrivalsInv, ListThreads
    PROVE  ArrivalsInv'
<1> SUFFICES ASSUME ~ removals', phase' # "failed"
             PROVE  /\ Members(enumerated') \subseteq Members(box')
                    /\ phase' \in {"messages", "complete"} /\ following' = NoToken
                       /\ Distinct(enumerated') => listing' \subseteq Members(enumerated')
  BY DEF ArrivalsInv
<1>1. PICK refs \in Seq(Threads), next \in Nat :
          /\ ReceiveThreadPage(refs, next)
          /\ listing' = Members(box) /\ UNCHANGED <<mailbox, history>>
          /\ token \in Nat
          /\ \A i \in 1..Len(refs) : token + i <= Len(box) /\ refs[i] = box[token + i]
          /\ next = NoToken /\ token <= Len(box) => token + Len(refs) = Len(box)
  BY ListFacts
<1>2. /\ phase = "threads" /\ enumerated' = enumerated \o refs
      /\ following' = next /\ ~ removals /\ box' = box
  BY <1>1 DEF ReceiveThreadPage, Advance, mailbox, history
<1>3. /\ box \in Seq(Threads) /\ Distinct(box) /\ enumerated \in Seq(Threads)
      /\ Len(enumerated) = token
  BY <1>2 DEF GmailTypeOK, TypeOK, PagingInv
<1>4. PICK all \in Seq(Threads) : all = enumerated'
  <2>1. enumerated \o refs \in Seq(Threads)
    BY <1>3, ConcatProperties
  <2> QED
    BY <1>2, <2>1
<1>5. /\ Len(all) = token + Len(refs) /\ Len(refs) \in Nat /\ Len(box) \in Nat
      /\ \A i \in 1..token : all[i] = enumerated[i]
      /\ \A i \in 1..Len(refs) : all[token + i] = refs[i]
  BY <1>2, <1>3, <1>4
<1>6. Members(enumerated) \subseteq Members(box)
  BY <1>2 DEF ArrivalsInv
<1>7. Members(all) \subseteq Members(box)
  <2> SUFFICES ASSUME NEW i \in 1..Len(all) PROVE all[i] \in Members(box)
    BY DEF Members
  <2>1. CASE i <= token
    <3>1. i \in 1..token /\ all[i] = enumerated[i] /\ i \in DOMAIN enumerated
      BY <1>3, <1>5, <2>1
    <3>2. enumerated[i] \in Members(enumerated)
      BY <3>1 DEF Members
    <3> QED
      BY <1>6, <3>1, <3>2
  <2>2. CASE i > token
    <3>1. i - token \in 1..Len(refs) /\ token + (i - token) = i
      BY <1>1, <1>5, <2>2
    <3>2. all[i] = box[i] /\ i <= Len(box)
      BY <1>1, <1>5, <3>1
    <3>3. i \in DOMAIN box
      BY <1>3, <3>2
    <3> QED
      BY <3>2, <3>3 DEF Members
  <2> QED
    BY <1>1, <2>1, <2>2
<1>8. ASSUME next = NoToken, Distinct(all) PROVE Members(box) \subseteq Members(all)
  <2>1. Distinct(enumerated)
    <3>1. DOMAIN enumerated = 1..token /\ DOMAIN all = 1..(token + Len(refs))
      BY <1>3, <1>5
    <3>2. \A i \in 1..token : i \in 1..(token + Len(refs))
      BY <1>1, <1>5
    <3> QED
      BY <1>5, <1>8, <3>1, <3>2 DEF Distinct
  <2>2. /\ IsFiniteSet(Members(box)) /\ Cardinality(Members(box)) = Len(box)
        /\ IsFiniteSet(Members(all)) /\ Cardinality(Members(all)) = Len(all)
        /\ Cardinality(Members(enumerated)) = token
    BY <1>3, <1>8, <2>1, DistinctCardinality
  <2>3. token <= Len(box)
    <3>1. Cardinality(Members(enumerated)) <= Cardinality(Members(box))
      BY <1>6, <2>2, FS_Subset
    <3> QED
      BY <2>2, <3>1
  <2>4. Len(all) = Len(box)
    BY <1>1, <1>5, <1>8, <2>3
  <2>5. Members(all) = Members(box)
    <3>1. Cardinality(Members(box)) = Cardinality(Members(all))
      BY <2>2, <2>4
    <3> QED
      BY <1>7, <2>2, <3>1, FS_Subset
  <2> QED
    BY <2>5
<1> QED
  BY <1>1, <1>2, <1>4, <1>7, <1>8

LEMMA ArrivalsInvariant == GmailSpec => []ArrivalsInv
<1>1. GmailInit => ArrivalsInv
  <2>1. Members(<<>>) = {}
    BY DEF Members
  <2> QED
    BY <2>1 DEF GmailInit, Init, ArrivalsInv
<1>2. GmailTypeOK /\ PagingInv /\ ArrivalsInv /\ [GmailNext]_gmailVars => ArrivalsInv'
  <2> SUFFICES ASSUME GmailTypeOK, PagingInv, ArrivalsInv, [GmailNext]_gmailVars
               PROVE  ArrivalsInv'
    OBVIOUS
  <2>1. CASE Fail
    BY <2>1 DEF Fail, ArrivalsInv
  <2>2. CASE ListLabels
    <3>1. PICK s : ReceiveLabels(s)
      BY <2>2 DEF ListLabels
    <3>2. CASE phase' = "threads"
      BY <2>2, <3>1, <3>2 DEF ListLabels, ReceiveLabels, mailbox, history, ArrivalsInv
    <3> QED
      BY <2>1, <3>1, <3>2 DEF ReceiveLabels
  <2>3. CASE ListMessages
    <3>1. /\ ReceiveMessagePage(Snapshot(Head(page)), NoToken) /\ phase = "messages"
          /\ UNCHANGED <<mailbox, history, listing, enumerated>>
      BY <2>3 DEF ListMessages, ReceiveMessagePage
    <3>2. CASE EndThread(current \o Snapshot(Head(page)))
      <4>1. PICK done, rest :
                \/ Advance(done, rest, following)
                \/ following' = following /\ phase' = "bounded"
        BY <3>2 DEF EndThread
      <4>2. following' = following
        BY <4>1 DEF Advance
      <4>3. phase # "failed" /\ UNCHANGED <<removals, box>>
        BY <3>1 DEF mailbox, history
      <4> QED
        BY <3>1, <4>2, <4>3 DEF ArrivalsInv
    <3> QED
      BY <2>1, <3>1, <3>2 DEF ReceiveMessagePage
  <2>4. ASSUME NEW t \in Threads, Arrive(t) PROVE ArrivalsInv'
    <3>1. Members(box') = Members(box) \union {t}
      BY <2>4, NewestFacts DEF Arrive, GmailTypeOK
    <3> QED
      BY <2>4, <3>1 DEF Arrive, Change, vars, ArrivalsInv, Distinct
  <2>5. ASSUME NEW t \in Threads, Remove(t) PROVE ArrivalsInv'
    BY <2>5 DEF Remove, ArrivalsInv
  <2>6. CASE UNCHANGED <<vars, box, removals, listing>>
    BY <2>6 DEF vars, ArrivalsInv
  <2> QED
    BY <2>1, <2>2, <2>3, <2>4, <2>5, <2>6, ListMissesNothing
    DEF GmailNext, Reading, ThreadNotFound, RequestFails, ProviderFails, Elsewhere,
        CreateLabel, Change, gmailVars, mailbox, history
<1> QED
  BY <1>1, <1>2, GmailTypeCorrect, PagingInvariant, PTL DEF GmailSpec

(* While nothing is removed, a result that calls itself complete holds     *)
(* every thread that the mailbox held at its last threads.list, however    *)
(* arriving mail moves the threads between the pages.                      *)
THEOREM CompleteMissesNoArrival == GmailSpec => []ArrivalsAreNotMissed
<1>1. ArrivalsInv /\ CompleteIsHonest /\ ReadOnce => ArrivalsAreNotMissed
  BY DEF ArrivalsInv, CompleteIsHonest, ReadOnce, ArrivalsAreNotMissed, ThreadIds
<1> QED
  BY <1>1, ArrivalsInvariant, GmailImplementsIngestion, ResultIsHonest, NothingIsReadTwice,
     PTL DEF ImplementsIngestion

-----------------------------------------------------------------------------
(* A mailbox at rest. *)

RestInv ==
    ~ disturbed =>
        /\ phase # "failed"
        /\ Len(enumerated) <= Len(box)
        /\ \A i \in 1..Len(enumerated) : enumerated[i] = box[i]
        /\ phase \in {"messages", "complete"} /\ following = NoToken =>
              Len(enumerated) = Len(box)
        /\ \A i \in DOMAIN threads : threads[i].messages = Snapshot(box[i])

(* What has been read, and what is left of the page, are the first threads *)
(* of the mailbox.                                                         *)
LEMMA ReadFacts ==
    ASSUME GmailTypeOK, EnumerationInv, RestInv, ~ disturbed
    PROVE  /\ threads \in Seq(ReadThreads) /\ Len(threads) \in Nat /\ Len(page) \in Nat
           /\ Len(enumerated) = Len(threads) + Len(page)
           /\ Len(threads) + Len(page) <= Len(box)
           /\ \A i \in 1..Len(threads) : threads[i].id = box[i]
           /\ \A j \in 1..Len(page) : page[j] = box[Len(threads) + j]
<1>1. threads \in Seq(ReadThreads) /\ page \in Seq(Threads)
  BY DEF GmailTypeOK, TypeOK
<1>2. enumerated = IdsOf(threads) \o page
  BY DEF EnumerationInv, NothingSkipped, RestInv
<1>3. PICK ids \in Seq(Threads) : ids = IdsOf(threads) /\ Len(ids) = Len(threads)
  BY <1>1, IdsAreThreads
<1>4. Len(threads) \in Nat /\ Len(page) \in Nat
  BY <1>1
<1>5. /\ Len(enumerated) = Len(ids) + Len(page)
      /\ \A i \in 1..(Len(ids) + Len(page)) :
            enumerated[i] = IF i <= Len(ids) THEN ids[i] ELSE page[i - Len(ids)]
  <2>1. /\ Len(ids \o page) = Len(ids) + Len(page)
        /\ \A i \in 1..(Len(ids) + Len(page)) :
              (ids \o page)[i] = IF i <= Len(ids) THEN ids[i] ELSE page[i - Len(ids)]
    <3>1. ids \in Seq(Threads) /\ page \in Seq(Threads)
      BY <1>1, <1>3
    <3> QED
      BY <3>1, ConcatProperties
  <2> QED
    BY <1>2, <1>3, <2>1, Zenon
<1>6. \A i \in 1..Len(enumerated) : enumerated[i] = box[i]
  BY DEF RestInv
<1>7. Len(enumerated) <= Len(box)
  BY DEF RestInv
<1>8. ASSUME NEW i \in 1..Len(threads) PROVE threads[i].id = box[i]
  <2>1. ids[i] = threads[i].id
    BY <1>3 DEF IdsOf
  <2>2. i \in 1..(Len(ids) + Len(page)) /\ i <= Len(ids)
    BY <1>3, <1>4
  <2> QED
    BY <1>5, <1>6, <2>1, <2>2
<1>9. ASSUME NEW j \in 1..Len(page) PROVE page[j] = box[Len(threads) + j]
  <2>1. /\ Len(threads) + j \in 1..(Len(ids) + Len(page))
        /\ ~ Len(threads) + j <= Len(ids) /\ (Len(threads) + j) - Len(ids) = j
    BY <1>3, <1>4
  <2> QED
    BY <1>5, <1>6, <2>1
<1> QED
  BY <1>1, <1>3, <1>4, <1>5, <1>7, <1>8, <1>9

(* The next thread of the mailbox is a new one. *)
LEMMA NextIsNew ==
    ASSUME box \in Seq(Threads), Distinct(box),
           NEW done \in Seq(ReadThreads), NEW n \in Nat, n = Len(done), n + 1 <= Len(box),
           \A i \in 1..n : done[i].id = box[i]
    PROVE  box[n + 1] \notin ThreadIds(done)
<1> SUFFICES ASSUME NEW i \in 1..n, box[n + 1] = IdsOf(done)[i]
             PROVE  FALSE
  <2>1. DOMAIN IdsOf(done) = 1..n
    BY DEF IdsOf
  <2> QED
    BY <2>1, Zenon DEF ThreadIds, Members
<1>1. IdsOf(done)[i] = done[i].id
  BY DEF IdsOf
<1>2. i \in DOMAIN box /\ n + 1 \in DOMAIN box
  BY LenProperties
<1>3. box[n + 1] = box[i]
  BY <1>1
<1>4. i = n + 1
  BY <1>2, <1>3 DEF Distinct
<1> QED
  BY <1>4

LEMMA ListRests ==
    ASSUME GmailTypeOK, PagingInv, EnumerationInv, RestInv, ListThreads
    PROVE  RestInv'
<1> SUFFICES ASSUME ~ disturbed
             PROVE  /\ phase' # "failed"
                    /\ Len(enumerated') <= Len(box')
                    /\ \A i \in 1..Len(enumerated') : enumerated'[i] = box'[i]
                    /\ phase' \in {"messages", "complete"} /\ following' = NoToken =>
                          Len(enumerated') = Len(box')
                    /\ \A i \in DOMAIN threads' : threads'[i].messages = Snapshot(box[i])'
  BY DEF RestInv, ListThreads, history
<1>1. PICK refs \in Seq(Threads), next \in Nat :
          /\ ReceiveThreadPage(refs, next)
          /\ UNCHANGED <<mailbox, history>>
          /\ token \in Nat
          /\ \A i \in 1..Len(refs) : token + i <= Len(box) /\ refs[i] = box[token + i]
          /\ next # NoToken =>
                refs # <<>> /\ next = token + Len(refs) /\ next <= Len(box)
          /\ next = NoToken /\ token <= Len(box) => token + Len(refs) = Len(box)
  BY ListFacts
<1>2. /\ phase = "threads" /\ enumerated' = enumerated \o refs
      /\ following' = next /\ box' = box /\ arrived' = arrived /\ threads' = threads
      /\ Advance(threads, refs, next)
  BY <1>1 DEF ReceiveThreadPage, Advance, mailbox
<1>3. /\ box \in Seq(Threads) /\ Distinct(box) /\ enumerated \in Seq(Threads)
      /\ page = <<>> /\ Len(box) \in Nat
  BY <1>2 DEF GmailTypeOK, TypeOK, EnumerationInv, Between
<1>4. /\ Len(enumerated) = token /\ token <= Len(box)
      /\ \A i \in 1..token : enumerated[i] = box[i]
  BY <1>2 DEF PagingInv, RestInv
<1>5. Len(refs) \in Nat /\ token + Len(refs) <= Len(box)
  <2>1. Len(refs) \in Nat
    OBVIOUS
  <2>2. CASE Len(refs) = 0
    BY <1>1, <1>4, <2>2
  <2>3. CASE Len(refs) # 0
    <3>1. Len(refs) \in 1..Len(refs)
      BY <2>1, <2>3
    <3> QED
      BY <1>1, <2>1, <3>1
  <2> QED
    BY <2>1, <2>2, <2>3
<1>6. /\ Len(enumerated') = token + Len(refs)
      /\ \A i \in 1..(token + Len(refs)) : enumerated'[i] = box[i]
  <2>1. /\ Len(enumerated \o refs) = token + Len(refs)
        /\ \A i \in 1..(token + Len(refs)) : (enumerated \o refs)[i] =
              IF i <= token THEN enumerated[i] ELSE refs[i - token]
    <3>1. /\ Len(enumerated \o refs) = Len(enumerated) + Len(refs)
          /\ \A i \in 1..(Len(enumerated) + Len(refs)) : (enumerated \o refs)[i] =
              IF i <= Len(enumerated) THEN enumerated[i] ELSE refs[i - Len(enumerated)]
      BY <1>3, ConcatProperties
    <3> QED
      BY <1>4, <3>1, Zenon
  <2>2. ASSUME NEW i \in 1..(token + Len(refs)) PROVE (enumerated \o refs)[i] = box[i]
    <3>1. CASE i <= token
      <4>1. i \in 1..token
        BY <1>1, <3>1
      <4> QED
        BY <1>4, <2>1, <3>1, <4>1
    <3>2. CASE ~ i <= token
      <4>1. i - token \in 1..Len(refs) /\ token + (i - token) = i
        BY <1>1, <1>5, <3>2
      <4> QED
        BY <1>1, <2>1, <3>2, <4>1
    <3> QED
      BY <3>1, <3>2
  <2> QED
    BY <1>2, <2>1, <2>2
<1>7. phase' # "failed"
  <2>1. CASE refs = <<>>
    <3>1. phase' = "complete"
      BY <1>1, <1>2, <2>1 DEF Advance
    <3> QED
      BY <3>1
  <2>2. CASE refs # <<>>
    <3>1. Len(refs) >= 1 /\ Head(refs) = refs[1]
      BY <2>2
    <3>2. 1 \in 1..Len(refs)
      BY <1>5, <3>1
    <3>3. Head(refs) = box[token + 1] /\ token + 1 <= Len(box)
      BY <1>1, <3>1, <3>2
    <3>4. /\ threads \in Seq(ReadThreads) /\ Len(threads) = token
          /\ \A i \in 1..Len(threads) : threads[i].id = box[i]
      <4>1. Len(page) = 0
        BY <1>3
      <4> QED
        BY <1>4, <4>1, ReadFacts
    <3>5. Head(refs) \notin ThreadIds(threads)
      BY <1>1, <1>3, <3>3, <3>4, NextIsNew
    <3> QED
      BY <1>2, <2>2, <3>5 DEF Advance, NextThread
  <2> QED
    BY <2>1, <2>2
<1>8. \A i \in DOMAIN threads' : threads'[i].messages = Snapshot(box[i])'
  BY <1>2 DEF RestInv, Snapshot
<1>9. next = NoToken => Len(enumerated') = Len(box)
  BY <1>1, <1>4, <1>6
<1> QED
  BY <1>2, <1>5, <1>6, <1>7, <1>8, <1>9

LEMMA TranslatedFacts ==
    ASSUME NEW l \in Letters
    PROVE  /\ Translated(l).id = l.id
           /\ Translated(l).attached => Translated(l).flagged
BY LettersAssumption DEF Translated

(* The letters of a thread that was not read before. *)
LEMMA SnapshotAccepted ==
    ASSUME GmailTypeOK, PagingInv, EnumerationInv, RestInv, ~ disturbed, phase = "messages"
    PROVE  /\ Head(page) = box[Len(threads) + 1] /\ Head(page) \in Members(box)
           /\ Len(threads) + 1 <= Len(box)
           /\ ~ Rejected(Snapshot(Head(page)))
<1> DEFINE n == Len(threads)
           t == Head(page)
<1>1. page # <<>> /\ page \in Seq(Threads) /\ t \in Threads /\ t = page[1] /\ Len(page) >= 1
  BY HeadFacts DEF GmailTypeOK
<1>2. /\ n \in Nat /\ n + 1 <= Len(box) /\ t = box[n + 1] /\ threads \in Seq(ReadThreads)
      /\ DOMAIN threads = 1..n
  <2>1. n \in Nat /\ Len(page) \in Nat /\ n + Len(page) <= Len(box)
        /\ \A j \in 1..Len(page) : page[j] = box[n + j]
        /\ threads \in Seq(ReadThreads)
    BY ReadFacts
  <2>2. 1 \in 1..Len(page)
    BY <1>1, <2>1
  <2>3. Len(box) \in Nat
    BY DEF GmailTypeOK
  <2> QED
    BY <1>1, <2>1, <2>2, <2>3
<1>3. box \in Seq(Threads) /\ DOMAIN box = 1..Len(box) /\ Len(box) \in Nat
  BY DEF GmailTypeOK
<1>4. n + 1 \in DOMAIN box
  BY <1>2, <1>3
<1>5. t \in Members(box)
  BY <1>2, <1>4 DEF Members
<1> HIDE DEF t, n
<1>6. /\ DOMAIN Snapshot(t) = 1..arrived[t]
      /\ \A i \in 1..arrived[t] :
            /\ i \in DOMAIN LetterIn[t] /\ LetterIn[t][i] \in Letters
            /\ Snapshot(t)[i] = Translated(LetterIn[t][i])
  BY <1>1, SnapshotFacts
<1>7. DOMAIN IdsOf(Snapshot(t)) = 1..arrived[t]
      /\ \A i \in 1..arrived[t] : IdsOf(Snapshot(t))[i] = LetterIn[t][i].id
  BY <1>6, TranslatedFacts DEF IdsOf
<1>8. Distinct(IdsOf(Snapshot(t)))
  BY <1>1, <1>6, <1>7, MailboxAssumption DEF Distinct
<1>9. ASSUME NEW k \in 1..n, NEW i \in 1..arrived[t],
             LetterIn[t][i].id \in Members(IdsOf(threads[k].messages))
      PROVE  FALSE
  <2>1. k \in DOMAIN box /\ box[k] \in Threads
    BY <1>2, <1>3
  <2>2. threads[k].messages = Snapshot(box[k])
    BY <1>2 DEF RestInv
  <2>3. /\ DOMAIN Snapshot(box[k]) = 1..arrived[box[k]]
        /\ \A j \in 1..arrived[box[k]] :
              /\ j \in DOMAIN LetterIn[box[k]]
              /\ Snapshot(box[k])[j] = Translated(LetterIn[box[k]][j])
    BY <2>1, SnapshotFacts
  <2>4. PICK j \in DOMAIN LetterIn[box[k]] : LetterIn[t][i].id = LetterIn[box[k]][j].id
    <3>1. DOMAIN IdsOf(Snapshot(box[k])) = 1..arrived[box[k]]
          /\ \A j \in 1..arrived[box[k]] : IdsOf(Snapshot(box[k]))[j] = Snapshot(box[k])[j].id
      BY <2>3 DEF IdsOf
    <3>2. PICK j \in 1..arrived[box[k]] : LetterIn[t][i].id = Snapshot(box[k])[j].id
      BY <1>9, <2>2, <3>1 DEF Members
    <3>3. j \in DOMAIN LetterIn[box[k]] /\ LetterIn[box[k]][j] \in Letters
      BY <2>1, SnapshotFacts
    <3> QED
      BY <2>3, <3>2, <3>3, TranslatedFacts
  <2>5. t = box[k]
    BY <1>1, <1>6, <2>1, <2>4, MailboxAssumption
  <2>6. k = n + 1
    BY <1>2, <1>4, <2>1, <2>5 DEF GmailTypeOK, Distinct
  <2> QED
    BY <1>2, <2>6
<1>10. Members(IdsOf(Snapshot(t))) \intersect MessageIds = {}
  <2>1. Members(IdsOf(current)) = {}
    BY IdsOfNothing DEF PagingInv
  <2>2. \A x \in Members(IdsOf(Snapshot(t))) : \E i \in 1..arrived[t] : x = LetterIn[t][i].id
    BY <1>7 DEF Members
  <2>3. \A k \in 1..n :
            Members(IdsOf(Snapshot(t))) \intersect Members(IdsOf(threads[k].messages)) = {}
    BY <1>9, <2>2
  <2> QED
    BY <1>2, <2>1, <2>3 DEF MessageIds
<1>11. ~ \E m \in Members(Snapshot(t)) : m.attached /\ ~ m.flagged
  <2> SUFFICES ASSUME NEW i \in 1..arrived[t],
                      Snapshot(t)[i].attached, ~ Snapshot(t)[i].flagged
               PROVE  FALSE
    BY <1>6 DEF Members
  <2> QED
    BY <1>6, TranslatedFacts
<1> QED
  BY <1>2, <1>5, <1>8, <1>10, <1>11 DEF Rejected, t, n

LEMMA MessagesRest ==
    ASSUME GmailTypeOK, PagingInv, EnumerationInv, RestInv, ListMessages
    PROVE  RestInv'
<1>1. /\ phase = "messages" /\ ReceiveMessagePage(Snapshot(Head(page)), NoToken)
      /\ UNCHANGED <<box, arrived, disturbed, enumerated>>
  BY DEF ListMessages, ReceiveMessagePage, mailbox, history
<1> SUFFICES ASSUME ~ disturbed
             PROVE  /\ phase' # "failed"
                    /\ phase' \in {"messages", "complete"} /\ following' = NoToken =>
                          Len(enumerated) = Len(box)
                    /\ \A i \in DOMAIN threads' : threads'[i].messages = Snapshot(box[i])
  BY <1>1 DEF RestInv, Snapshot
<1> DEFINE t == Head(page)
           n == Len(threads)
<1>2. /\ t = box[n + 1] /\ n + 1 <= Len(box) /\ ~ Rejected(Snapshot(t))
  BY <1>1, SnapshotAccepted
<1>3. NoToken \notin messageTokens
  BY <1>1 DEF PagingInv
<1>4. current \o Snapshot(t) = Snapshot(t)
  <2>1. t \in Threads /\ current = <<>>
    BY <1>1, HeadFacts DEF GmailTypeOK, PagingInv
  <2>2. Snapshot(t) \in Seq(Mail)
    BY <2>1, SnapshotFacts
  <2> HIDE DEF t
  <2> QED
    BY <2>1, <2>2, ConcatEmptySeq
<1>5. EndThread(Snapshot(t))
  BY <1>1, <1>2, <1>3, <1>4 DEF ReceiveMessagePage
<1>6. page # <<>> /\ page \in Seq(Threads) /\ t \in Threads
  BY <1>1, HeadFacts DEF GmailTypeOK
<1>7. Snapshot(t) \in Seq(Mail)
  BY <1>6, SnapshotFacts
<1>8. /\ Read(Snapshot(t)) \in ReadThreads
      /\ threads' = Append(threads, Read(Snapshot(t))) /\ threads' \in Seq(ReadThreads)
      /\ following' = following
  <2> HIDE DEF t
  <2> QED
    BY <1>5, <1>6, <1>7, EndThreadTypes DEF GmailTypeOK
<1>9. Read(Snapshot(t)).id = t /\ Read(Snapshot(t)).messages = Snapshot(t)
  BY DEF Read
<1>10. /\ threads \in Seq(ReadThreads) /\ n \in Nat /\ Len(page) \in Nat
       /\ n + Len(page) <= Len(box)
       /\ \A i \in 1..n : threads[i].id = box[i]
       /\ \A j \in 1..Len(page) : page[j] = box[n + j]
  BY ReadFacts
<1>11. PICK done \in Seq(ReadThreads) : done = threads'
  BY <1>8
<1>12. /\ Len(done) = n + 1 /\ DOMAIN done = 1..(n + 1)
       /\ \A i \in 1..n : done[i] = threads[i]
       /\ done[n + 1] = Read(Snapshot(t))
  <2> HIDE DEF t
  <2> QED
    BY <1>8, <1>10, <1>11
<1> HIDE DEF t, n
<1>13. \A i \in 1..(n + 1) : done[i].id = box[i] /\ done[i].messages = Snapshot(box[i])
  <2> SUFFICES ASSUME NEW i \in 1..(n + 1)
               PROVE  done[i].id = box[i] /\ done[i].messages = Snapshot(box[i])
    OBVIOUS
  <2>1. CASE i \in 1..n
    <3>1. threads[i].messages = Snapshot(box[i])
      BY <1>10, <2>1 DEF RestInv, n
    <3> QED
      BY <1>10, <1>12, <2>1, <3>1
  <2>2. CASE i = n + 1
    BY <1>2, <1>9, <1>12, <2>2
  <2> QED
    BY <1>10, <2>1, <2>2
<1>14. phase' # "failed"
  <2>1. PICK rest \in Seq(Threads) : rest = Tail(page)
    BY <1>6, HeadTailProperties
  <2>2. \/ phase' = "bounded"
        \/ Advance(done, rest, following)
    BY <1>5, <1>11, <2>1 DEF EndThread
  <2>3. rest # <<>> => Head(rest) = box[n + 2] /\ n + 2 <= Len(box)
    <3> SUFFICES ASSUME rest # <<>> PROVE Head(rest) = box[n + 2] /\ n + 2 <= Len(box)
      OBVIOUS
    <3>1. Head(rest) = page[2] /\ 2 <= Len(page)
      BY <1>6, <2>1
    <3>2. 2 \in 1..Len(page) /\ Len(box) \in Nat
      BY <1>10, <3>1 DEF GmailTypeOK
    <3> QED
      BY <1>10, <3>1, <3>2
  <2>4. rest # <<>> => Head(rest) \notin ThreadIds(done)
    <3> SUFFICES ASSUME rest # <<>> PROVE Head(rest) \notin ThreadIds(done)
      OBVIOUS
    <3>1. n + 1 \in Nat /\ (n + 1) + 1 = n + 2
      BY <1>10
    <3>2. box \in Seq(Threads) /\ Distinct(box)
      BY DEF GmailTypeOK
    <3>3. box[(n + 1) + 1] \notin ThreadIds(done)
      BY <1>12, <1>13, <2>3, <3>1, <3>2, NextIsNew
    <3> QED
      BY <2>3, <3>1, <3>3
  <2>5. following # NoToken => following \notin threadTokens
    <3>1. \A k \in threadTokens : k \in Nat
      BY PositionTokens DEF GmailTypeOK, TypeOK
    <3>2. following # NoToken => \A k \in threadTokens : k < following
      BY <1>1 DEF PagingInv
    <3> QED
      BY <3>1, <3>2
  <2> QED
    BY <2>2, <2>4, <2>5 DEF Advance, NextThread, NextPage
<1>15. following = NoToken => Len(enumerated) = Len(box)
  BY <1>1 DEF RestInv
<1> QED
  BY <1>8, <1>11, <1>12, <1>13, <1>14, <1>15

LEMMA RestInvariant == GmailSpec => []RestInv
<1>1. GmailInit => RestInv
  <2> SUFFICES ASSUME GmailInit PROVE RestInv
    OBVIOUS
  <2>1. box \in Seq(Threads) /\ Len(box) \in Nat
    BY MailboxAssumption DEF GmailInit
  <2> QED
    BY <2>1 DEF GmailInit, Init, RestInv
<1>2. GmailTypeOK /\ PagingInv /\ EnumerationInv /\ RestInv /\ [GmailNext]_gmailVars => RestInv'
  <2> SUFFICES ASSUME GmailTypeOK, PagingInv, EnumerationInv, RestInv, [GmailNext]_gmailVars
               PROVE  RestInv'
    OBVIOUS
  <2>1. CASE ListLabels
    <3>1. PICK s : Distinct(s) /\ ReceiveLabels(s)
      BY <2>1 DEF ListLabels
    <3>2. /\ phase' = "threads" /\ phase = "labels"
          /\ UNCHANGED <<threads, enumerated, box, arrived, disturbed>>
      BY <2>1, <3>1 DEF ListLabels, ReceiveLabels, mailbox, history
    <3> QED
      BY <3>2 DEF RestInv, Snapshot
  <2>2. CASE ThreadNotFound
    <3>1. disturbed
      BY <2>2, SnapshotAccepted DEF ThreadNotFound
    <3> QED
      BY <2>2, <3>1 DEF ThreadNotFound, history, RestInv
  <2>3. CASE RequestFails \/ Elsewhere
    BY <2>3 DEF RequestFails, Elsewhere, Arrive, Remove, CreateLabel, Change, RestInv
  <2>4. CASE UNCHANGED gmailVars
    BY <2>4 DEF gmailVars, vars, mailbox, history, RestInv, Snapshot
  <2> QED
    BY <2>1, <2>2, <2>3, <2>4, ListRests, MessagesRest DEF GmailNext, Reading
<1>3. GmailSpec => []EnumerationInv
  BY GmailImplementsIngestion, EnumerationInvariant, PTL DEF ImplementsIngestion
<1> QED
  BY <1>1, <1>2, <1>3, GmailTypeCorrect, PagingInvariant, PTL DEF GmailSpec

(* A mailbox that nobody changes, read without a failed request, is read   *)
(* exactly: its threads in its order, each with all its letters, and to    *)
(* the end if the result says complete. The duplicate checks never fire.   *)
THEOREM RestingMailboxIsExact == GmailSpec => []RestingMailboxIsReadExactly
<1>1. GmailTypeOK /\ EnumerationInv /\ RestInv => RestingMailboxIsReadExactly
  <2> SUFFICES ASSUME GmailTypeOK, EnumerationInv, RestInv, ~ disturbed
               PROVE  /\ phase # "failed"
                      /\ \A i \in DOMAIN threads :
                            threads[i].id = box[i] /\ threads[i].messages = Snapshot(box[i])
                      /\ phase = "complete" => Len(threads) = Len(box)
    BY DEF RestingMailboxIsReadExactly
  <2>1. /\ threads \in Seq(ReadThreads) /\ Len(threads) \in Nat
        /\ Len(enumerated) = Len(threads) + Len(page)
        /\ \A i \in 1..Len(threads) : threads[i].id = box[i]
    BY ReadFacts
  <2>2. phase = "complete" => Len(threads) = Len(box)
    <3>1. phase = "complete" => page = <<>> /\ following = NoToken
      BY DEF EnumerationInv, Between, CompleteIsHonest
    <3>2. Len(<<>>) = 0
      OBVIOUS
    <3> QED
      BY <2>1, <3>1, <3>2 DEF RestInv
  <2> QED
    BY <2>1, <2>2 DEF RestInv
<1>2. GmailSpec => []EnumerationInv
  BY GmailImplementsIngestion, EnumerationInvariant, PTL DEF ImplementsIngestion
<1> QED
  BY <1>1, <1>2, GmailTypeCorrect, RestInvariant, PTL
=============================================================================
