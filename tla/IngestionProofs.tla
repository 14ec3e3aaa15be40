-------------------------- MODULE IngestionProofs --------------------------
(***************************************************************************)
(* Proofs about Ingestion, for every provider: every set of threads,       *)
(* messages and tokens, every page length and every max_threads.           *)
(***************************************************************************)
EXTENDS Ingestion, SequenceTheorems, TLAPS

-----------------------------------------------------------------------------
(* Types. *)

(* A page is a sequence. *)
LEMMA PagesAreSequences ==
    ASSUME NEW S, NEW s \in Pages(S)
    PROVE  s \in Seq(S)
<1>1. PICK n \in 0..MaxPage : s \in [1..n -> S]
  BY DEF Pages
<1>2. n \in Nat
  BY IngestionAssumption
<1> QED
  BY <1>1, <1>2

(* The heads of the two loops keep the types. *)
LEMMA AdvanceTypes ==
    ASSUME TypeOK,
           NEW done \in Seq(ReadThreads), NEW rest \in Seq(Threads),
           NEW next \in Continuations,
           Advance(done, rest, next)
    PROVE  /\ phase' \in {"threads", "messages"} \union Ended
           /\ token' \in Continuations
           /\ page' = rest /\ following' = next
           /\ phase' = "messages" => page' # <<>>
           /\ threadTokens' \subseteq Tokens
           /\ messageTokens' \subseteq Tokens
           /\ current' = <<>>
<1>1. page' = rest /\ following' = next /\ messageTokens' = {} /\ current' = <<>>
  BY DEF Advance
<1>2. CASE rest # <<>> /\ NextThread(done, rest)
  BY <1>1, <1>2 DEF NextThread, TypeOK, Ended, Continuations
<1>3. CASE rest = <<>> /\ next # NoToken /\ NextPage(next)
  BY <1>1, <1>3 DEF NextPage, TypeOK, Ended, Continuations
<1>4. CASE /\ rest = <<>> /\ next = NoToken
           /\ phase' = "complete"
           /\ UNCHANGED <<token, threadTokens>>
  BY <1>1, <1>4 DEF TypeOK, Ended, Continuations
<1> QED
  BY <1>2, <1>3, <1>4 DEF Advance

(* So does an error, *)
LEMMA FailTypes ==
    ASSUME TypeOK, Fail, UNCHANGED enumerated
    PROVE  TypeOK'
BY DEF Fail, TypeOK, Ended

(* the label catalog, *)
LEMMA LabelsTypes ==
    ASSUME TypeOK, NEW labels \in Seq(LabelIds), ReceiveLabels(labels)
    PROVE  TypeOK'
<1>1. UNCHANGED enumerated
  BY DEF ReceiveLabels
<1>2. CASE Fail
  BY <1>1, <1>2, FailTypes
<1>3. CASE /\ catalog' = Members(labels)
           /\ phase' = "threads"
           /\ UNCHANGED <<bound, token, page, following, threadTokens,
                          messageTokens, current, threads, limitations>>
  <2>1. Members(labels) \subseteq LabelIds
    BY DEF Members
  <2> QED
    BY <1>1, <1>3, <2>1 DEF TypeOK
<1> QED
  BY <1>2, <1>3 DEF ReceiveLabels

(* a thread page, *)
LEMMA ThreadPageTypes ==
    ASSUME TypeOK, NEW refs \in Seq(Threads), NEW next \in Continuations,
           ReceiveThreadPage(refs, next)
    PROVE  TypeOK'
<1>1. Advance(threads, refs, next) /\ enumerated' = enumerated \o refs
  BY DEF ReceiveThreadPage
<1>2. UNCHANGED <<bound, catalog, threads, limitations>>
  BY DEF ReceiveThreadPage
<1>3. threads \in Seq(ReadThreads)
  BY DEF TypeOK
<1>4. enumerated' \in Seq(Threads)
  BY <1>1 DEF TypeOK
<1>5. <<>> \in Seq(Mail)
  OBVIOUS
<1> QED
  BY <1>1, <1>2, <1>3, <1>4, <1>5, AdvanceTypes DEF TypeOK, Continuations

(* What EndThread appends. *)
Read(msgs) == [id |-> Head(page), messages |-> msgs]

(* the end of a thread, *)
LEMMA EndThreadTypes ==
    ASSUME TypeOK, page # <<>>, NEW msgs \in Seq(Mail), EndThread(msgs)
    PROVE  /\ Read(msgs) \in ReadThreads
           /\ threads' = Append(threads, Read(msgs)) /\ threads' \in Seq(ReadThreads)
           /\ page' = Tail(page) /\ page' \in Seq(Threads)
           /\ phase' \in {"threads", "messages"} \union Ended
           /\ token' \in Continuations /\ following' = following
           /\ phase' = "messages" => page' # <<>>
           /\ threadTokens' \subseteq Tokens
           /\ messageTokens' \subseteq Tokens
           /\ current' = <<>>
<1> DEFINE done == Append(threads, Read(msgs))
           rest == Tail(page)
<1>1. Read(msgs) \in ReadThreads /\ rest \in Seq(Threads)
  BY DEF TypeOK, Read, ReadThreads
<1>2. done \in Seq(ReadThreads) /\ following \in Continuations
  BY <1>1 DEF TypeOK, Continuations
<1>3. threads' = done
  BY DEF EndThread, Read
<1>4. CASE ~ Stops(done, rest) /\ Advance(done, rest, following)
  <2> HIDE DEF done, rest
  <2> QED
    BY <1>1, <1>2, <1>3, <1>4, AdvanceTypes DEF done, rest
<1>5. CASE /\ Stops(done, rest)
           /\ phase' = "bounded" /\ page' = rest /\ messageTokens' = {} /\ current' = <<>>
           /\ UNCHANGED <<token, following, threadTokens>>
  BY <1>1, <1>2, <1>3, <1>5 DEF TypeOK, Ended, Continuations
<1> QED
  BY <1>4, <1>5 DEF EndThread, Read

(* and a message page. *)
LEMMA MessagePageTypes ==
    ASSUME TypeOK, NEW msgs \in Seq(Mail), NEW next \in Continuations,
           ReceiveMessagePage(msgs, next)
    PROVE  TypeOK'
<1>1. UNCHANGED enumerated /\ page # <<>>
  BY DEF ReceiveMessagePage, TypeOK
<1>2. CASE Fail
  BY <1>1, <1>2, FailTypes
<1>3. CASE ~ (Rejected(msgs) \/ next \in messageTokens)
  <2> DEFINE all == current \o msgs
  <2>1. all \in Seq(Mail)
    BY DEF TypeOK
  <2>2. UNCHANGED <<bound, catalog>>
    BY <1>3 DEF ReceiveMessagePage
  <2>3. limitations' \subseteq Codes
    BY <1>3 DEF ReceiveMessagePage, Gaps, Codes, TypeOK
  <2>4. CASE next = NoToken /\ EndThread(all)
    <3>1. /\ threads' \in Seq(ReadThreads) /\ page' \in Seq(Threads)
          /\ phase' \in {"threads", "messages"} \union Ended
          /\ token' \in Continuations /\ following' = following
          /\ phase' = "messages" => page' # <<>>
          /\ threadTokens' \subseteq Tokens /\ messageTokens' \subseteq Tokens
          /\ current' = <<>>
      <4> HIDE DEF all
      <4> QED
        BY <1>1, <2>1, <2>4, EndThreadTypes
    <3>2. current' \in Seq(Mail)
      BY <3>1
    <3> QED
      BY <1>1, <2>2, <2>3, <3>1, <3>2 DEF TypeOK, Continuations
  <2>5. CASE /\ next # NoToken
             /\ token' = next
             /\ messageTokens' = messageTokens \union {next}
             /\ current' = all
             /\ UNCHANGED <<phase, page, following, threadTokens, threads>>
    BY <1>1, <2>1, <2>2, <2>3, <2>5 DEF TypeOK, Continuations
  <2> QED
    BY <1>3, <2>4, <2>5 DEF ReceiveMessagePage
<1> QED
  BY <1>2, <1>3 DEF ReceiveMessagePage

(* Every answer keeps the types. *)
LEMMA AnswerTypes ==
    ASSUME TypeOK, [Answer]_vars
    PROVE  TypeOK'
<1>1. ASSUME NEW labels \in Pages(LabelIds), ReceiveLabels(labels)
      PROVE  TypeOK'
  BY <1>1, PagesAreSequences, LabelsTypes
<1>2. ASSUME NEW refs \in Pages(Threads), NEW next \in Continuations,
             ReceiveThreadPage(refs, next)
      PROVE  TypeOK'
  BY <1>2, PagesAreSequences, ThreadPageTypes
<1>3. ASSUME NEW msgs \in Pages(Mail), NEW next \in Continuations,
             ReceiveMessagePage(msgs, next)
      PROVE  TypeOK'
  BY <1>3, PagesAreSequences, MessagePageTypes
<1>4. ASSUME ProviderFails
      PROVE  TypeOK'
  BY <1>4, FailTypes DEF ProviderFails
<1>5. CASE UNCHANGED vars
  BY <1>5 DEF vars, TypeOK
<1> QED
  BY <1>1, <1>2, <1>3, <1>4, <1>5 DEF Answer

(* Type correctness of the ingestion loop.                                 *)
THEOREM IngestionTypeCorrect == Spec => []TypeOK
<1>1. Init => TypeOK
  BY IngestionAssumption DEF Init, TypeOK, Codes
<1>2. TypeOK /\ [Answer]_vars => TypeOK'
  BY AnswerTypes
<1> QED
  BY <1>1, <1>2, PTL DEF Spec

-----------------------------------------------------------------------------
(* The enumeration: nothing is skipped, and complete is honest. *)

(* The inductive invariant: while the loop waits for a thread page it has  *)
(* no unread thread, and while it waits for anything max_threads is not    *)
(* reached, so that the check at the head of its inner loop never fires.   *)
Between ==
    /\ phase \in {"labels", "threads", "complete"} => page = <<>>
    /\ phase = "labels" => threads = <<>> /\ enumerated = <<>>
    /\ phase \notin Ended /\ bound # 0 => Len(threads) < bound

EnumerationInv == Between /\ NothingSkipped /\ CompleteIsHonest

(* The identifiers of the threads read are threads. *)
LEMMA IdsAreThreads ==
    ASSUME NEW s \in Seq(ReadThreads)
    PROVE  IdsOf(s) \in Seq(Threads) /\ Len(IdsOf(s)) = Len(s)
<1>1. DOMAIN s = 1..Len(s) /\ Len(s) \in Nat
  OBVIOUS
<1>2. \A i \in 1..Len(s) : s[i].id \in Threads
  <2>1. \A i \in 1..Len(s) : s[i] \in ReadThreads
    BY ElementOfSeq
  <2> QED
    BY <2>1 DEF ReadThreads
<1>3. IdsOf(s) \in [1..Len(s) -> Threads]
  BY <1>1, <1>2 DEF IdsOf
<1> QED
  BY <1>1, <1>3

(* Reading a thread appends its identifier. *)
LEMMA IdsOfAppend ==
    ASSUME NEW s \in Seq(ReadThreads), NEW r \in ReadThreads
    PROVE  IdsOf(Append(s, r)) = Append(IdsOf(s), r.id)
<1>1. Append(s, r) \in Seq(ReadThreads) /\ Len(Append(s, r)) = Len(s) + 1
  OBVIOUS
<1>2. \A i \in 1..Len(s) : Append(s, r)[i] = s[i]
  OBVIOUS
<1>3. Append(s, r)[Len(s) + 1] = r
  OBVIOUS
<1>4. IdsOf(s) \in Seq(Threads) /\ Len(IdsOf(s)) = Len(s)
  BY IdsAreThreads
<1>5. IdsOf(Append(s, r)) \in Seq(Threads) /\ Len(IdsOf(Append(s, r))) = Len(s) + 1
  BY <1>1, IdsAreThreads
<1>6. r.id \in Threads
  BY DEF ReadThreads
<1>7. \A i \in 1..(Len(s) + 1) : IdsOf(Append(s, r))[i] = Append(IdsOf(s), r.id)[i]
  <2> SUFFICES ASSUME NEW i \in 1..(Len(s) + 1)
               PROVE  IdsOf(Append(s, r))[i] = Append(IdsOf(s), r.id)[i]
    OBVIOUS
  <2>1. IdsOf(Append(s, r))[i] = Append(s, r)[i].id
    BY <1>1 DEF IdsOf
  <2>2. CASE i \in 1..Len(s)
    <3>1. IdsOf(s)[i] = s[i].id
      BY <2>2 DEF IdsOf
    <3>2. Append(IdsOf(s), r.id)[i] = IdsOf(s)[i]
      BY <1>4, <1>6, <2>2
    <3> QED
      BY <1>2, <2>1, <2>2, <3>1, <3>2
  <2>3. CASE i = Len(s) + 1
    <3>1. Append(IdsOf(s), r.id)[i] = r.id
      BY <1>4, <1>6, <2>3
    <3> QED
      BY <1>3, <2>1, <2>3, <3>1
  <2>4. Len(s) \in Nat
    OBVIOUS
  <2>5. i \in 1..Len(s) \/ i = Len(s) + 1
    BY <2>4
  <2> QED
    BY <2>2, <2>3, <2>5
<1>8. Append(IdsOf(s), r.id) \in Seq(Threads) /\ Len(Append(IdsOf(s), r.id)) = Len(s) + 1
  BY <1>4, <1>6
<1> QED
  BY <1>5, <1>7, <1>8, SeqEqual

(* Moving the head of q to the end of p keeps their concatenation. *)
LEMMA MoveHead ==
    ASSUME NEW p \in Seq(Threads), NEW q \in Seq(Threads), q # <<>>
    PROVE  Append(p, Head(q)) \o Tail(q) = p \o q
<1>1. Head(q) \in Threads /\ Tail(q) \in Seq(Threads) /\ <<Head(q)>> \in Seq(Threads)
  BY HeadTailProperties
<1>2. Append(p, Head(q)) = p \o <<Head(q)>>
  BY <1>1, AppendIsConcat
<1>3. (p \o <<Head(q)>>) \o Tail(q) = p \o (<<Head(q)>> \o Tail(q))
  BY <1>1, ConcatAssociative
<1>4. <<Head(q)>> \o Tail(q) = q
  BY <1>1
<1> QED
  BY <1>2, <1>3, <1>4

(* The loop heads keep the invariant if they start from the enumeration and *)
(* below max_threads, or exactly at it with nothing left to read. *)
LEMMA AdvanceEnumerates ==
    ASSUME TypeOK,
           NEW done \in Seq(ReadThreads), NEW rest \in Seq(Threads),
           NEW next \in Continuations,
           Advance(done, rest, next),
           threads' = done, bound' = bound,
           enumerated' = IdsOf(done) \o rest,
           bound # 0 => \/ Len(done) < bound
                        \/ Len(done) <= bound /\ rest = <<>> /\ next = NoToken
    PROVE  EnumerationInv'
<1>1. page' = rest /\ following' = next
  BY DEF Advance
<1>2. Len(done) \in Nat /\ bound \in Nat
  BY IngestionAssumption DEF TypeOK
<1>3. IdsOf(done) \in Seq(Threads)
  BY IdsAreThreads
<1>4. /\ phase' \in {"messages", "threads", "complete", "failed"}
      /\ phase' = "messages" => rest # <<>>
      /\ phase' = "threads" => rest = <<>> /\ next # NoToken
      /\ phase' = "complete" => rest = <<>> /\ next = NoToken
  BY DEF Advance, NextThread, NextPage
<1>5. Between'
  BY <1>1, <1>2, <1>4 DEF Between, Ended
<1>6. NothingSkipped'
  BY <1>1 DEF NothingSkipped
<1>7. phase' = "complete" => following' = NoToken /\ enumerated' = IdsOf(threads')
  BY <1>1, <1>3, <1>4, ConcatEmptySeq
<1>8. bound' # 0 => Len(threads') <= bound'
  BY <1>2
<1>9. phase' # "bounded"
  BY <1>4
<1>10. CompleteIsHonest'
  BY <1>7, <1>8, <1>9 DEF CompleteIsHonest
<1> QED
  BY <1>5, <1>6, <1>10 DEF EnumerationInv

(* An error returns nothing, so it keeps the invariant. *)
LEMMA FailEnumerates ==
    ASSUME TypeOK, EnumerationInv, Fail, UNCHANGED enumerated
    PROVE  EnumerationInv'
<1>1. phase' = "failed" /\ UNCHANGED <<bound, page, following, threads, limitations, enumerated>>
  BY DEF Fail
<1>2. Between'
  BY <1>1 DEF Between, EnumerationInv, Ended
<1>3. CompleteIsHonest'
  BY <1>1 DEF CompleteIsHonest, EnumerationInv
<1> QED
  BY <1>1, <1>2, <1>3 DEF EnumerationInv, NothingSkipped

(* A thread page extends the enumeration and the page alike. *)
LEMMA ThreadPageEnumerates ==
    ASSUME TypeOK, EnumerationInv, NEW refs \in Seq(Threads), NEW next \in Continuations,
           ReceiveThreadPage(refs, next)
    PROVE  EnumerationInv'
<1>1. phase = "threads" /\ page = <<>>
  BY DEF ReceiveThreadPage, EnumerationInv, Between
<1>2. threads \in Seq(ReadThreads) /\ IdsOf(threads) \in Seq(Threads)
  BY IdsAreThreads DEF TypeOK
<1>3. enumerated = IdsOf(threads) \o <<>>
  BY <1>1 DEF EnumerationInv, NothingSkipped
<1>4. enumerated = IdsOf(threads)
  BY <1>2, <1>3, ConcatEmptySeq
<1>5. enumerated' = IdsOf(threads) \o refs
  BY <1>4 DEF ReceiveThreadPage
<1>6. bound # 0 => Len(threads) < bound
  BY <1>1 DEF EnumerationInv, Between, Ended
<1>7. threads' = threads /\ bound' = bound /\ Advance(threads, refs, next)
  BY DEF ReceiveThreadPage
<1> QED
  BY <1>2, <1>5, <1>6, <1>7, AdvanceEnumerates

(* The end of a thread moves it from the page to the threads read; the test *)
(* of max_threads stops there if more remains. *)
LEMMA EndThreadEnumerates ==
    ASSUME TypeOK, EnumerationInv, page # <<>>, phase \notin Ended,
           NEW msgs \in Seq(Mail), EndThread(msgs),
           bound' = bound, enumerated' = enumerated
    PROVE  (phase' = "bounded" => "bounded selection" \in limitations') => EnumerationInv'
<1>1. page # <<>> /\ page \in Seq(Threads) /\ threads \in Seq(ReadThreads)
  BY DEF TypeOK
<1>2. Read(msgs) \in ReadThreads /\ Append(threads, Read(msgs)) \in Seq(ReadThreads)
  BY <1>1, EndThreadTypes
<1>3. PICK done \in Seq(ReadThreads) : done = Append(threads, Read(msgs))
  BY <1>2
<1>4. PICK rest \in Seq(Threads) : rest = Tail(page)
  BY <1>1, HeadTailProperties
<1>5. Len(done) = Len(threads) + 1 /\ Len(threads) \in Nat /\ Len(done) \in Nat
  <2>1. Len(Append(threads, Read(msgs))) = Len(threads) + 1
    BY <1>1, <1>2, AppendProperties
  <2>2. Len(threads) \in Nat /\ Len(done) \in Nat
    BY <1>1, <1>2, LenProperties
  <2> QED
    BY <1>3, <2>1, <2>2
<1>6. threads' = done
  BY <1>3 DEF EndThread, Read
<1>7. IdsOf(done) = Append(IdsOf(threads), Head(page))
  BY <1>1, <1>2, <1>3, IdsOfAppend DEF Read
<1>8. enumerated' = IdsOf(done) \o rest
  <2>1. enumerated = IdsOf(threads) \o page
    BY DEF EnumerationInv, NothingSkipped, Ended
  <2>2. Append(IdsOf(threads), Head(page)) \o rest = IdsOf(threads) \o page
    BY <1>1, <1>4, IdsAreThreads, MoveHead
  <2> QED
    BY <1>7, <2>1, <2>2
<1>9. bound # 0 => Len(threads) < bound
  BY DEF EnumerationInv, Between
<1>10. bound \in Nat
  BY IngestionAssumption DEF TypeOK
<1>11. following \in Continuations
  BY DEF TypeOK, Continuations
<1>12. bound # 0 => Len(done) <= bound
  BY <1>5, <1>9, <1>10
<1>13. BoundReached(done) \/ bound = 0 \/ Len(done) < bound
  BY <1>5, <1>10 DEF BoundReached
<1>14. CASE ~ Stops(done, rest) /\ Advance(done, rest, following)
  <2>1. bound # 0 => \/ Len(done) < bound
                     \/ Len(done) <= bound /\ rest = <<>> /\ following = NoToken
    BY <1>14, <1>12, <1>13 DEF Stops
  <2> QED
    BY <1>8, <1>11, <1>14, <1>6, <2>1, AdvanceEnumerates
<1>15. CASE /\ Stops(done, rest)
            /\ phase' = "bounded" /\ page' = rest
            /\ UNCHANGED <<token, following, threadTokens>>
  <2>1. bound # 0 /\ Len(done) >= bound /\ (rest # <<>> \/ following # NoToken)
    BY <1>15 DEF Stops, BoundReached
  <2>2. Len(done) = bound
    BY <1>5, <1>10, <1>12, <2>1
  <2>3. Between'
    BY <1>15 DEF Between, Ended
  <2>4. NothingSkipped'
    BY <1>8, <1>15, <1>6 DEF NothingSkipped
  <2>5. (phase' = "bounded" => "bounded selection" \in limitations') => CompleteIsHonest'
    <3>1. Len(threads') = bound' /\ Len(threads') <= bound'
      BY <1>6, <1>10, <2>2
    <3>2. page' # <<>> \/ following' # NoToken
      BY <1>15, <2>1
    <3>3. phase' = "bounded"
      BY <1>15
    <3> QED
      BY <3>1, <3>2, <3>3 DEF CompleteIsHonest
  <2> QED
    BY <2>3, <2>4, <2>5 DEF EnumerationInv
<1> QED
  BY <1>3, <1>4, <1>14, <1>15 DEF EndThread, Read

(* A message page ends the thread, or leaves threads and page alone. *)
LEMMA MessagePageEnumerates ==
    ASSUME TypeOK, EnumerationInv, NEW msgs \in Seq(Mail), NEW next \in Continuations,
           ReceiveMessagePage(msgs, next)
    PROVE  EnumerationInv'
<1>1. phase = "messages" /\ UNCHANGED enumerated
  BY DEF ReceiveMessagePage
<1>2. page # <<>> /\ phase \notin Ended
  BY <1>1 DEF TypeOK, Ended
<1>3. CASE Fail
  BY <1>1, <1>3, FailEnumerates
<1>4. CASE ~ (Rejected(msgs) \/ next \in messageTokens)
  <2> DEFINE all == current \o msgs
  <2>1. all \in Seq(Mail)
    BY DEF TypeOK
  <2>2. bound' = bound
    BY <1>4 DEF ReceiveMessagePage
  <2>3. phase' = "bounded" => "bounded selection" \in limitations'
    BY <1>4 DEF ReceiveMessagePage
  <2>4. CASE next = NoToken /\ EndThread(all)
    <3> HIDE DEF all
    <3> QED
      BY <1>1, <1>2, <2>1, <2>2, <2>3, <2>4, EndThreadEnumerates
  <2>5. CASE UNCHANGED <<phase, page, following, threadTokens, threads>>
    BY <1>1, <2>2, <2>5
       DEF EnumerationInv, Between, NothingSkipped, CompleteIsHonest, Ended
  <2> QED
    BY <1>4, <2>4, <2>5 DEF ReceiveMessagePage
<1> QED
  BY <1>3, <1>4 DEF ReceiveMessagePage

(* EnumerationInv is an invariant of the loop. *)
LEMMA EnumerationInvariant == Spec => []EnumerationInv
<1>1. Init => EnumerationInv
  <2> SUFFICES ASSUME Init PROVE EnumerationInv
    OBVIOUS
  <2>1. IdsOf(threads) = <<>>
    BY DEF Init, IdsOf
  <2>2. bound \in Nat /\ Len(threads) = 0
    BY IngestionAssumption DEF Init
  <2>3. Between /\ CompleteIsHonest
    BY <2>2 DEF Init, Between, CompleteIsHonest
  <2>4. NothingSkipped
    BY <2>1 DEF Init, NothingSkipped
  <2> QED
    BY <2>3, <2>4 DEF EnumerationInv
<1>2. TypeOK /\ EnumerationInv /\ [Answer]_vars => EnumerationInv'
  <2> SUFFICES ASSUME TypeOK, EnumerationInv, [Answer]_vars
               PROVE  EnumerationInv'
    OBVIOUS
  <2>1. ASSUME NEW labels \in Pages(LabelIds), ReceiveLabels(labels)
        PROVE  EnumerationInv'
    <3>1. CASE Fail
      BY <2>1, <3>1, FailEnumerates DEF ReceiveLabels
    <3>2. CASE phase' = "threads"
               /\ UNCHANGED <<bound, token, page, following, threadTokens,
                              messageTokens, current, threads, limitations>>
      BY <2>1, <3>2
         DEF ReceiveLabels, EnumerationInv, Between, NothingSkipped, CompleteIsHonest, Ended
    <3> QED
      BY <2>1, <3>1, <3>2 DEF ReceiveLabels
  <2>2. ASSUME NEW refs \in Pages(Threads), NEW next \in Continuations,
               ReceiveThreadPage(refs, next)
        PROVE  EnumerationInv'
    BY <2>2, PagesAreSequences, ThreadPageEnumerates
  <2>3. ASSUME NEW msgs \in Pages(Mail), NEW next \in Continuations,
               ReceiveMessagePage(msgs, next)
        PROVE  EnumerationInv'
    BY <2>3, PagesAreSequences, MessagePageEnumerates
  <2>4. ASSUME ProviderFails
        PROVE  EnumerationInv'
    BY <2>4, FailEnumerates DEF ProviderFails
  <2>5. CASE UNCHANGED vars
    BY <2>5 DEF vars, EnumerationInv, Between, NothingSkipped, CompleteIsHonest
  <2> QED
    BY <2>1, <2>2, <2>3, <2>4, <2>5 DEF Answer
<1> QED
  BY <1>1, <1>2, IngestionTypeCorrect, PTL DEF Spec

(* The threads read are the provider's enumeration without a gap.          *)
THEOREM EnumerationHasNoGap == Spec => []NothingSkipped
<1>1. EnumerationInv => NothingSkipped
  BY DEF EnumerationInv
<1> QED
  BY <1>1, EnumerationInvariant, PTL

(* A result is called complete only if everything the provider enumerates  *)
(* was read, and max_threads is respected and disclosed.                   *)
THEOREM ResultIsHonest == Spec => []CompleteIsHonest
<1>1. EnumerationInv => CompleteIsHonest
  BY DEF EnumerationInv
<1> QED
  BY <1>1, EnumerationInvariant, PTL

-----------------------------------------------------------------------------
(* Nothing is read twice. *)

(* Concatenation joins the identifiers, and keeps them distinct where no   *)
(* identifier is on both sides.                                            *)
LEMMA IdsOfConcat ==
    ASSUME NEW R, NEW s \in Seq(R), NEW t \in Seq(R)
    PROVE  /\ Members(IdsOf(s \o t)) = Members(IdsOf(s)) \union Members(IdsOf(t))
           /\ /\ Distinct(IdsOf(s)) /\ Distinct(IdsOf(t))
              /\ Members(IdsOf(s)) \intersect Members(IdsOf(t)) = {}
              => Distinct(IdsOf(s \o t))
<1> DEFINE u == s \o t
<1>1. /\ Len(s) \in Nat /\ Len(t) \in Nat
      /\ DOMAIN s = 1..Len(s) /\ DOMAIN t = 1..Len(t)
      /\ u \in Seq(R) /\ Len(u) = Len(s) + Len(t) /\ DOMAIN u = 1..(Len(s) + Len(t))
  BY ConcatProperties
<1>2. /\ \A i \in 1..Len(s) : u[i] = s[i]
      /\ \A j \in 1..Len(t) : u[Len(s) + j] = t[j]
  OBVIOUS
<1> HIDE DEF u
<1>3. /\ DOMAIN IdsOf(s) = 1..Len(s) /\ \A i \in 1..Len(s) : IdsOf(s)[i] = s[i].id
      /\ DOMAIN IdsOf(t) = 1..Len(t) /\ \A i \in 1..Len(t) : IdsOf(t)[i] = t[i].id
      /\ DOMAIN IdsOf(u) = 1..(Len(s) + Len(t))
      /\ \A i \in 1..(Len(s) + Len(t)) : IdsOf(u)[i] = u[i].id
  BY <1>1 DEF IdsOf
<1>a. /\ \A x : x \in Members(IdsOf(s)) <=> \E i \in 1..Len(s) : x = IdsOf(s)[i]
      /\ \A x : x \in Members(IdsOf(t)) <=> \E i \in 1..Len(t) : x = IdsOf(t)[i]
      /\ \A x : x \in Members(IdsOf(u)) <=> \E i \in 1..(Len(s) + Len(t)) : x = IdsOf(u)[i]
  BY <1>3 DEF Members
<1>4. \A i \in 1..(Len(s) + Len(t)) :
          \/ i \in 1..Len(s) /\ IdsOf(u)[i] = IdsOf(s)[i]
          \/ /\ i - Len(s) \in 1..Len(t) /\ i > Len(s)
             /\ IdsOf(u)[i] = IdsOf(t)[i - Len(s)]
  <2> SUFFICES ASSUME NEW i \in 1..(Len(s) + Len(t))
               PROVE  \/ i \in 1..Len(s) /\ IdsOf(u)[i] = IdsOf(s)[i]
                      \/ /\ i - Len(s) \in 1..Len(t) /\ i > Len(s)
                         /\ IdsOf(u)[i] = IdsOf(t)[i - Len(s)]
    OBVIOUS
  <2>1. CASE i <= Len(s)
    <3>1. i \in 1..Len(s)
      BY <1>1, <2>1
    <3> QED
      BY <1>2, <1>3, <3>1
  <2>2. CASE i > Len(s)
    <3>1. i - Len(s) \in 1..Len(t) /\ Len(s) + (i - Len(s)) = i
      BY <1>1, <2>2
    <3>2. u[i] = t[i - Len(s)]
      BY <1>2, <3>1
    <3> QED
      BY <1>3, <2>2, <3>1, <3>2
  <2> QED
    BY <1>1, <2>1, <2>2
<1>5. Members(IdsOf(u)) \subseteq Members(IdsOf(s)) \union Members(IdsOf(t))
  BY <1>a, <1>4
<1>6. Members(IdsOf(s)) \union Members(IdsOf(t)) \subseteq Members(IdsOf(u))
  <2>1. \A i \in 1..Len(s) : i \in 1..(Len(s) + Len(t)) /\ IdsOf(u)[i] = IdsOf(s)[i]
    BY <1>1, <1>2, <1>3
  <2>2. \A j \in 1..Len(t) :
            Len(s) + j \in 1..(Len(s) + Len(t)) /\ IdsOf(u)[Len(s) + j] = IdsOf(t)[j]
    BY <1>1, <1>2, <1>3
  <2> QED
    BY <1>a, <2>1, <2>2
<1>7. ASSUME Distinct(IdsOf(s)), Distinct(IdsOf(t)),
             Members(IdsOf(s)) \intersect Members(IdsOf(t)) = {},
             NEW i \in 1..(Len(s) + Len(t)), NEW j \in 1..(Len(s) + Len(t)),
             IdsOf(u)[i] = IdsOf(u)[j]
      PROVE  i = j
  <2>1. CASE i \in 1..Len(s) /\ j \in 1..Len(s)
    <3>1. IdsOf(s)[i] = IdsOf(s)[j]
      BY <1>1, <1>4, <1>7, <2>1
    <3> QED
      BY <1>3, <1>7, <2>1, <3>1 DEF Distinct
  <2>2. CASE i > Len(s) /\ j > Len(s)
    <3>1. /\ i - Len(s) \in 1..Len(t) /\ j - Len(s) \in 1..Len(t)
          /\ IdsOf(t)[i - Len(s)] = IdsOf(t)[j - Len(s)]
      BY <1>1, <1>4, <1>7, <2>2
    <3>2. i - Len(s) = j - Len(s)
      BY <1>3, <1>7, <3>1 DEF Distinct
    <3> QED
      BY <1>1, <3>2
  <2>3. CASE i \in 1..Len(s) /\ j > Len(s)
    <3>1. IdsOf(u)[i] \in Members(IdsOf(s)) /\ IdsOf(u)[j] \in Members(IdsOf(t))
      BY <1>1, <1>a, <1>4, <2>3
    <3> QED
      BY <1>7, <3>1
  <2>4. CASE j \in 1..Len(s) /\ i > Len(s)
    <3>1. IdsOf(u)[j] \in Members(IdsOf(s)) /\ IdsOf(u)[i] \in Members(IdsOf(t))
      BY <1>1, <1>a, <1>4, <2>4
    <3> QED
      BY <1>7, <3>1
  <2> QED
    BY <1>1, <2>1, <2>2, <2>3, <2>4
<1>8. Distinct(IdsOf(s)) /\ Distinct(IdsOf(t))
      /\ Members(IdsOf(s)) \intersect Members(IdsOf(t)) = {}
      => Distinct(IdsOf(u))
  BY <1>3, <1>7 DEF Distinct
<1> QED
  BY <1>5, <1>6, <1>8 DEF u

(* The same for a single element at the end. *)
LEMMA IdsOfOneMore ==
    ASSUME NEW R, NEW s \in Seq(R), NEW r \in R
    PROVE  /\ Members(IdsOf(Append(s, r))) = Members(IdsOf(s)) \union {r.id}
           /\ Distinct(IdsOf(s)) /\ r.id \notin Members(IdsOf(s)) => Distinct(IdsOf(Append(s, r)))
<1>1. Append(s, r) = s \o <<r>> /\ <<r>> \in Seq(R)
  BY AppendIsConcat
<1>2. Members(IdsOf(<<r>>)) = {r.id} /\ Distinct(IdsOf(<<r>>))
  BY DEF IdsOf, Members, Distinct
<1>3. Members(IdsOf(s \o <<r>>)) = Members(IdsOf(s)) \union {r.id}
  <2>1. Members(IdsOf(s \o <<r>>)) = Members(IdsOf(s)) \union Members(IdsOf(<<r>>))
    BY <1>1, IdsOfConcat, Zenon
  <2> QED
    BY <1>2, <2>1
<1>4. Distinct(IdsOf(s)) /\ r.id \notin Members(IdsOf(s)) => Distinct(IdsOf(s \o <<r>>))
  <2>1. r.id \notin Members(IdsOf(s)) =>
            Members(IdsOf(s)) \intersect Members(IdsOf(<<r>>)) = {}
    BY <1>2
  <2> QED
    BY <1>1, <1>2, <2>1, IdsOfConcat
<1> QED
  BY <1>1, <1>3, <1>4

LEMMA IdsOfNothing == Members(IdsOf(<<>>)) = {} /\ Distinct(IdsOf(<<>>))
BY DEF IdsOf, Members, Distinct

(* ReadOnce needs that the thread whose messages are awaited is a new one. *)
HeadIsNew == phase = "messages" => Head(page) \notin ThreadIds(threads)

OnceInv == ReadOnce /\ HeadIsNew

(* The loop heads ask for the messages of a new thread only. *)
LEMMA AdvanceReadsNew ==
    ASSUME NEW done, NEW rest, NEW next, Advance(done, rest, next), threads' = done
    PROVE  HeadIsNew' /\ current' = <<>>
<1>1. page' = rest /\ current' = <<>>
  BY DEF Advance
<1>2. phase' = "messages" => Head(rest) \notin ThreadIds(done)
  BY DEF Advance, NextThread, NextPage
<1> QED
  BY <1>1, <1>2 DEF HeadIsNew

(* A step that leaves the threads alone and starts no thread. *)
LEMMA SameThreadsKeepOnce ==
    ASSUME OnceInv, UNCHANGED threads, phase # "failed",
           current' = current \/ current' = <<>>
    PROVE  ReadOnce'
<1>1. CASE current' = current
  BY <1>1 DEF OnceInv, ReadOnce
<1>2. CASE current' = <<>>
  BY <1>2, IdsOfNothing DEF OnceInv, ReadOnce
<1> QED
  BY <1>1, <1>2

LEMMA MessagePageReadsOnce ==
    ASSUME TypeOK, OnceInv, NEW msgs \in Seq(Mail), NEW next \in Continuations,
           ReceiveMessagePage(msgs, next)
    PROVE  OnceInv'
<1>1. phase = "messages" /\ page # <<>> /\ threads \in Seq(ReadThreads) /\ current \in Seq(Mail)
  BY DEF ReceiveMessagePage, TypeOK
<1>2. CASE Fail
  BY <1>2 DEF Fail, OnceInv, ReadOnce, HeadIsNew
<1>3. CASE ~ (Rejected(msgs) \/ next \in messageTokens)
  <2> DEFINE all == current \o msgs
  <2>1. all \in Seq(Mail)
    BY <1>1
  <2>2. Distinct(IdsOf(msgs)) /\ Members(IdsOf(msgs)) \intersect MessageIds = {}
    BY <1>3 DEF Rejected
  <2>3. /\ Distinct(IdsOf(current))
        /\ Members(IdsOf(current)) \subseteq MessageIds
        /\ \A i \in DOMAIN threads :
              /\ Members(IdsOf(threads[i].messages)) \subseteq MessageIds
              /\ Members(IdsOf(threads[i].messages)) \intersect Members(IdsOf(current)) = {}
    BY <1>1 DEF OnceInv, ReadOnce, MessageIds
  <2>4. /\ Distinct(IdsOf(all))
        /\ Members(IdsOf(all)) = Members(IdsOf(current)) \union Members(IdsOf(msgs))
    <3>1. Members(IdsOf(current)) \intersect Members(IdsOf(msgs)) = {}
      BY <2>2, <2>3
    <3> QED
      BY <1>1, <2>2, <2>3, <3>1, IdsOfConcat
  <2>5. \A i \in DOMAIN threads :
            Members(IdsOf(threads[i].messages)) \intersect Members(IdsOf(all)) = {}
    BY <2>2, <2>3, <2>4
  <2> HIDE DEF all
  <2>6. CASE next = NoToken /\ EndThread(all)
    <3>1. /\ threads' = Append(threads, Read(all)) /\ Read(all) \in ReadThreads
      BY <1>1, <2>1, <2>6, EndThreadTypes
    <3>2. Read(all).id = Head(page) /\ Read(all).messages = all
      BY DEF Read
    <3>3. HeadIsNew' /\ current' = <<>>
      <4>1. CASE Advance(Append(threads, Read(all)), Tail(page), following)
        BY <3>1, <4>1, AdvanceReadsNew
      <4>2. CASE phase' = "bounded" /\ current' = <<>>
        BY <4>2 DEF HeadIsNew
      <4> QED
        BY <2>6, <4>1, <4>2 DEF EndThread, Read
    <3>4. Distinct(IdsOf(threads'))
      <4>1. Head(page) \notin Members(IdsOf(threads)) /\ Distinct(IdsOf(threads))
        BY <1>1 DEF OnceInv, HeadIsNew, ThreadIds, ReadOnce
      <4> QED
        BY <1>1, <3>1, <3>2, <4>1, IdsOfOneMore
    <3>5. /\ Len(threads) \in Nat /\ DOMAIN threads = 1..Len(threads)
          /\ DOMAIN threads' = 1..(Len(threads) + 1)
          /\ \A i \in 1..Len(threads) : threads'[i] = threads[i]
          /\ threads'[Len(threads) + 1] = Read(all)
      BY <1>1, <3>1
    <3>6. ASSUME NEW i \in DOMAIN threads'
          PROVE  /\ Distinct(IdsOf(threads'[i].messages))
                 /\ \A j \in DOMAIN threads' : i # j =>
                       Members(IdsOf(threads'[i].messages))
                           \intersect Members(IdsOf(threads'[j].messages)) = {}
      <4>1. CASE i = Len(threads) + 1
        <5>1. threads'[i].messages = all
          BY <3>2, <3>5, <4>1
        <5>2. \A j \in DOMAIN threads' : i # j => j \in DOMAIN threads /\ threads'[j] = threads[j]
          BY <3>5, <4>1
        <5> QED
          BY <2>4, <2>5, <5>1, <5>2
      <4>2. CASE i \in 1..Len(threads)
        <5>1. threads'[i] = threads[i] /\ Distinct(IdsOf(threads[i].messages))
          BY <1>1, <3>5, <4>2 DEF OnceInv, ReadOnce
        <5>2. ASSUME NEW j \in DOMAIN threads', i # j
              PROVE  Members(IdsOf(threads[i].messages))
                         \intersect Members(IdsOf(threads'[j].messages)) = {}
          <6>1. CASE j = Len(threads) + 1
            BY <2>5, <3>2, <3>5, <4>2, <6>1
          <6>2. CASE j \in 1..Len(threads)
            BY <1>1, <3>5, <4>2, <5>2, <6>2 DEF OnceInv, ReadOnce
          <6> QED
            BY <3>5, <6>1, <6>2
        <5> QED
          BY <5>1, <5>2
      <4> QED
        BY <3>5, <4>1, <4>2
    <3> QED
      BY <3>3, <3>4, <3>6, IdsOfNothing DEF OnceInv, ReadOnce
  <2>7. CASE current' = all /\ UNCHANGED <<phase, page, threads>>
    BY <1>1, <2>3, <2>4, <2>5, <2>7 DEF OnceInv, ReadOnce, HeadIsNew
  <2> QED
    BY <1>3, <2>6, <2>7 DEF ReceiveMessagePage, all
<1> QED
  BY <1>2, <1>3 DEF ReceiveMessagePage

LEMMA OnceInvariant == Spec => []OnceInv
<1>1. Init => OnceInv
  BY DEF Init, OnceInv, ReadOnce, HeadIsNew, IdsOf, Distinct
<1>2. TypeOK /\ OnceInv /\ [Answer]_vars => OnceInv'
  <2> SUFFICES ASSUME TypeOK, OnceInv, [Answer]_vars
               PROVE  OnceInv'
    OBVIOUS
  <2>1. ASSUME Fail PROVE OnceInv'
    BY <2>1 DEF Fail, OnceInv, ReadOnce, HeadIsNew
  <2>2. ASSUME NEW catalogued, ReceiveLabels(catalogued)
        PROVE  OnceInv'
    <3>1. CASE phase' = "threads" /\ phase = "labels" /\ UNCHANGED <<threads, current>>
      BY <3>1, SameThreadsKeepOnce DEF OnceInv, HeadIsNew
    <3> QED
      BY <2>1, <2>2, <3>1 DEF ReceiveLabels
  <2>3. ASSUME NEW refs, NEW next, ReceiveThreadPage(refs, next)
        PROVE  OnceInv'
    <3>1. /\ phase = "threads" /\ threads' = threads
          /\ Advance(threads, refs, next)
      BY <2>3 DEF ReceiveThreadPage
    <3>2. HeadIsNew' /\ current' = <<>>
      BY <3>1, AdvanceReadsNew
    <3> QED
      BY <3>1, <3>2, SameThreadsKeepOnce DEF OnceInv
  <2>4. ASSUME NEW msgs \in Pages(Mail), NEW next \in Continuations,
               ReceiveMessagePage(msgs, next)
        PROVE  OnceInv'
    BY <2>4, PagesAreSequences, MessagePageReadsOnce
  <2>5. CASE UNCHANGED vars
    BY <2>5 DEF vars, OnceInv, ReadOnce, HeadIsNew
  <2> QED
    BY <2>1, <2>2, <2>3, <2>4, <2>5 DEF Answer, ProviderFails
<1> QED
  BY <1>1, <1>2, IngestionTypeCorrect, PTL DEF Spec

(* No thread and no message is read twice, whatever a provider repeats:    *)
(* within a page, across pages, or across threads.                         *)
THEOREM NothingIsReadTwice == Spec => []ReadOnce
<1>1. OnceInv => ReadOnce
  BY DEF OnceInv
<1> QED
  BY <1>1, OnceInvariant, PTL

-----------------------------------------------------------------------------
(* What the result cannot represent is disclosed. *)

Disclosed(m) ==
    /\ m.labels \subseteq catalog \/ "label catalog incomplete" \in limitations
    /\ m.flagged => m.attached \/ "attachment metadata incomplete" \in limitations

(* Every message is disclosed from the moment it is received: the catalog  *)
(* is fixed by then, and no limitation is ever taken back.                 *)
DisclosureInv ==
    /\ phase = "labels" => threads = <<>> /\ current = <<>>
    /\ \A m \in Members(current) : Disclosed(m)
    /\ \A i \in DOMAIN threads : \A m \in Members(threads[i].messages) : Disclosed(m)

LEMMA MessagePageDiscloses ==
    ASSUME TypeOK, DisclosureInv, NEW msgs \in Seq(Mail), NEW next \in Continuations,
           ReceiveMessagePage(msgs, next)
    PROVE  DisclosureInv'
<1>1. phase = "messages" /\ page # <<>> /\ threads \in Seq(ReadThreads) /\ current \in Seq(Mail)
  BY DEF ReceiveMessagePage, TypeOK
<1>2. CASE Fail
  BY <1>2 DEF Fail, DisclosureInv, Disclosed
<1>3. CASE ~ (Rejected(msgs) \/ next \in messageTokens)
  <2> DEFINE all == current \o msgs
  <2>1. all \in Seq(Mail)
    BY <1>1
  <2>2. catalog' = catalog /\ limitations \union Gaps(msgs) \subseteq limitations'
    BY <1>3 DEF ReceiveMessagePage
  <2>3. \A m : Disclosed(m) => Disclosed(m)'
    BY <2>2 DEF Disclosed
  <2>4. \A m \in Members(msgs) : Disclosed(m)'
    BY <2>2 DEF Disclosed, Gaps, Codes
  <2>5. \A m \in Members(all) : Disclosed(m)'
    <3>1. \A i \in DOMAIN all :
              all[i] \in Members(current) \/ all[i] \in Members(msgs)
      <4> SUFFICES ASSUME NEW i \in 1..(Len(current) + Len(msgs))
                   PROVE  all[i] \in Members(current) \/ all[i] \in Members(msgs)
        BY <1>1
      <4>1. CASE i <= Len(current)
        BY <1>1, <4>1 DEF Members
      <4>2. CASE i > Len(current)
        <5>1. i - Len(current) \in 1..Len(msgs) /\ all[i] = msgs[i - Len(current)]
          BY <1>1, <4>2
        <5> QED
          BY <5>1 DEF Members
      <4> QED
        BY <1>1, <4>1, <4>2
    <3>2. \A m \in Members(all) : m \in Members(current) \/ m \in Members(msgs)
      BY <3>1 DEF Members
    <3> QED
      BY <2>3, <2>4, <3>2 DEF DisclosureInv
  <2>6. \A i \in DOMAIN threads : \A m \in Members(threads[i].messages) : Disclosed(m)'
    BY <2>3 DEF DisclosureInv
  <2> HIDE DEF all
  <2>7. CASE next = NoToken /\ EndThread(all)
    <3>1. /\ threads' = Append(threads, Read(all)) /\ Read(all) \in ReadThreads
          /\ current' = <<>>
          /\ phase' # "labels"
      BY <1>1, <2>1, <2>7, EndThreadTypes DEF Ended
    <3>2. Read(all).messages = all
      BY DEF Read
    <3>3. /\ Len(threads) \in Nat /\ DOMAIN threads = 1..Len(threads)
          /\ DOMAIN threads' = 1..(Len(threads) + 1)
          /\ \A i \in 1..Len(threads) : threads'[i] = threads[i]
          /\ threads'[Len(threads) + 1] = Read(all)
      BY <1>1, <3>1
    <3>4. \A i \in DOMAIN threads' : \A m \in Members(threads'[i].messages) : Disclosed(m)'
      BY <2>5, <2>6, <3>2, <3>3
    <3>5. Members(current') = {}
      BY <3>1 DEF Members
    <3> QED
      BY <3>1, <3>4, <3>5 DEF DisclosureInv
  <2>8. CASE current' = all /\ UNCHANGED <<phase, threads>>
    BY <1>1, <2>5, <2>6, <2>8 DEF DisclosureInv
  <2> QED
    BY <1>3, <2>7, <2>8 DEF ReceiveMessagePage, all
<1> QED
  BY <1>2, <1>3 DEF ReceiveMessagePage

LEMMA DisclosureInvariant == Spec => []DisclosureInv
<1>0. Members(<<>>) = {}
  BY DEF Members
<1>1. Init => DisclosureInv
  BY <1>0 DEF Init, DisclosureInv
<1>2. TypeOK /\ DisclosureInv /\ [Answer]_vars => DisclosureInv'
  <2> SUFFICES ASSUME TypeOK, DisclosureInv, [Answer]_vars
               PROVE  DisclosureInv'
    OBVIOUS
  <2>1. ASSUME Fail PROVE DisclosureInv'
    BY <2>1 DEF Fail, DisclosureInv, Disclosed
  <2>2. ASSUME NEW catalogued, ReceiveLabels(catalogued)
        PROVE  DisclosureInv'
    <3>1. CASE phase' = "threads" /\ phase = "labels" /\ UNCHANGED <<threads, current>>
      BY <1>0, <3>1 DEF DisclosureInv
    <3> QED
      BY <2>1, <2>2, <3>1 DEF ReceiveLabels
  <2>3. ASSUME NEW refs, NEW next, ReceiveThreadPage(refs, next)
        PROVE  DisclosureInv'
    <3>1. UNCHANGED <<catalog, threads, limitations>> /\ Advance(threads, refs, next)
      BY <2>3 DEF ReceiveThreadPage
    <3>2. current' = <<>> /\ phase' # "labels"
      BY <3>1 DEF Advance, NextThread, NextPage
    <3> QED
      BY <1>0, <3>1, <3>2 DEF DisclosureInv, Disclosed
  <2>4. ASSUME NEW msgs \in Pages(Mail), NEW next \in Continuations,
               ReceiveMessagePage(msgs, next)
        PROVE  DisclosureInv'
    BY <2>4, PagesAreSequences, MessagePageDiscloses
  <2>5. CASE UNCHANGED vars
    BY <2>5 DEF vars, DisclosureInv, Disclosed
  <2> QED
    BY <2>1, <2>2, <2>3, <2>4, <2>5 DEF Answer, ProviderFails
<1> QED
  BY <1>1, <1>2, IngestionTypeCorrect, PTL DEF Spec

(* Every message of a result that carries a label outside the catalog, or  *)
(* attachments without metadata, is covered by a limitation of the result, *)
(* whatever the provider answers and however many pages come in between.   *)
THEOREM EveryGapIsDisclosed == Spec => []GapsDisclosed
<1>1. DisclosureInv => GapsDisclosed
  BY DEF DisclosureInv, Disclosed, GapsDisclosed
<1> QED
  BY <1>1, DisclosureInvariant, PTL
=============================================================================
