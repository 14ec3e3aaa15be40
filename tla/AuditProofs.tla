---------------------------- MODULE AuditProofs ----------------------------
(***************************************************************************)
(* Proofs about Audit, for every thread, classifier and vocabulary, and    *)
(* whatever is learnt of attachments, context and coverage.                *)
(***************************************************************************)
EXTENDS Audit, ScoreProofs, FiniteSetTheorems, SequenceTheorems, TLAPS

-----------------------------------------------------------------------------
(* Repairs. *)

(* Labels of the thread are semantic labels of the mailbox. *)
LEMMA ThreadLabelsType ==
    ASSUME NEW msgs \in [Messages -> MessageSnapshots]
    PROVE  /\ ThreadLabels(Thread, msgs) \subseteq Labels
           /\ \A label \in ThreadLabels(Thread, msgs) : LabelClassOf[label] = "user_semantic"
           /\ IsFiniteSet(ThreadLabels(Thread, msgs))
<1>1. \A m \in Messages : /\ SemanticLabels(msgs[m]) \subseteq Labels
                          /\ \A l \in SemanticLabels(msgs[m]) : LabelClassOf[l] = "user_semantic"
  BY DEF SemanticLabels, MessageSnapshots
<1>2. ThreadLabels(Thread, msgs) \in SUBSET Labels
  BY <1>1 DEF ThreadLabels, Messages
<1> QED
  BY <1>1, <1>2, FactsAssumption, FS_Subset DEF ThreadLabels, Messages

(* A signal adds at most its weight. *)
LEMMA WeightRange ==
    ASSUME NEW signal, NEW weight \in Nat
    PROVE  Weight(signal, weight) \in 0..weight
BY DEF Weight

LEMMA PointsType ==
    /\ \A subjects : SubjectPoints(subjects) \in -100..80
    /\ \A people : PeoplePoints(people) \in -100..50
    /\ \A message, label : HintPoints(message, label) \in -150..120
    /\ \A supporters : SupportDepth(supporters) \in {50, 150}
<1>1. ASSUME NEW up, NEW down, NEW gain \in Nat, NEW loss \in Nat
      PROVE  Weight(up, gain) - Weight(down, loss) \in -loss..gain
  <2>1. Weight(up, gain) \in 0..gain /\ Weight(down, loss) \in 0..loss
    BY WeightRange
  <2> QED
    BY <2>1
<1> QED
  BY <1>1 DEF SubjectPoints, PeoplePoints, HintPoints, SupportDepth

(* A message of the thread has its place in it. *)
LEMMA PositionType ==
    ASSUME NEW m \in Messages
    PROVE  /\ Position(Thread, m) \in DOMAIN Thread /\ Position(Thread, m) \in Nat
           /\ Thread[Position(Thread, m)] = m
BY AuditAssumption, LenProperties DEF Messages, Ids, Position

(* A label that only one message carries gets at most 850 thousandths: the *)
(* target cannot be between witnesses, and the rest does not add up.       *)
LEMMA OneWitnessFallsShort ==
    ASSUME NEW msgs \in [Messages -> MessageSnapshots], NEW m \in Messages, NEW label,
           \A i, j \in Supporters(Thread, msgs, label) : i = j
    PROVE  LET score == Infer(Thread, msgs, m, label).score
           IN  score \in Int /\ score < 900
<1> DEFINE supporters == Supporters(Thread, msgs, label)
           between == BetweenWitnesses(Thread, msgs, m, label)
           points == Points(Thread, msgs, m, label)
<1>1. SupportDepth(supporters) = 50
  <2>1. CASE supporters = {}
    BY <2>1, FS_EmptySet DEF SupportDepth
  <2>2. CASE supporters # {}
    <3>1. PICK i : supporters = {i}
      BY <2>2
    <3>2. Cardinality(supporters) = 1
      BY <3>1, FS_Singleton
    <3> QED
      BY <3>2 DEF SupportDepth
  <2> QED
    BY <2>1, <2>2
<1>2. supporters \subseteq Nat
  BY AuditAssumption, LenProperties DEF Supporters
<1>3. ~between
  BY <1>2, PositionType DEF BetweenWitnesses
<1>4. points \in Int /\ points < 900
  <2>1. Weight(between, 100) = 0
    BY <1>3 DEF Weight
  <2> QED
    <3> DEFINE subject == SubjectPoints(SubjectsAgree(msgs[m], Others(Thread, msgs, label)))
               people == PeoplePoints(CorrespondentsAgree(msgs[m], Others(Thread, msgs, label)))
               hint == HintPoints(msgs[m], label)
    <3>1. subject \in -100..80 /\ people \in -100..50 /\ hint \in -150..120
      BY PointsType
    <3>2. points = 550 + 50 + 0 + subject + people + hint
      BY <1>1, <2>1 DEF Points
    <3> HIDE DEF subject, people, hint, points
    <3> QED
      BY <3>1, <3>2
<1>5. Infer(Thread, msgs, m, label).score \in {0, Confidence(points)}
  BY DEF Infer, NoProposal
<1> QED
  <2> HIDE DEF points
  <2> QED
    BY <1>4, <1>5 DEF Confidence

(* A label that is inferred without conflicts is one that no hint of the   *)
(* message disputes.                                                       *)
LEMMA InferredIsUndisputed ==
    ASSUME NEW msgs, NEW m, NEW label
    PROVE  LET inference == Infer(Thread, msgs, m, label)
           IN  /\ inference.label \in {label, None}
               /\ inference.label # None /\ inference.conflicts = {} => msgs[m].hints \subseteq {label}
<1>1. ASSUME InferenceConflicts(Thread, msgs, m, label) = {}
      PROVE  ~Ambiguous(msgs[m], label)
  BY <1>1 DEF InferenceConflicts
<1>2. ~Vetoed(msgs[m], label) /\ ~Ambiguous(msgs[m], label) => msgs[m].hints \subseteq {label}
  BY DEF Vetoed, Ambiguous
<1> QED
  BY <1>1, <1>2 DEF Infer, NoProposal

(* An eligible repair names the only label of the thread, two messages     *)
(* carry it, and the hints of the message agree.                           *)
LEMMA EligibleRepair ==
    ASSUME NEW msgs \in [Messages -> MessageSnapshots], NEW m \in Messages,
           Decision(Inference(Thread, msgs, m)) = "ELIGIBLE_FOR_ADDITIVE_REPAIR"
    PROVE  LET label == Inference(Thread, msgs, m).label
           IN  /\ label # None
               /\ ThreadLabels(Thread, msgs) = {label}
               /\ msgs[m].hints \subseteq {label}
               /\ \E i, j \in Supporters(Thread, msgs, label) : i # j
<1> DEFINE inference == Inference(Thread, msgs, m)
           labels == ThreadLabels(Thread, msgs)
<1>1. inference.label # None /\ inference.score >= 900 /\ inference.conflicts = {}
  BY DEF Decision
<1>2. Cardinality(labels) = 1
  <2>1. SUFFICES ASSUME Cardinality(labels) # 1 PROVE FALSE
    OBVIOUS
  <2>2. inference = NoProposal({"competing_thread_semantic_labels"})
    BY <2>1, Zenon DEF Inference
  <2> QED
    BY <1>1, <2>2 DEF NoProposal
<1>3. PICK label : labels = {label}
  BY <1>2, ThreadLabelsType, FS_Singleton
<1>4. inference = Infer(Thread, msgs, m, label)
  <2>1. inference = Infer(Thread, msgs, m, CHOOSE l \in labels : TRUE)
    BY <1>2, Zenon DEF Inference
  <2>2. (CHOOSE l \in labels : TRUE) = label
    BY <1>3
  <2> QED
    BY <2>1, <2>2
<1>5. inference.label = label /\ msgs[m].hints \subseteq {label}
  <2> HIDE DEF inference
  <2> QED
    BY <1>1, <1>4, InferredIsUndisputed
<1>6. \E i, j \in Supporters(Thread, msgs, label) : i # j
  <2>1. SUFFICES ASSUME \A i, j \in Supporters(Thread, msgs, label) : i = j PROVE FALSE
    OBVIOUS
  <2>2. inference.score \in Int /\ inference.score < 900
    BY <1>4, <2>1, OneWitnessFallsShort
  <2> HIDE DEF inference
  <2> QED
    BY <1>1, <2>2
<1> QED
  BY <1>1, <1>3, <1>5, <1>6

-----------------------------------------------------------------------------
(* The invariant: FactsTyped, and the report is about the facts of the     *)
(* moment.                                                                 *)

ReportIsCurrent == report = AuditOf(messages, attachments, contexts, coverage)

(* What the report says of a gap is the decision on the thread, and it has *)
(* nothing to say of other messages.                                       *)
LEMMA GapsAreReported ==
    ASSUME NEW msgs, NEW known, NEW ctxs, NEW requested,
           NEW m \in DOMAIN AuditOf(msgs, known, ctxs, requested)
    PROVE  LET audit == AuditOf(msgs, known, ctxs, requested)
           IN  /\ m \in Messages
               /\ m \in Gaps(Thread, msgs) => audit[m].repair = RepairOf(Thread, msgs, m)
               /\ m \notin Gaps(Thread, msgs) => audit[m].repair = NoRepair
<1> DEFINE audit == AuditOf(msgs, known, ctxs, requested)
           repairs == DryRun(Thread, msgs)
           repair == IF m \in DOMAIN repairs THEN repairs[m] ELSE NoRepair
<1>1. audit # NoReport
  BY DEF NoReport
<1>2. m \in Messages
  BY <1>1 DEF AuditOf
<1>3. audit[m] = AuditRecord(msgs[m], known[m], ctxs[m], requested[m], repair, MailboxLabels(msgs))
  BY <1>1, <1>2, Zenon DEF AuditOf
<1>4. audit[m].repair = repair
  <2> HIDE DEF repair, audit
  <2> QED
    BY <1>3 DEF AuditRecord
<1> QED
  BY <1>2, <1>4 DEF DryRun

LEMMA EligibleIsDecided ==
    ASSUME ReportIsCurrent, NEW m, Eligible(m)
    PROVE  /\ m \in Messages /\ m \in Gaps(Thread, messages)
           /\ SemanticLabels(messages[m]) = {}
           /\ report[m].repair.label = Inference(Thread, messages, m).label
           /\ Decision(Inference(Thread, messages, m)) = "ELIGIBLE_FOR_ADDITIVE_REPAIR"
<1>1. m \in DOMAIN report /\ report[m].repair.recommendation = "ELIGIBLE_FOR_ADDITIVE_REPAIR"
  BY DEF Eligible
<1>2. m \in Messages /\ m \in Gaps(Thread, messages)
  BY <1>1, GapsAreReported DEF NoRepair, ReportIsCurrent
<1>3. report[m].repair = RepairOf(Thread, messages, m)
  BY <1>1, <1>2, GapsAreReported DEF ReportIsCurrent
<1> QED
  BY <1>1, <1>2, <1>3 DEF RepairOf, Gaps

(* What stands behind an eligible repair. *)
LEMMA EligibleFacts ==
    ASSUME FactsTyped, ReportIsCurrent, NEW m, Eligible(m)
    PROVE  LET label == report[m].repair.label
           IN  /\ m \in Messages /\ label \in Labels /\ LabelClassOf[label] = "user_semantic"
               /\ SemanticLabels(messages[m]) = {} /\ label \notin messages[m].labels
               /\ ThreadLabels(Thread, messages) = {label}
               /\ messages[m].hints \subseteq {label}
               /\ \E i, j \in Supporters(Thread, messages, label) : i # j
<1> DEFINE label == report[m].repair.label
<1>1. /\ m \in Messages /\ SemanticLabels(messages[m]) = {}
      /\ label = Inference(Thread, messages, m).label
      /\ Decision(Inference(Thread, messages, m)) = "ELIGIBLE_FOR_ADDITIVE_REPAIR"
  BY EligibleIsDecided
<1>2. messages \in [Messages -> MessageSnapshots]
  BY DEF FactsTyped
<1> HIDE DEF label
<1>3. /\ ThreadLabels(Thread, messages) = {label} /\ messages[m].hints \subseteq {label}
      /\ \E i, j \in Supporters(Thread, messages, label) : i # j
  BY <1>1, <1>2, EligibleRepair
<1>4. label \in Labels /\ LabelClassOf[label] = "user_semantic"
  BY <1>2, <1>3, ThreadLabelsType
<1>5. label \notin messages[m].labels
  BY <1>1, <1>4 DEF SemanticLabels
<1> QED
  BY <1>1, <1>3, <1>4, <1>5 DEF label

LEMMA InitFacts == Init => FactsTyped /\ ReportIsCurrent
BY AuditAssumption DEF Init, FactsTyped, ReportIsCurrent

(* Relabelling a message keeps the facts typed. *)
LEMMA RelabellingKeepsFacts ==
    ASSUME FactsTyped, NEW m \in Messages, NEW labels \in SUBSET Labels, SetLabels(m, labels)
    PROVE  FactsTyped'
<1>1. [messages[m] EXCEPT !.labels = labels] \in MessageSnapshots
  BY DEF FactsTyped, MessageSnapshots
<1> QED
  BY <1>1 DEF FactsTyped, SetLabels

LEMMA NextFacts ==
    ASSUME FactsTyped, ReportIsCurrent, [Next]_vars
    PROVE  FactsTyped' /\ ReportIsCurrent'
<1>1. CASE UNCHANGED vars
  BY <1>1 DEF vars, facts, FactsTyped, ReportIsCurrent
<1>2. CASE Next
  <2>1. ReportIsCurrent'
    BY <1>2 DEF Next, ReportIsCurrent
  <2>2. \A m \in Messages : messages[m].labels \in SUBSET Labels
    BY DEF FactsTyped, MessageSnapshots
  <2>3. ASSUME NEW m \in Watched, NEW label \in Relabelled, AddLabel(m, label)
        PROVE  FactsTyped'
    BY <2>2, <2>3, AuditAssumption, RelabellingKeepsFacts DEF AddLabel
  <2>4. ASSUME NEW m \in Watched, NEW label \in Relabelled, RemoveLabel(m, label)
        PROVE  FactsTyped'
    BY <2>2, <2>4, AuditAssumption, RelabellingKeepsFacts DEF RemoveLabel
  <2>5. ASSUME NEW m \in Messages, ApplyRepair(m)
        PROVE  FactsTyped'
    <3>1. report[m].repair.label \in Labels
      BY <2>5, EligibleIsDecided, EligibleRepair, ThreadLabelsType DEF ApplyRepair, FactsTyped
    <3> QED
      BY <2>2, <2>5, <3>1, RelabellingKeepsFacts DEF ApplyRepair, AddLabel
  <2>6. ASSUME NEW m \in Messages, NEW s \in OperationalStates, NEW l \in Labels,
               NEW creates \in BOOLEAN,
               AcceptState(m, [state |-> s, label |-> l, creates |-> creates])
        PROVE  FactsTyped'
    <3>1. AddLabel(m, l)
      BY <2>6 DEF AcceptState
    <3> QED
      BY <2>2, <3>1, RelabellingKeepsFacts DEF AddLabel
  <2>7. ASSUME NEW m \in Watched, NEW known \in AttachmentSets, LearnAttachments(m, known)
        PROVE  FactsTyped'
    BY <2>7, AuditAssumption DEF LearnAttachments, FactsTyped
  <2>8. ASSUME NEW m \in Watched, NEW context \in LearntContexts, LearnContext(m, context)
        PROVE  FactsTyped'
    BY <2>8, AuditAssumption DEF LearnContext, FactsTyped
  <2>9. ASSUME NEW m \in Watched, AssertCoverage(m)
        PROVE  FactsTyped'
    BY <2>9, AuditAssumption DEF AssertCoverage, FactsTyped
  <2> QED
    BY <1>2, <2>1, <2>3, <2>4, <2>5, <2>6, <2>7, <2>8, <2>9 DEF Next, Change
<1> QED
  BY <1>1, <1>2

(* The facts stay what the assessments expect, and no report is stale.     *)
THEOREM FactsStayTyped == Spec => [](FactsTyped /\ ReportIsCurrent)
BY InitFacts, NextFacts, PTL DEF Spec

(* Two places of the thread are two messages. *)
LEMMA CorroboratedState ==
    ASSUME FactsTyped, ReportIsCurrent
    PROVE  EligibleRepairsAreCorroborated
<1> SUFFICES ASSUME NEW m \in Messages, Eligible(m)
             PROVE  LET label == report[m].repair.label
                    IN  /\ Cardinality({n \in Messages \ {m} : label \in messages[n].labels}) >= 2
                        /\ ThreadLabels(Thread, messages) = {label}
                        /\ SemanticLabels(messages[m]) = {}
                        /\ messages[m].hints \subseteq {label}
  BY DEF EligibleRepairsAreCorroborated
<1> DEFINE label == report[m].repair.label
           witnesses == {n \in Messages \ {m} : label \in messages[n].labels}
<1>1. /\ SemanticLabels(messages[m]) = {}
      /\ ThreadLabels(Thread, messages) = {label}
      /\ messages[m].hints \subseteq {label}
      /\ \E i, j \in Supporters(Thread, messages, label) : i # j
  BY EligibleFacts
<1>2. PICK i \in Supporters(Thread, messages, label), j \in Supporters(Thread, messages, label) :
          i # j
  BY <1>1
<1>3. label \notin messages[m].labels
  BY EligibleFacts
<1>4. Thread[i] \in witnesses /\ Thread[j] \in witnesses
  BY <1>3 DEF Supporters, Messages, Ids
<1>5. Thread[i] # Thread[j]
  BY <1>2, AuditAssumption DEF Supporters
<1>6. IsFiniteSet(Messages)
  <2>1. IsFiniteSet(DOMAIN Thread)
    BY AuditAssumption, LenProperties, FS_Interval
  <2>2. [k \in DOMAIN Thread |-> Thread[k]] \in Surjection(DOMAIN Thread, Messages)
    BY DEF Surjection, Messages, Ids
  <2> QED
    BY <2>1, <2>2, FS_Surjection
<1>7. Cardinality(witnesses) >= 2
  <2>1. IsFiniteSet(witnesses) /\ Cardinality(witnesses) \in Nat
    BY <1>6, FS_Subset, FS_CardinalityType
  <2>2. IsFiniteSet({Thread[i]}) /\ Cardinality({Thread[i]}) = 1
    BY FS_Singleton
  <2>3. Cardinality({Thread[i]} \union {Thread[j]}) = 2
    BY <1>5, <2>2, FS_AddElement
  <2>4. {Thread[i]} \union {Thread[j]} \in SUBSET witnesses
    BY <1>4
  <2> HIDE DEF witnesses
  <2>5. Cardinality({Thread[i]} \union {Thread[j]}) <= Cardinality(witnesses)
    BY <2>1, <2>4, FS_Subset
  <2> QED
    BY <2>1, <2>3, <2>5
<1> QED
  BY <1>1, <1>7

(* One witness never suffices, in any thread, with any classifier.         *)
THEOREM RepairsAreCorroborated == Spec => []EligibleRepairsAreCorroborated
BY FactsStayTyped, CorroboratedState, PTL

-----------------------------------------------------------------------------
(* What following a repair does to the others. *)

LEMMA OneLabelIsInferred ==
    ASSUME NEW msgs, NEW label, ThreadLabels(Thread, msgs) = {label}, NEW n
    PROVE  Inference(Thread, msgs, n) = Infer(Thread, msgs, n, label)
<1>1. Cardinality(ThreadLabels(Thread, msgs)) = 1 /\ (CHOOSE l \in {label} : TRUE) = label
  BY FS_Singleton
<1>2. Inference(Thread, msgs, n) = Infer(Thread, msgs, n, CHOOSE l \in {label} : TRUE)
  BY <1>1, Zenon DEF Inference
<1> QED
  BY <1>1, <1>2

LEMMA TwoWitnessesCount ==
    ASSUME NEW msgs, NEW label, \E i, j \in Supporters(Thread, msgs, label) : i # j
    PROVE  SupportDepth(Supporters(Thread, msgs, label)) = 150
<1> DEFINE supporters == Supporters(Thread, msgs, label)
<1>1. PICK i \in supporters, j \in supporters : i # j
  OBVIOUS
<1>2. IsFiniteSet(supporters) /\ Cardinality(supporters) \in Nat
  <2>1. IsFiniteSet(DOMAIN Thread)
    BY AuditAssumption, LenProperties, FS_Interval
  <2>2. supporters \in SUBSET DOMAIN Thread
    BY DEF Supporters
  <2> QED
    BY <2>1, <2>2, FS_Subset, FS_CardinalityType
<1>3. Cardinality({i} \union {j}) = 2
  <2>1. IsFiniteSet({i}) /\ Cardinality({i}) = 1
    BY FS_Singleton
  <2> QED
    BY <1>1, <2>1, FS_AddElement
<1>4. {i} \union {j} \in SUBSET supporters
  BY <1>1
<1> HIDE DEF supporters
<1>5. Cardinality({i} \union {j}) <= Cardinality(supporters)
  BY <1>2, <1>4, FS_Subset
<1>6. SupportDepth(supporters) = 150
  BY <1>2, <1>3, <1>5 DEF SupportDepth
<1> QED
  BY <1>6 DEF supporters

(* One more witness: it costs 100 thousandths at most unless all the       *)
(* others disagreed, and nothing if it agrees.                             *)
LEMMA OneMoreSubject ==
    ASSUME NEW message, NEW others, NEW witness
    PROVE  LET before == SubjectsAgree(message, others)
               after == SubjectsAgree(message, others \union {witness})
           IN  before # "none" =>
                  /\ SubjectPoints(after) >= SubjectPoints(before) - 100
                  /\ witness.subject = message.subject =>
                        after # "none" /\ SubjectPoints(after) >= SubjectPoints(before)
<1> DEFINE before == SubjectsAgree(message, others)
           after == SubjectsAgree(message, others \union {witness})
<1>1. /\ SubjectPoints("all") = 80 /\ SubjectPoints("none") = -100
      /\ SubjectPoints("some") = 0 /\ SubjectPoints("unknown") = 0
  BY DEF SubjectPoints, Weight
<1>2. before \in {"all", "none", "some", "unknown"} /\ after \in {"all", "none", "some", "unknown"}
  BY DEF SubjectsAgree
<1>3. before = "all" => after # "none"
  BY DEF SubjectsAgree
<1>4. ASSUME witness.subject = message.subject, before # "none"
      PROVE  after # "none" /\ (before = "all" => after = "all")
  BY <1>4 DEF SubjectsAgree
<1> HIDE DEF before, after
<1>5. before # "none" =>
         /\ SubjectPoints(after) >= SubjectPoints(before) - 100
         /\ witness.subject = message.subject =>
               after # "none" /\ SubjectPoints(after) >= SubjectPoints(before)
  BY <1>1, <1>2, <1>3, <1>4
<1> QED
  BY <1>5 DEF before, after

LEMMA OneMoreCorrespondent ==
    ASSUME NEW message, NEW others, NEW witness
    PROVE  LET before == CorrespondentsAgree(message, others)
               after == CorrespondentsAgree(message, others \union {witness})
           IN  before # "none" =>
                  /\ PeoplePoints(after) >= PeoplePoints(before) - 100
                  /\ witness.correspondents \intersect message.correspondents # {} =>
                        after # "none" /\ PeoplePoints(after) >= PeoplePoints(before)
<1> DEFINE before == CorrespondentsAgree(message, others)
           after == CorrespondentsAgree(message, others \union {witness})
<1>1. /\ PeoplePoints("all") = 50 /\ PeoplePoints("none") = -100
      /\ PeoplePoints("some") = 0 /\ PeoplePoints("unknown") = 0
  BY DEF PeoplePoints, Weight
<1>2. before \in {"all", "none", "some", "unknown"} /\ after \in {"all", "none", "some", "unknown"}
  BY DEF CorrespondentsAgree
<1>3. before = "all" => after # "none"
  BY DEF CorrespondentsAgree
<1>4. ASSUME witness.correspondents \intersect message.correspondents # {}, before # "none"
      PROVE  after # "none" /\ (before = "all" => after = "all")
  BY <1>4 DEF CorrespondentsAgree
<1> HIDE DEF before, after
<1>5. before # "none" =>
         /\ PeoplePoints(after) >= PeoplePoints(before) - 100
         /\ witness.correspondents \intersect message.correspondents # {} =>
               after # "none" /\ PeoplePoints(after) >= PeoplePoints(before)
  BY <1>1, <1>2, <1>3, <1>4
<1> QED
  BY <1>5 DEF before, after

(* m gets the label: it becomes a witness for n, which costs n little.      *)
LEMMA PointsAfterRepair ==
    ASSUME NEW msgs, NEW after, NEW label, NEW m \in Messages, NEW n \in Messages, n # m,
           label \notin msgs[m].labels, label \in after[m].labels,
           after[m].subject = msgs[m].subject, after[m].correspondents = msgs[m].correspondents,
           \A k \in Messages \ {m} : after[k] = msgs[k],
           \E i, j \in Supporters(Thread, msgs, label) : i # j,
           InferenceConflicts(Thread, msgs, n, label) = {}
    PROVE  LET before == Points(Thread, msgs, n, label)
               points == Points(Thread, after, n, label)
           IN  /\ before \in Int /\ points \in Int /\ points >= before - 200
               /\ /\ msgs[m].subject = msgs[n].subject
                  /\ msgs[m].correspondents \intersect msgs[n].correspondents # {}
                  => points >= before /\ InferenceConflicts(Thread, after, n, label) = {}
<1> DEFINE others == Others(Thread, msgs, label)
<1>1. after[n] = msgs[n]
  OBVIOUS
<1>2. Supporters(Thread, msgs, label) \subseteq Supporters(Thread, after, label)
  BY DEF Supporters, Messages, Ids
<1>3. Others(Thread, after, label) = others \union {after[m]}
  <2>1. \A i \in DOMAIN Thread : Thread[i] \in Messages
    BY DEF Messages, Ids
  <2>2. Position(Thread, m) \in DOMAIN Thread /\ Thread[Position(Thread, m)] = m
    BY PositionType
  <2> QED
    BY <2>1, <2>2 DEF Others, Supporters
<1>4. /\ SupportDepth(Supporters(Thread, msgs, label)) = 150
      /\ SupportDepth(Supporters(Thread, after, label)) = 150
  BY <1>2, TwoWitnessesCount
<1>5. BetweenWitnesses(Thread, msgs, n, label) => BetweenWitnesses(Thread, after, n, label)
  BY <1>2 DEF BetweenWitnesses
<1> DEFINE between == Weight(BetweenWitnesses(Thread, msgs, n, label), 100)
           betweenAfter == Weight(BetweenWitnesses(Thread, after, n, label), 100)
           subject == SubjectPoints(SubjectsAgree(msgs[n], others))
           subjectAfter == SubjectPoints(SubjectsAgree(msgs[n], others \union {after[m]}))
           people == PeoplePoints(CorrespondentsAgree(msgs[n], others))
           peopleAfter == PeoplePoints(CorrespondentsAgree(msgs[n], others \union {after[m]}))
           hint == HintPoints(msgs[n], label)
<1>6. /\ between \in Int /\ betweenAfter \in Int /\ betweenAfter >= between
  BY <1>5 DEF Weight
<1>7. /\ subject \in Int /\ subjectAfter \in Int /\ people \in Int /\ peopleAfter \in Int
      /\ hint \in Int
  BY PointsType
<1>8. /\ SubjectsAgree(msgs[n], others) # "none" /\ CorrespondentsAgree(msgs[n], others) # "none"
      /\ ~Ambiguous(msgs[n], label)
  BY DEF InferenceConflicts
<1>9. subjectAfter >= subject - 100 /\ peopleAfter >= people - 100
  BY <1>8, OneMoreSubject, OneMoreCorrespondent
<1>10. ASSUME msgs[m].subject = msgs[n].subject,
              msgs[m].correspondents \intersect msgs[n].correspondents # {}
       PROVE  /\ subjectAfter >= subject /\ peopleAfter >= people
              /\ InferenceConflicts(Thread, after, n, label) = {}
  <2>1. after[m].subject = msgs[n].subject
        /\ after[m].correspondents \intersect msgs[n].correspondents # {}
    BY <1>10
  <2>2. /\ subjectAfter >= subject /\ peopleAfter >= people
        /\ SubjectsAgree(msgs[n], others \union {after[m]}) # "none"
        /\ CorrespondentsAgree(msgs[n], others \union {after[m]}) # "none"
    BY <1>8, <2>1, OneMoreSubject, OneMoreCorrespondent
  <2> QED
    BY <1>1, <1>3, <1>8, <2>2 DEF InferenceConflicts
<1>11. /\ Points(Thread, msgs, n, label) = 550 + 150 + between + subject + people + hint
       /\ Points(Thread, after, n, label)
             = 550 + 150 + betweenAfter + subjectAfter + peopleAfter + hint
  BY <1>1, <1>3, <1>4 DEF Points
<1> HIDE DEF between, betweenAfter, subject, subjectAfter, people, peopleAfter, hint
<1>12. /\ Points(Thread, msgs, n, label) \in Int /\ Points(Thread, after, n, label) \in Int
       /\ Points(Thread, after, n, label) >= Points(Thread, msgs, n, label) - 200
  BY <1>6, <1>7, <1>9, <1>11
<1>13. ASSUME msgs[m].subject = msgs[n].subject,
              msgs[m].correspondents \intersect msgs[n].correspondents # {}
       PROVE  /\ Points(Thread, after, n, label) >= Points(Thread, msgs, n, label)
              /\ InferenceConflicts(Thread, after, n, label) = {}
  BY <1>6, <1>7, <1>10, <1>11, <1>13
<1> QED
  BY <1>12, <1>13

LEMMA PointsAreIntegers ==
    ASSUME NEW msgs, NEW n, NEW label
    PROVE  Points(Thread, msgs, n, label) \in Int
<1> DEFINE depth == SupportDepth(Supporters(Thread, msgs, label))
           between == Weight(BetweenWitnesses(Thread, msgs, n, label), 100)
           subject == SubjectPoints(SubjectsAgree(msgs[n], Others(Thread, msgs, label)))
           people == PeoplePoints(CorrespondentsAgree(msgs[n], Others(Thread, msgs, label)))
           hint == HintPoints(msgs[n], label)
<1>1. depth \in Int /\ between \in Int /\ subject \in Int /\ people \in Int /\ hint \in Int
  BY PointsType, WeightRange
<1>2. Points(Thread, msgs, n, label) = 550 + depth + between + subject + people + hint
  BY DEF Points
<1> HIDE DEF depth, between, subject, people, hint
<1> QED
  BY <1>1, <1>2

(* What an eligible decision says of the score. *)
LEMMA EligibleScore ==
    ASSUME NEW msgs, NEW n, NEW label, Points(Thread, msgs, n, label) \in Int
    PROVE  /\ Decision(Infer(Thread, msgs, n, label)) = "ELIGIBLE_FOR_ADDITIVE_REPAIR" =>
                 /\ ~Vetoed(msgs[n], label) /\ Points(Thread, msgs, n, label) >= 900
                 /\ InferenceConflicts(Thread, msgs, n, label) = {}
           /\ ~Vetoed(msgs[n], label) /\ Points(Thread, msgs, n, label) >= 600 =>
                 Infer(Thread, msgs, n, label).label = label
           /\ /\ ~Vetoed(msgs[n], label) /\ Points(Thread, msgs, n, label) >= 900
              /\ InferenceConflicts(Thread, msgs, n, label) = {} /\ label # None
              => Decision(Infer(Thread, msgs, n, label)) = "ELIGIBLE_FOR_ADDITIVE_REPAIR"
<1> DEFINE points == Points(Thread, msgs, n, label)
           conflicts == InferenceConflicts(Thread, msgs, n, label)
           inference == Infer(Thread, msgs, n, label)
<1>1. CASE Vetoed(msgs[n], label)
  <2>1. inference = NoProposal({"direct_semantic_hint_conflicts_with_thread"})
    BY <1>1, Zenon DEF Infer
  <2> QED
    BY <1>1, <2>1 DEF NoProposal, Decision
<1>2. CASE ~Vetoed(msgs[n], label)
  <2>1. /\ inference.label = IF Confidence(points) >= 600 THEN label ELSE None
        /\ inference.score = Confidence(points) /\ inference.conflicts = conflicts
    <3>1. inference = [label |-> IF Confidence(points) >= 600 THEN label ELSE None,
                       score |-> Confidence(points), conflicts |-> conflicts]
      BY <1>2, Zenon DEF Infer
    <3> HIDE DEF inference, conflicts, points
    <3> QED
      BY <3>1
  <2>2. points >= 900 <=> Confidence(points) >= 900
    BY DEF Confidence
  <2>3. points >= 600 <=> Confidence(points) >= 600
    BY DEF Confidence
  <2>4. Confidence(points) \in Int
    BY DEF Confidence
  <2> HIDE DEF inference, conflicts, points
  <2>5. Decision(inference) = "ELIGIBLE_FOR_ADDITIVE_REPAIR" <=>
           inference.label # None /\ inference.score >= 900 /\ inference.conflicts = {}
    BY DEF Decision
  <2> QED
    BY <1>2, <2>1, <2>2, <2>3, <2>4, <2>5 DEF inference, conflicts, points
<1> QED
  BY <1>1, <1>2

-----------------------------------------------------------------------------
(* Labels and the trash. *)

(* Only labels are added. *)
Relabelling(message, more) ==
    /\ message.labels \subseteq more.labels
    /\ message.subject = more.subject /\ message.hints = more.hints
    /\ message.correspondents = more.correspondents
    /\ message.has_attachment = more.has_attachment

LEMMA LabelsAddTerms ==
    ASSUME NEW message, NEW more, Relabelling(message, more), NEW keywords
    PROVE  /\ SubjectOf(message) = SubjectOf(more)
           /\ Says(TaxonomyTerms(message), keywords) => Says(TaxonomyTerms(more), keywords)
BY DEF Relabelling, SubjectOf, TaxonomyTerms, SemanticLabels, Says

(* Some signal is there when some source has a cue. *)
LEMMA SomeDocumentSignal ==
    ASSUME NEW a \in BOOLEAN, NEW b \in BOOLEAN, NEW c \in BOOLEAN, NEW d \in BOOLEAN
    PROVE  LET signals == [filename |-> a, subject |-> b, taxonomy |-> c, correspondent |-> d]
           IN  (\E source \in DOMAIN signals : signals[source]) <=> a \/ b \/ c \/ d
OBVIOUS

LEMMA SomeDomainSignal ==
    ASSUME NEW b \in BOOLEAN, NEW c \in BOOLEAN, NEW d \in BOOLEAN
    PROVE  LET signals == [subject |-> b, taxonomy |-> c, correspondent |-> d]
           IN  (\E source \in DOMAIN signals : signals[source]) <=> b \/ c \/ d
OBVIOUS

(* A class without a cue had none before the labels came. *)
LEMMA LabelsAddClasses ==
    ASSUME NEW message, NEW more, Relabelling(message, more), NEW attachment
    PROVE  CandidateClasses(message, attachment) \subseteq CandidateClasses(more, attachment)
<1> SUFFICES ASSUME NEW class \in DocumentClasses,
                    LET signals == DocumentSignals(message, attachment, class)
                    IN  \E source \in DOMAIN signals : signals[source]
             PROVE  LET signals == DocumentSignals(more, attachment, class)
                    IN  \E source \in DOMAIN signals : signals[source]
  BY Zenon DEF CandidateClasses
<1> DEFINE Cue(texts) == Says(texts, DocumentKeywords[class])
<1>1. ASSUME NEW msg
      PROVE  LET signals == DocumentSignals(msg, attachment, class)
             IN  (\E source \in DOMAIN signals : signals[source]) <=>
                    \/ Cue({attachment.filename} \ {None}) \/ Cue(SubjectOf(msg))
                    \/ Cue(TaxonomyTerms(msg)) \/ Cue(msg.correspondents)
  <2>1. \A texts : Cue(texts) \in BOOLEAN
    BY DEF Says
  <2>2. DocumentSignals(msg, attachment, class) =
              [filename |-> Cue({attachment.filename} \ {None}), subject |-> Cue(SubjectOf(msg)),
               taxonomy |-> Cue(TaxonomyTerms(msg)), correspondent |-> Cue(msg.correspondents)]
    BY Zenon DEF DocumentSignals
  <2> HIDE DEF Cue
  <2> QED
    BY <2>1, <2>2, SomeDocumentSignal
<1>2. /\ SubjectOf(message) = SubjectOf(more)
      /\ Cue(TaxonomyTerms(message)) => Cue(TaxonomyTerms(more))
  BY LabelsAddTerms
<1>3. message.correspondents = more.correspondents
  BY DEF Relabelling
<1> HIDE DEF Cue
<1> QED
  BY <1>1, <1>2, <1>3, Zenon

(* What is generic with the labels was generic without them: it is         *)
(* decorative, or no class had a cue, and then only the type counts.       *)
LEMMA GenericWithoutLabels ==
    ASSUME NEW message, NEW more, Relabelling(message, more), NEW attachment,
           AssessDocument(more, attachment).significance = "generic_attachment"
    PROVE  AssessDocument(message, attachment) = AssessDocument(more, attachment)
<1>1. CASE Decorative(attachment)
  BY <1>1 DEF AssessDocument
<1>2. CASE ~Decorative(attachment)
  <2>1. ASSUME NEW classes
        PROVE  WithClass(more, attachment, classes).significance # "generic_attachment"
    BY DEF WithClass, UnknownDocument, Significant
  <2>2. CandidateClasses(more, attachment) = {}
    <3>1. SUFFICES ASSUME CandidateClasses(more, attachment) # {} PROVE FALSE
      OBVIOUS
    <3>2. AssessDocument(more, attachment) =
             WithClass(more, attachment, CandidateClasses(more, attachment))
      BY <1>2, <3>1, Zenon DEF AssessDocument
    <3> QED
      BY <2>1, <3>2
  <2>3. CandidateClasses(message, attachment) = {}
    BY <2>2, LabelsAddClasses
  <2> QED
    BY <1>2, <2>2, <2>3, Zenon DEF AssessDocument
<1> QED
  BY <1>1, <1>2

(* Labels never take a hint of a protected domain away. *)
LEMMA LabelsAddHints ==
    ASSUME NEW message, NEW more, Relabelling(message, more), NEW verdicts
    PROVE  HintedBy(message, verdicts) \subseteq HintedBy(more, verdicts)
<1> SUFFICES ASSUME NEW domain \in ProtectedDomains,
                    LET signals == DomainSignals(message, domain)
                    IN  \/ \E source \in DOMAIN signals : signals[source]
                        \/ DocumentsOf(domain, verdicts) # {}
             PROVE  LET signals == DomainSignals(more, domain)
                    IN  \/ \E source \in DOMAIN signals : signals[source]
                        \/ DocumentsOf(domain, verdicts) # {}
  BY Zenon DEF HintedBy
<1> DEFINE Cue(texts) == Says(texts, DomainKeywords[domain])
<1>1. ASSUME NEW msg
      PROVE  LET signals == DomainSignals(msg, domain)
             IN  (\E source \in DOMAIN signals : signals[source]) <=>
                    Cue(SubjectOf(msg)) \/ Cue(TaxonomyTerms(msg)) \/ Cue(msg.correspondents)
  <2>1. \A texts : Cue(texts) \in BOOLEAN
    BY DEF Says
  <2>2. DomainSignals(msg, domain) =
              [subject |-> Cue(SubjectOf(msg)), taxonomy |-> Cue(TaxonomyTerms(msg)),
               correspondent |-> Cue(msg.correspondents)]
    BY Zenon DEF DomainSignals
  <2> HIDE DEF Cue
  <2> QED
    BY <2>1, <2>2, SomeDomainSignal
<1>2. /\ SubjectOf(message) = SubjectOf(more)
      /\ Cue(TaxonomyTerms(message)) => Cue(TaxonomyTerms(more))
  BY LabelsAddTerms
<1>3. message.correspondents = more.correspondents
  BY DEF Relabelling
<1> HIDE DEF Cue
<1> QED
  BY <1>1, <1>2, <1>3, Zenon

(* What is found only by the subject and the hints. *)
LEMMA LabelsAreNoCues ==
    ASSUME NEW message, NEW more, Relabelling(message, more), NEW context
    PROVE  Classification(message, context) = Classification(more, context)
<1>1. CuedClasses(message) = CuedClasses(more)
  BY DEF CuedClasses, Relabelling, SubjectOf
<1> QED
  BY <1>1, Zenon DEF Classification

(* A candidate has no conflicts: nothing protects it, and its attachments  *)
(* are generic.                                                            *)
LEMMA CandidateIsClean ==
    ASSUME NEW message, NEW context, NEW verdicts, NEW requested,
           AssessObsolescence(message, context, verdicts,
                              ProtectionStatus(message, verdicts, requested)).recommendation
               = "review_for_future_trash"
    PROVE  /\ HintedBy(message, verdicts) = {} /\ requested = "complete"
           /\ \A v \in verdicts : v.significance \notin {"significant_document", "unknown"}
           /\ DocumentConflicts(message, context, verdicts) = {}
           /\ ContextConflicts(context, Classification(message, context).ambiguous) = {}
<1> DEFINE status == ProtectionStatus(message, verdicts, requested)
           found == Classification(message, context)
           conflicts == ObsolescenceConflicts(message, context, verdicts, status, found.ambiguous)
<1>1. AssessObsolescence(message, context, verdicts, status).recommendation =
         Recommendation(found.class, found.score, conflicts)
  <2>1. AssessObsolescence(message, context, verdicts, status) =
           [class |-> found.class, score |-> found.score, conflicts |-> conflicts,
            recommendation |-> Recommendation(found.class, found.score, conflicts)]
    BY Zenon DEF AssessObsolescence
  <2> HIDE DEF status, found, conflicts
  <2> QED
    BY <2>1
<1>2. conflicts = {}
  <2>1. Recommendation(found.class, found.score, conflicts) = "review_for_future_trash"
    BY <1>1
  <2> HIDE DEF found, conflicts, status
  <2> QED
    BY <2>1 DEF Recommendation
<1>3. /\ ProtectionConflicts(status) = {} /\ DocumentConflicts(message, context, verdicts) = {}
      /\ ContextConflicts(context, found.ambiguous) = {}
  BY <1>2, Zenon DEF ObsolescenceConflicts
<1>4. \/ status \in {"protected", "possibly_protected", "unknown"}
      \/ HintedBy(message, verdicts) = {} /\ requested = "complete"
  BY Zenon DEF ProtectionStatus
<1>5. HintedBy(message, verdicts) = {} /\ requested = "complete"
  <2> HIDE DEF status
  <2> QED
    BY <1>3, <1>4 DEF ProtectionConflicts
<1>6. \A v \in verdicts : v.significance \notin {"significant_document", "unknown"}
  BY <1>3 DEF DocumentConflicts
<1> QED
  BY <1>3, <1>5, <1>6

LEMMA SignificancesAreThree ==
    ASSUME NEW message, NEW attachment
    PROVE  AssessDocument(message, attachment).significance
              \in {"significant_document", "generic_attachment", "unknown"}
<1>1. \A score : /\ Generic(score).significance = "generic_attachment"
                 /\ UnknownDocument(score).significance = "unknown"
  BY DEF Generic, UnknownDocument
<1>2. WithoutClass(attachment).significance \in {"generic_attachment", "unknown"}
  BY <1>1, SMT DEF WithoutClass
<1>3. \A classes : WithClass(message, attachment, classes).significance
                      \in {"significant_document", "unknown"}
  BY DEF WithClass, UnknownDocument, Significant
<1> QED
  BY <1>1, <1>2, <1>3, SMT DEF AssessDocument

(* A message that is a candidate with more labels was one without them.    *)
LEMMA CandidateWithoutLabels ==
    ASSUME NEW message, NEW more, Relabelling(message, more),
           NEW known, NEW context, NEW requested, NEW repair, NEW labels, NEW oldRepair,
           NEW oldLabels,
           AuditRecord(more, known, context, requested, repair, labels).obsolescence.recommendation
               = "review_for_future_trash"
    PROVE  AuditRecord(message, known, context, requested, oldRepair, oldLabels)
               .obsolescence.recommendation = "review_for_future_trash"
<1> DEFINE Verdicts(msg) == {AssessDocument(msg, a) : a \in known}
           Effective(msg) == EffectiveCoverage(msg, known, requested)
           Status(msg) == ProtectionStatus(msg, Verdicts(msg), Effective(msg))
           believed == IF context = None THEN EmptyContext ELSE context
           Obsolete(msg) == AssessObsolescence(msg, believed, Verdicts(msg), Status(msg))
<1>1. \A msg, r, ls :
         AuditRecord(msg, known, context, requested, r, ls).obsolescence = Obsolete(msg)
  <2> SUFFICES ASSUME NEW msg, NEW r, NEW ls
               PROVE  AuditRecord(msg, known, context, requested, r, ls).obsolescence
                         = Obsolete(msg)
    OBVIOUS
  <2>1. PICK verdicts, coverages, protection, operational :
           AuditRecord(msg, known, context, requested, r, ls) =
             [verdicts |-> verdicts, coverage |-> coverages, protection |-> protection,
              obsolescence |-> Obsolete(msg), operational |-> operational, repair |-> r]
    BY Zenon DEF AuditRecord
  <2> HIDE DEF Obsolete
  <2> QED
    BY <2>1
<1>2. /\ HintedBy(more, Verdicts(more)) = {} /\ Effective(more) = "complete"
      /\ \A v \in Verdicts(more) : v.significance \notin {"significant_document", "unknown"}
  <2>1. Obsolete(more).recommendation = "review_for_future_trash"
    BY <1>1
  <2> HIDE DEF Verdicts, Effective, believed
  <2> QED
    BY <2>1, CandidateIsClean
<1>3. Verdicts(message) = Verdicts(more)
  <2>1. ASSUME NEW a \in known
        PROVE  AssessDocument(message, a) = AssessDocument(more, a)
    BY <1>2, SignificancesAreThree, GenericWithoutLabels
  <2> QED
    BY <2>1
<1>4. Effective(message) = Effective(more)
  BY DEF EffectiveCoverage, Relabelling
<1>5. Status(message) = Status(more)
  <2>1. HintedBy(message, Verdicts(message)) = {}
    <3> HIDE DEF Verdicts
    <3> QED
      BY <1>2, <1>3, LabelsAddHints
  <2> HIDE DEF Verdicts, Effective
  <2>2. ASSUME NEW msg, HintedBy(msg, Verdicts(msg)) = {}, Effective(msg) = "complete"
        PROVE  Status(msg) = "not_protected"
    BY <2>2 DEF ProtectionStatus
  <2> QED
    BY <1>2, <1>4, <2>1, <2>2
<1>6. Obsolete(message) = Obsolete(more)
  <2> HIDE DEF Verdicts, Effective, Status, believed
  <2>1. Classification(message, believed) = Classification(more, believed)
    BY LabelsAreNoCues
  <2>2. \A vs : DocumentConflicts(message, believed, vs) = DocumentConflicts(more, believed, vs)
    <3>1. message.has_attachment = more.has_attachment
      BY DEF Relabelling
    <3> QED
      BY <3>1, Zenon DEF DocumentConflicts
  <2> QED
    BY <1>3, <1>5, <2>1, <2>2, Zenon DEF AssessObsolescence, ObsolescenceConflicts
<1> QED
  BY <1>1, <1>6

(* Only labels of messages ever change. *)
LEMMA ChangesAreRelabellings ==
    ASSUME FactsTyped, Next
    PROVE  \A n \in Messages : /\ messages'[n].subject = messages[n].subject
                               /\ messages'[n].hints = messages[n].hints
                               /\ messages'[n].correspondents = messages[n].correspondents
                               /\ messages'[n].has_attachment = messages[n].has_attachment
<1>1. \/ UNCHANGED messages
      \/ \E m \in Messages : \E labels : SetLabels(m, labels)
  BY AuditAssumption DEF Next, Change, AddLabel, RemoveLabel, ApplyRepair, AcceptState,
                         LearnAttachments, LearnContext, AssertCoverage
<1>2. ASSUME NEW m \in Messages, NEW labels, SetLabels(m, labels), NEW n \in Messages
      PROVE  /\ messages'[n].subject = messages[n].subject
             /\ messages'[n].hints = messages[n].hints
             /\ messages'[n].correspondents = messages[n].correspondents
             /\ messages'[n].has_attachment = messages[n].has_attachment
  <2>1. messages'[n] = IF n = m THEN [messages[m] EXCEPT !.labels = labels] ELSE messages[n]
    BY <1>2 DEF SetLabels, FactsTyped
  <2>2. messages[m] \in MessageSnapshots
    BY DEF FactsTyped
  <2> QED
    BY <2>1, <2>2 DEF MessageSnapshots
<1> QED
  BY <1>1, <1>2

(* The report of a mailbox that was audited is about each message.         *)
LEMMA AuditedRecord ==
    ASSUME NEW msgs, NEW known, NEW ctxs, NEW requested,
           AuditOf(msgs, known, ctxs, requested) # NoReport, NEW m \in Messages
    PROVE  \E repair :
              AuditOf(msgs, known, ctxs, requested)[m] =
                 AuditRecord(msgs[m], known[m], ctxs[m], requested[m], repair, MailboxLabels(msgs))
<1>1. AuditOf(msgs, known, ctxs, requested)[m] =
         AuditRecord(msgs[m], known[m], ctxs[m], requested[m],
                     IF m \in DOMAIN DryRun(Thread, msgs) THEN DryRun(Thread, msgs)[m] ELSE NoRepair,
                     MailboxLabels(msgs))
  BY Zenon DEF AuditOf
<1> QED
  BY <1>1, Zenon

(* Generic means decorative, or of a worthless type and without a cue.     *)
LEMMA GenericIsWorthless ==
    ASSUME NEW message, NEW attachment,
           AssessDocument(message, attachment).significance = "generic_attachment"
    PROVE  \/ Decorative(attachment)
           \/ /\ attachment.kind \in {"image", "calendar"}
              /\ CandidateClasses(message, attachment) = {}
<1> SUFFICES ASSUME ~Decorative(attachment)
             PROVE  /\ attachment.kind \in {"image", "calendar"}
                    /\ CandidateClasses(message, attachment) = {}
  OBVIOUS
<1>1. CandidateClasses(message, attachment) = {}
  <2>1. SUFFICES ASSUME CandidateClasses(message, attachment) # {} PROVE FALSE
    OBVIOUS
  <2>2. AssessDocument(message, attachment) =
           WithClass(message, attachment, CandidateClasses(message, attachment))
    BY <2>1, Zenon DEF AssessDocument
  <2>3. ASSUME NEW classes
        PROVE  WithClass(message, attachment, classes).significance # "generic_attachment"
    BY DEF WithClass, UnknownDocument, Significant
  <2> QED
    BY <2>2, <2>3
<1>2. AssessDocument(message, attachment) = WithoutClass(attachment)
  BY <1>1, Zenon DEF AssessDocument
<1>3. attachment.kind \in {"image", "calendar"}
  BY <1>2 DEF WithoutClass, UnknownDocument
<1> QED
  BY <1>1, <1>3

(* A candidate is harmless by the facts.                                   *)
LEMMA CandidateIsHarmless ==
    ASSUME FactsTyped, ReportIsCurrent, NEW m \in Messages, TrashCandidate(report, m)
    PROVE  HarmlessByFacts(m)
<1> DEFINE message == messages[m]
           known == attachments[m]
           context == IF contexts[m] = None THEN EmptyContext ELSE contexts[m]
           verdicts == {AssessDocument(message, a) : a \in known}
           effective == EffectiveCoverage(message, known, coverage[m])
           status == ProtectionStatus(message, verdicts, effective)
           obsolete == AssessObsolescence(message, context, verdicts, status)
<1>1. report[m].protection = status /\ report[m].obsolescence = obsolete
  <2>1. AuditOf(messages, attachments, contexts, coverage) # NoReport
    BY DEF ReportIsCurrent, TrashCandidate, NoReport
  <2>2. PICK repair :
           report[m] = AuditRecord(message, known, contexts[m], coverage[m], repair,
                                   MailboxLabels(messages))
    BY <2>1, AuditedRecord DEF ReportIsCurrent
  <2>3. PICK operational :
           AuditRecord(message, known, contexts[m], coverage[m], repair, MailboxLabels(messages)) =
             [verdicts |-> verdicts, coverage |-> effective, protection |-> status,
              obsolescence |-> obsolete, operational |-> operational, repair |-> repair]
    BY Zenon DEF AuditRecord
  <2> HIDE DEF obsolete, status
  <2> QED
    BY <2>2, <2>3
<1>2. /\ HintedBy(message, verdicts) = {} /\ effective = "complete"
      /\ \A v \in verdicts : v.significance \notin {"significant_document", "unknown"}
      /\ DocumentConflicts(message, context, verdicts) = {}
      /\ ContextConflicts(context, Classification(message, context).ambiguous) = {}
  <2>1. obsolete.recommendation = "review_for_future_trash"
    BY <1>1 DEF TrashCandidate
  <2> HIDE DEF message, context, verdicts, effective
  <2> QED
    BY <2>1, CandidateIsClean
<1>3. /\ context.meaningful_correspondence \notin {TRUE, None}
      /\ context.payment_history \notin {TRUE, None}
      /\ context.account_access_record \notin {TRUE, None}
      /\ context.ambiguous_semantics \notin {TRUE, None}
  <2> HIDE DEF context
  <2> QED
    BY <1>2 DEF ContextConflicts
<1>4. contexts[m] # None /\ context = contexts[m]
  BY <1>3 DEF EmptyContext
<1>5. /\ contexts[m].meaningful_correspondence = FALSE /\ contexts[m].payment_history = FALSE
      /\ contexts[m].account_access_record = FALSE /\ contexts[m].ambiguous_semantics = FALSE
  <2>1. contexts[m] \in Contexts
    BY <1>4 DEF FactsTyped
  <2>2. /\ contexts[m].meaningful_correspondence \in Answers
        /\ contexts[m].payment_history \in Answers
        /\ contexts[m].account_access_record \in Answers
        /\ contexts[m].ambiguous_semantics \in Answers
    BY <2>1 DEF Contexts
  <2> QED
    BY <1>3, <1>4, <2>2 DEF Answers
<1>6. ~Blocks(report[m].protection)
  <2> HIDE DEF verdicts, effective
  <2>1. status = "not_protected"
    BY <1>2 DEF ProtectionStatus
  <2> QED
    BY <1>1, <2>1 DEF Blocks
<1>7. NamesNoDomain(message)
  <2> HIDE DEF verdicts, message
  <2>1. ASSUME NEW domain \in ProtectedDomains
        PROVE  ~Says(SubjectOf(message) \union TaxonomyTerms(message) \union message.correspondents,
                     DomainKeywords[domain])
    <3> DEFINE Cue(texts) == Says(texts, DomainKeywords[domain])
               signals == DomainSignals(message, domain)
    <3>1. ~ \E source \in DOMAIN signals : signals[source]
      BY <1>2, Zenon DEF HintedBy
    <3>2. \A texts : Cue(texts) \in BOOLEAN
      BY DEF Says
    <3>3. signals = [subject |-> Cue(SubjectOf(message)), taxonomy |-> Cue(TaxonomyTerms(message)),
                     correspondent |-> Cue(message.correspondents)]
      BY Zenon DEF DomainSignals
    <3>4. ~Cue(SubjectOf(message)) /\ ~Cue(TaxonomyTerms(message)) /\ ~Cue(message.correspondents)
      <4> HIDE DEF Cue, signals
      <4> QED
        BY <3>1, <3>2, <3>3, SomeDomainSignal
    <3> QED
      BY <3>4 DEF Says
  <2> QED
    BY <2>1 DEF NamesNoDomain
<1>8. coverage[m] = "complete"
  BY <1>2 DEF EffectiveCoverage
<1>9. HasNoDocument(message, known, contexts[m])
  <2>1. message.has_attachment => known # {}
    BY <1>2 DEF DocumentConflicts
  <2>2. message.has_attachment => contexts[m].document_assessment_complete = TRUE
    <3> HIDE DEF message, context
    <3>1. known # {} => verdicts # {}
      OBVIOUS
    <3> HIDE DEF verdicts
    <3> QED
      BY <1>2, <1>4, <2>1, <3>1 DEF DocumentConflicts
  <2>3. ASSUME NEW a \in known
        PROVE  \/ Decorative(a)
               \/ a.kind \in {"image", "calendar"} /\ CandidateClasses(message, a) = {}
    BY <1>2, SignificancesAreThree, GenericIsWorthless
  <2> HIDE DEF message, known
  <2> QED
    BY <2>1, <2>2, <2>3 DEF HasNoDocument
<1> QED
  BY <1>4, <1>5, <1>6, <1>7, <1>8, <1>9 DEF HarmlessByFacts

(* A candidate for the trash is harmless by the facts, whatever the        *)
(* vocabulary, the thread and the facts are.                               *)
THEOREM CandidatesAreHarmless ==
    Spec => [](\A m \in Messages : TrashCandidate(report, m) => HarmlessByFacts(m))
<1>1. FactsTyped /\ ReportIsCurrent =>
         \A m \in Messages : TrashCandidate(report, m) => HarmlessByFacts(m)
  BY CandidateIsHarmless
<1> QED
  BY <1>1, FactsStayTyped, PTL

(* Labels only protect, in every thread and with every vocabulary.         *)
LEMMA LabelsProtect ==
    ASSUME FactsTyped, ReportIsCurrent, ReportIsCurrent', [Next]_vars, NEW m \in Messages,
           \A n \in Messages : messages[n].labels \subseteq messages'[n].labels,
           UNCHANGED <<attachments, contexts, coverage>>, TrashCandidate(report', m)
    PROVE  TrashCandidate(report, m)
<1>1. CASE UNCHANGED vars
  BY <1>1 DEF vars, TrashCandidate
<1>2. CASE Next
  <2>1. \A n \in Messages : Relabelling(messages[n], messages'[n])
    BY <1>2, ChangesAreRelabellings DEF Relabelling
  <2>2. /\ report = AuditOf(messages, attachments, contexts, coverage)
        /\ report' = AuditOf(messages', attachments, contexts, coverage)
    BY DEF ReportIsCurrent
  <2>3. report' # NoReport
    BY DEF TrashCandidate, NoReport
  <2>4. ~Contradictory(messages', attachments)
    BY <2>2, <2>3, Zenon DEF AuditOf
  <2>5. ~Contradictory(messages, attachments)
    BY <2>1, <2>4 DEF Contradictory, Relabelling
  <2>6. PICK after :
           report'[m] = AuditRecord(messages'[m], attachments[m], contexts[m], coverage[m], after,
                                    MailboxLabels(messages'))
    BY <2>2, <2>3, AuditedRecord
  <2>7. report = [n \in Messages |->
                    AuditRecord(messages[n], attachments[n], contexts[n], coverage[n],
                                IF n \in DOMAIN DryRun(Thread, messages)
                                THEN DryRun(Thread, messages)[n] ELSE NoRepair,
                                MailboxLabels(messages))]
    BY <2>2, <2>5, Zenon DEF AuditOf
  <2>8. /\ m \in DOMAIN report
        /\ \E before : report[m] = AuditRecord(messages[m], attachments[m], contexts[m],
                                               coverage[m], before, MailboxLabels(messages))
    BY <2>7, Zenon
  <2>9. report[m].obsolescence.recommendation = "review_for_future_trash"
    BY <2>1, <2>6, <2>8, CandidateWithoutLabels DEF TrashCandidate
  <2> QED
    BY <2>8, <2>9 DEF TrashCandidate
<1> QED
  BY <1>1, <1>2

THEOREM LabelsOnlyProtect == Spec => LabelsNeverUncoverTrash
<1>1. FactsTyped /\ ReportIsCurrent /\ ReportIsCurrent' /\ [Next]_vars =>
         [\A m \in Messages :
             (\A n \in Messages : messages[n].labels \subseteq messages'[n].labels)
             /\ UNCHANGED <<attachments, contexts, coverage>>
             /\ TrashCandidate(report', m) => TrashCandidate(report, m)]_vars
  BY LabelsProtect
<1> QED
  BY <1>1, FactsStayTyped, PTL DEF Spec, LabelsNeverUncoverTrash

-----------------------------------------------------------------------------
(* Repairs, one after the other. *)

LEMMA RepairsAgree ==
    ASSUME FactsTyped, ReportIsCurrent, ReportIsCurrent', NEW m \in Messages, ApplyRepair(m)
    PROVE  /\ ThreadLabels(Thread, messages') = ThreadLabels(Thread, messages)
           /\ \A n \in Messages \ {m} : report[n].repair # NoRepair =>
                 /\ report'[n].repair.label \in {report[m].repair.label, None}
                 /\ Eligible(n) =>
                       \/ Eligible(n)'
                       \/ /\ report'[n].repair.label # None
                          /\ \/ messages[m].subject # messages[n].subject
                             \/ messages[m].correspondents
                                    \intersect messages[n].correspondents = {}
<1> DEFINE label == report[m].repair.label
<1>1. /\ Eligible(m) /\ label \notin messages[m].labels
      /\ messages' = [messages EXCEPT ![m].labels = messages[m].labels \union {label}]
      /\ UNCHANGED <<attachments, contexts, coverage>>
  BY DEF ApplyRepair, AddLabel, SetLabels
<1>2. /\ label \in Labels /\ LabelClassOf[label] = "user_semantic"
      /\ SemanticLabels(messages[m]) = {} /\ ThreadLabels(Thread, messages) = {label}
      /\ \E i, j \in Supporters(Thread, messages, label) : i # j
  BY <1>1, EligibleFacts
<1>3. /\ \A k \in Messages \ {m} : messages'[k] = messages[k]
      /\ messages'[m].labels = messages[m].labels \union {label}
      /\ messages'[m].subject = messages[m].subject
      /\ messages'[m].correspondents = messages[m].correspondents
      /\ \A k \in Messages : messages'[k].has_attachment = messages[k].has_attachment
  <2>1. messages[m] \in MessageSnapshots
    BY DEF FactsTyped
  <2>2. messages'[m] = [messages[m] EXCEPT !.labels = messages[m].labels \union {label}]
    BY <1>1 DEF FactsTyped
  <2>3. \A k \in Messages \ {m} : messages'[k] = messages[k]
    BY <1>1 DEF FactsTyped
  <2> HIDE DEF label
  <2> QED
    BY <2>1, <2>2, <2>3 DEF MessageSnapshots
<1> HIDE DEF label
<1>4. ThreadLabels(Thread, messages') = {label}
  <2>1. SemanticLabels(messages'[m]) = {label}
    BY <1>2, <1>3 DEF SemanticLabels
  <2>2. \A k \in Messages \ {m} : SemanticLabels(messages'[k]) = SemanticLabels(messages[k])
    BY <1>3
  <2>3. \A k \in Messages : SemanticLabels(messages[k]) \subseteq {label}
    BY <1>2 DEF ThreadLabels, Messages
  <2>4. \A k \in Messages : SemanticLabels(messages'[k]) \subseteq {label}
    BY <2>1, <2>2, <2>3
  <2> QED
    BY <2>1, <2>4 DEF ThreadLabels, Messages
<1>5. DOMAIN report = Messages /\ DOMAIN report' = Messages
  <2>1. m \in DOMAIN report
    BY <1>1 DEF Eligible
  <2>2. ~Contradictory(messages, attachments)
    <3>1. report # NoReport
      BY <2>1 DEF NoReport
    <3> QED
      BY <3>1, Zenon DEF ReportIsCurrent, AuditOf
  <2>3. ~Contradictory(messages', attachments')
    BY <1>1, <1>3, <2>2 DEF Contradictory
  <2>4. \A msgs, known, ctxs, requested :
           ~Contradictory(msgs, known) => DOMAIN AuditOf(msgs, known, ctxs, requested) = Messages
    BY DEF AuditOf
  <2> QED
    BY <2>2, <2>3, <2>4 DEF ReportIsCurrent
<1>6. ASSUME NEW n \in Messages \ {m}, report[n].repair # NoRepair
      PROVE  /\ report[n].repair = RepairOf(Thread, messages, n)
             /\ report'[n].repair = RepairOf(Thread, messages', n)
             /\ SemanticLabels(messages[n]) = {}
  <2>1. n \in Gaps(Thread, messages) /\ report[n].repair = RepairOf(Thread, messages, n)
    BY <1>5, <1>6, GapsAreReported DEF ReportIsCurrent
  <2>2. n \in Gaps(Thread, messages')
    BY <1>3, <1>4, <2>1 DEF Gaps
  <2>3. report'[n].repair = RepairOf(Thread, messages', n)
    BY <1>5, <2>2, GapsAreReported DEF ReportIsCurrent
  <2> QED
    BY <2>1, <2>3 DEF Gaps
<1>7. \A n : /\ Inference(Thread, messages, n) = Infer(Thread, messages, n, label)
             /\ Inference(Thread, messages', n) = Infer(Thread, messages', n, label)
  BY <1>2, <1>4, OneLabelIsInferred
<1>8. \A n : /\ RepairOf(Thread, messages, n).recommendation
                   = Decision(Infer(Thread, messages, n, label))
             /\ RepairOf(Thread, messages', n).recommendation
                   = Decision(Infer(Thread, messages', n, label))
             /\ RepairOf(Thread, messages', n).label = Infer(Thread, messages', n, label).label
  BY <1>7 DEF RepairOf
<1>9. ASSUME NEW n \in Messages \ {m}, report[n].repair # NoRepair
      PROVE  report'[n].repair.label \in {label, None}
  BY <1>6, <1>8, <1>9, InferredIsUndisputed
<1>10. ASSUME NEW n \in Messages \ {m}, report[n].repair # NoRepair, Eligible(n)
       PROVE  \/ Eligible(n)'
              \/ /\ report'[n].repair.label # None
                 /\ \/ messages[m].subject # messages[n].subject
                    \/ messages[m].correspondents
                           \intersect messages[n].correspondents = {}
  <2> DEFINE before == Points(Thread, messages, n, label)
             points == Points(Thread, messages', n, label)
  <2>1. Decision(Infer(Thread, messages, n, label)) = "ELIGIBLE_FOR_ADDITIVE_REPAIR"
    BY <1>6, <1>8, <1>10 DEF Eligible
  <2>2. before \in Int
    BY PointsAreIntegers
  <2>3. /\ ~Vetoed(messages[n], label) /\ before >= 900
        /\ InferenceConflicts(Thread, messages, n, label) = {}
    BY <2>1, <2>2, EligibleScore
  <2>4. /\ points \in Int /\ points >= before - 200
        /\ /\ messages[m].subject = messages[n].subject
           /\ messages[m].correspondents \intersect messages[n].correspondents # {}
           => points >= before /\ InferenceConflicts(Thread, messages', n, label) = {}
    <3>1. n \in Messages /\ n # m
      OBVIOUS
    <3>2. label \notin messages[m].labels /\ label \in messages'[m].labels
      BY <1>1, <1>3
    <3> QED
      BY <1>2, <1>3, <2>3, <3>1, <3>2, PointsAfterRepair
  <2>5. ~Vetoed(messages'[n], label)
    BY <1>3, <2>3
  <2>6. label # None
    BY <1>2, FactsAssumption
  <2> HIDE DEF before, points
  <2>7. report'[n].repair.label = label
    BY <1>6, <1>8, <1>10, <2>2, <2>3, <2>4, <2>5, EligibleScore DEF points
  <2>8. ASSUME messages[m].subject = messages[n].subject,
               messages[m].correspondents \intersect messages[n].correspondents # {}
        PROVE  Eligible(n)'
    <3>1. points >= 900 /\ InferenceConflicts(Thread, messages', n, label) = {}
      BY <2>2, <2>3, <2>4, <2>8
    <3>2. Decision(Infer(Thread, messages', n, label)) = "ELIGIBLE_FOR_ADDITIVE_REPAIR"
      BY <2>4, <2>5, <2>6, <3>1, EligibleScore DEF points
    <3> QED
      BY <1>5, <1>6, <1>8, <1>10, <3>2 DEF Eligible
  <2> QED
    BY <2>6, <2>7, <2>8
<1> QED
  BY <1>2, <1>4, <1>9, <1>10 DEF label

(* Following a repair never turns on the others, in any thread.            *)
THEOREM RepairsConverge == Spec => RepairsNeverCompete
<1>1. FactsTyped /\ ReportIsCurrent /\ ReportIsCurrent' /\ [Next]_vars =>
         [\A m \in Messages : ApplyRepair(m) =>
             /\ ThreadLabels(Thread, messages') = ThreadLabels(Thread, messages)
             /\ \A n \in Messages \ {m} : report[n].repair # NoRepair =>
                   /\ report'[n].repair.label \in {report[m].repair.label, None}
                   /\ Eligible(n) =>
                         \/ Eligible(n)'
                         \/ /\ report'[n].repair.label # None
                            /\ \/ messages[m].subject # messages[n].subject
                               \/ messages[m].correspondents
                                      \intersect messages[n].correspondents = {}]_vars
  BY RepairsAgree
<1> QED
  BY <1>1, FactsStayTyped, PTL DEF Spec, RepairsNeverCompete

-----------------------------------------------------------------------------
(* The verdicts have the classes and scores the report expects, however    *)
(* the scores round.                                                       *)

LEMMA ClassesAreFinite == IsFiniteSet(ObsolescenceClasses) /\ IsFiniteSet(DocumentClasses)
<1>1. \A a, b, c, d, e, f, g : IsFiniteSet({a, b, c, d, e, f, g})
  <2> TAKE a, b, c, d, e, f, g
  <2>1. \A x : IsFiniteSet({x})
    BY FS_Singleton
  <2>2. \A x, y : IsFiniteSet({x} \union {y})
    BY <2>1, FS_Union
  <2>3. IsFiniteSet(({a} \union {b}) \union ({c} \union {d}))
    BY <2>2, FS_Union
  <2>4. IsFiniteSet(({e} \union {f}) \union {g})
    BY <2>1, <2>2, FS_Union
  <2>5. IsFiniteSet((({a} \union {b}) \union ({c} \union {d})) \union (({e} \union {f}) \union {g}))
    BY <2>3, <2>4, FS_Union
  <2>6. {a, b, c, d, e, f, g}
           = (({a} \union {b}) \union ({c} \union {d})) \union (({e} \union {f}) \union {g})
    OBVIOUS
  <2> QED
    BY <2>5, <2>6
<1>2. ObsolescenceClasses =
         {"expired_one_time_code", "old_marketing_campaign", "transient_service_notification",
          "obsolete_product_announcement", "discontinued_service_notification",
          "low_value_automated_mail", "low_value_automated_mail"}
  BY DEF ObsolescenceClasses, ObsolescenceKeywords
<1>3. DocumentClasses =
         {"contract", "tax", "insurance", "receipt", "invoice", "administrative", "medical"}
  BY DEF DocumentClasses, DocumentKeywords
<1> QED
  BY <1>1, <1>2, <1>3, Zenon

LEMMA ObsolescenceScoreType ==
    ASSUME NEW class \in ObsolescenceClasses, NEW context
    PROVE  ObsolescenceScore(class, context) \in Numbers
<1> DEFINE low == class = "low_value_automated_mail"
           confirmation == Confirmation(class, context)
           automated == context.automated_sender = TRUE
           casual == low /\ context.meaningful_correspondence = FALSE
           old == context.age = "old"
           weight == IF low THEN 200 ELSE 100
           weights == <<Literal(700), When(confirmation.holds, confirmation.weight),
                        When(automated, weight), When(casual, 100), When(old, 100)>>
<1>1. confirmation.weight \in 0..1000 /\ weight \in 0..1000 /\ 100 \in 0..1000
  BY DEF Confirmation, ObsolescenceClasses, ObsolescenceKeywords
<1>2. ObsolescenceScore(class, context) = Sum(weights)
  BY Zenon DEF ObsolescenceScore
<1> HIDE DEF confirmation, automated, casual, old, weight
<1>3. Literal(700) \in Numbers
  BY LiteralType
<1>4. /\ When(confirmation.holds, confirmation.weight) \in Numbers
      /\ When(automated, weight) \in Numbers /\ When(casual, 100) \in Numbers
      /\ When(old, 100) \in Numbers
  <2>1. \A signal : \A number \in 0..1000 : When(signal, number) \in Numbers
    BY WhenType
  <2>2. When(confirmation.holds, confirmation.weight) \in Numbers
    BY <1>1, <2>1
  <2>3. When(automated, weight) \in Numbers
    BY <1>1, <2>1
  <2>4. When(casual, 100) \in Numbers
    BY <1>1, <2>1
  <2>5. When(old, 100) \in Numbers
    BY <1>1, <2>1
  <2> QED
    BY <2>2, <2>3, <2>4, <2>5
<1>5. weights \in Seq(Numbers)
  BY <1>3, <1>4
<1> HIDE DEF weights
<1> QED
  BY <1>2, <1>5, SumType

LEMMA DocumentScoreType ==
    ASSUME NEW message, NEW attachment, NEW class
    PROVE  DocumentScore(message, attachment, class) \in Numbers
<1> DEFINE signals == DocumentSignals(message, attachment, class)
           document == attachment.kind = "document"
           attached == attachment.disposition = "attachment"
           repeated == attachment.repeated
           weights == <<When(signals.filename, 500), When(signals.subject, 200),
                        When(signals.taxonomy, 200), When(signals.correspondent, 100),
                        When(document, 150), When(attached, 50)>>
<1>1. DocumentScore(message, attachment, class) = Minus(Sum(weights), When(repeated, 200))
  BY Zenon DEF DocumentScore, DocumentSum
<1> HIDE DEF signals, document, attached, repeated
<1>2. /\ When(signals.filename, 500) \in Numbers /\ When(signals.subject, 200) \in Numbers
      /\ When(signals.taxonomy, 200) \in Numbers /\ When(signals.correspondent, 100) \in Numbers
      /\ When(document, 150) \in Numbers /\ When(attached, 50) \in Numbers
      /\ When(repeated, 200) \in Numbers
  BY WhenType
<1>3. weights \in Seq(Numbers)
  BY <1>2
<1> HIDE DEF weights
<1> QED
  BY <1>1, <1>2, <1>3, SumType, PlusType

(* The class and the score of a verdict on obsolescence. *)
LEMMA ClassificationType ==
    ASSUME NEW message, NEW context
    PROVE  LET found == Classification(message, context)
           IN  found.class \in ObsolescenceClasses \union {"unknown"} /\ found.score \in Numbers
<1> DEFINE classes == CuedClasses(message)
           score == [class \in classes |-> ObsolescenceScore(class, context)]
           supports == {Support(class, ObsolescenceScore(class, context)) : class \in classes}
           best == Strongest(supports)
           ambiguous == Contested(best, supports)
           found == Classification(message, context)
<1>1. classes \subseteq ObsolescenceClasses /\ IsFiniteSet(classes)
  BY ClassesAreFinite, FS_Subset DEF CuedClasses
<1>2. CASE supports = {}
  <2>1. found = [class |-> "unknown", score |-> Literal(0), ambiguous |-> FALSE]
    BY <1>2, Zenon DEF Classification
  <2>2. found.class = "unknown" /\ found.score = Literal(0)
    BY <2>1
  <2> QED
    BY <2>2, LiteralType
<1>3. CASE supports # {}
  <2>1. score \in [classes -> Numbers] /\ classes # {}
    BY <1>1, <1>3, ObsolescenceScoreType
  <2>2. supports = {Support(class, score[class]) : class \in classes}
    OBVIOUS
  <2>3. best \in supports
    <3> HIDE DEF score, classes, supports
    <3> QED
      BY <1>1, <2>1, <2>2, StrongestExists, Zenon
  <2>4. best.class \in ObsolescenceClasses /\ best.score \in Numbers
    <3>1. PICK class \in classes : best = Support(class, ObsolescenceScore(class, context))
      BY <2>3
    <3> HIDE DEF best, classes
    <3>2. best.class = class /\ best.score = ObsolescenceScore(class, context)
      BY <3>1 DEF Support
    <3> QED
      BY <1>1, <3>2, ObsolescenceScoreType
  <2>5. found = [class |-> IF ambiguous THEN "unknown" ELSE best.class,
                 score |-> Clamp(best.score), ambiguous |-> ambiguous]
    BY <1>3, Zenon DEF Classification
  <2> HIDE DEF best, ambiguous, found
  <2>6. found.class \in {"unknown", best.class} /\ found.score = Clamp(best.score)
    BY <2>5
  <2> QED
    BY <2>4, <2>6, ClampType DEF found
<1> QED
  BY <1>2, <1>3

LEMMA DocumentVerdictType ==
    ASSUME NEW message, NEW attachment
    PROVE  AssessDocument(message, attachment) \in DocumentVerdicts
<1>1. \A score \in 0..1000 : /\ Generic(score) \in DocumentVerdicts
                             /\ UnknownDocument(score) \in DocumentVerdicts
  BY LiteralType DEF Generic, UnknownDocument, DocumentVerdicts, Numbers
<1>2. \A class \in DocumentClasses : \A score \in Numbers :
         Significant(class, score) \in DocumentVerdicts
  BY ClampType DEF Significant, DocumentVerdicts, Numbers
<1>3. WithoutClass(attachment) \in DocumentVerdicts
  <2>1. \A a \in {550, 800, 900, 400} : a \in 0..1000
    OBVIOUS
  <2> QED
    BY <1>1, <2>1 DEF WithoutClass
<1>4. ASSUME NEW classes \in SUBSET DocumentClasses, classes # {}
      PROVE  WithClass(message, attachment, classes) \in DocumentVerdicts
  <2> DEFINE score == [class \in classes |-> DocumentScore(message, attachment, class)]
             supports == {Support(class, DocumentScore(message, attachment, class)) :
                             class \in classes}
             best == Strongest(supports)
  <2>1. IsFiniteSet(classes) /\ score \in [classes -> Numbers]
    BY ClassesAreFinite, FS_Subset, DocumentScoreType
  <2>2. supports = {Support(class, score[class]) : class \in classes}
    OBVIOUS
  <2>3. best \in supports
    <3> HIDE DEF score, supports
    <3> QED
      BY <1>4, <2>1, <2>2, StrongestExists, Zenon
  <2>4. best.class \in DocumentClasses /\ best.score \in Numbers
    <3>1. PICK class \in classes : best = Support(class, DocumentScore(message, attachment, class))
      BY <2>3
    <3> HIDE DEF best
    <3>2. best.class = class /\ best.score = DocumentScore(message, attachment, class)
      BY <3>1 DEF Support
    <3> QED
      BY <3>2, DocumentScoreType
  <2>5. \/ WithClass(message, attachment, classes) = UnknownDocument(550)
        \/ WithClass(message, attachment, classes) = UnknownDocument(850)
        \/ WithClass(message, attachment, classes) = Significant(best.class, best.score)
    BY DEF WithClass
  <2>6. UnknownDocument(550) \in DocumentVerdicts /\ UnknownDocument(850) \in DocumentVerdicts
    BY <1>1
  <2> HIDE DEF best
  <2>7. Significant(best.class, best.score) \in DocumentVerdicts
    BY <1>2, <2>4
  <2> QED
    BY <2>5, <2>6, <2>7
<1>5. Generic(990) \in DocumentVerdicts /\ Generic(970) \in DocumentVerdicts
  BY <1>1
<1>6. CandidateClasses(message, attachment) \in SUBSET DocumentClasses
  BY DEF CandidateClasses
<1> QED
  BY <1>3, <1>4, <1>5, <1>6, Zenon DEF AssessDocument

(* A candidate for the trash stands out: its score is 995 thousandths on   *)
(* paper, not only as a double, and no other class comes near.             *)
LEMMA CandidateStandsOut ==
    ASSUME NEW message, NEW context, NEW verdicts, NEW status,
           AssessObsolescence(message, context, verdicts, status).recommendation
               = "review_for_future_trash"
    PROVE  StandsOut(message, context)
<1> DEFINE classes == CuedClasses(message)
           score == [class \in classes |-> ObsolescenceScore(class, context)]
           supports == {Support(class, ObsolescenceScore(class, context)) : class \in classes}
           best == Strongest(supports)
           ambiguous == Contested(best, supports)
           found == Classification(message, context)
           conflicts == ObsolescenceConflicts(message, context, verdicts, status, found.ambiguous)
<1>1. Recommendation(found.class, found.score, conflicts) = "review_for_future_trash"
  <2>1. AssessObsolescence(message, context, verdicts, status) =
           [class |-> found.class, score |-> found.score, conflicts |-> conflicts,
            recommendation |-> Recommendation(found.class, found.score, conflicts)]
    BY Zenon DEF AssessObsolescence
  <2> HIDE DEF found, conflicts
  <2> QED
    BY <2>1
<1>2. found.class # "unknown" /\ AtLeast(found.score, Literal(995))
  <2> HIDE DEF found, conflicts
  <2> QED
    BY <1>1 DEF Recommendation
<1>3. supports # {}
  <2>1. SUFFICES ASSUME supports = {} PROVE FALSE
    OBVIOUS
  <2>2. found = [class |-> "unknown", score |-> Literal(0), ambiguous |-> FALSE]
    BY <2>1, Zenon DEF Classification
  <2> HIDE DEF found
  <2> QED
    BY <1>2, <2>2
<1>4. found = [class |-> IF ambiguous THEN "unknown" ELSE best.class,
               score |-> Clamp(best.score), ambiguous |-> ambiguous]
  BY <1>3, Zenon DEF Classification
<1>5. ~ambiguous /\ AtLeast(Clamp(best.score), Literal(995))
  <2> HIDE DEF found, best, ambiguous
  <2> QED
    BY <1>2, <1>4
<1>6. classes \subseteq ObsolescenceClasses /\ IsFiniteSet(classes)
  BY ClassesAreFinite, FS_Subset DEF CuedClasses
<1>7. score \in [classes -> Numbers] /\ classes # {}
  BY <1>3, <1>6, ObsolescenceScoreType
<1>8. best \in supports
  <2>1. supports = {Support(class, score[class]) : class \in classes}
    OBVIOUS
  <2> HIDE DEF score, classes, supports
  <2> QED
    BY <1>6, <1>7, <2>1, StrongestExists, Zenon
<1>9. PICK class \in classes : best = Support(class, score[class])
  BY <1>8
<1> HIDE DEF classes, best
<1>10. best.class = class /\ best.score = score[class] /\ score[class] \in Numbers
  BY <1>7, <1>9 DEF Support
<1>11. score[class].t \in Int /\ score[class].t >= 995
  <2>1. /\ Literal(0) \in Numbers /\ Literal(995) \in Numbers /\ Literal(1000) \in Numbers
        /\ Literal(0).t = 0 /\ Literal(995).t = 995 /\ Literal(1000).t = 1000
    BY LiteralType
  <2>2. AtLeast(Clamp(score[class]), Literal(995))
    BY <1>5, <1>10
  <2> HIDE DEF score
  <2> QED
    BY <1>10, <2>1, <2>2 DEF Clamp, AtLeast, Numbers
<1>12. ASSUME NEW other \in classes \ {class}
       PROVE  score[class].t - score[other].t >= 100
  <2>1. score[other] \in Numbers
    BY <1>7
  <2>2. Support(other, score[other]) \in supports \ {best}
    BY <1>9 DEF Support
  <2> HIDE DEF score, supports
  <2>3. \/ ~AtLeast(score[other], Literal(600))
        \/ AtLeast(Minus(score[class], score[other]), Literal(100))
    <3>1. Support(other, score[other]).score = score[other]
      BY DEF Support
    <3> QED
      BY <1>5, <1>10, <2>2, <3>1, Zenon DEF ambiguous, Contested
  <2>4. /\ Literal(600) \in Numbers /\ Literal(600).t = 600
        /\ Literal(100) \in Numbers /\ Literal(100).t = 100
    BY LiteralType
  <2>5. /\ Minus(score[class], score[other]) \in Numbers
        /\ Minus(score[class], score[other]).t = score[class].t - score[other].t
    BY <1>10, <2>1, PlusType
  <2> QED
    BY <1>10, <1>11, <2>1, <2>3, <2>4, <2>5 DEF AtLeast, Numbers
<1>13. \A c \in classes : score[c] = ObsolescenceScore(c, context)
  OBVIOUS
<1> HIDE DEF score
<1>14. /\ ObsolescenceScore(class, context).t >= 995
       /\ \A other \in classes \ {class} :
             ObsolescenceScore(class, context).t - ObsolescenceScore(other, context).t >= 100
  BY <1>11, <1>12, <1>13
<1> QED
  BY <1>14 DEF StandsOut, classes

-----------------------------------------------------------------------------
(* The type invariant, and what a candidate for the trash is. *)

(* A proposal is one of a state the message does not have, for a label     *)
(* that stands for the state.                                              *)
LEMMA ProposalType ==
    ASSUME NEW state \in OperationalStates, NEW available \in SUBSET Labels
    PROVE  LET p == ProposalFor(state, available)
           IN  /\ p \in [state : OperationalStates, label : Labels, creates : BOOLEAN]
               /\ p.state = state /\ CatalogState[p.label] = state
<1> DEFINE existing == {l \in OperationalLabels(available) : CatalogState[l] = state}
           label == IF existing = {} \/ PreferredLabel[state] \in existing
                    THEN PreferredLabel[state] ELSE CHOOSE l \in existing : TRUE
<1>1. label \in Labels /\ CatalogState[label] = state
  <2>1. CASE existing = {} \/ PreferredLabel[state] \in existing
    BY <2>1, OperationalAssumption
  <2>2. CASE ~(existing = {} \/ PreferredLabel[state] \in existing)
    BY <2>2 DEF OperationalLabels
  <2> QED
    BY <2>1, <2>2
<1>2. ProposalFor(state, available) = [state |-> state, creates |-> existing = {}, label |-> label]
  BY Zenon DEF ProposalFor
<1> DEFINE creates == existing = {}
<1>3. creates \in BOOLEAN
  OBVIOUS
<1> HIDE DEF label, creates
<1> QED
  BY <1>1, <1>2, <1>3 DEF creates

LEMMA OperationalType ==
    ASSUME NEW message \in MessageSnapshots, NEW verdicts, NEW available \in SUBSET Labels
    PROVE  AssessOperational(message, verdicts, available, LayerEnabled) \in
              [current : SUBSET OperationalStates,
               proposals : SUBSET [state : OperationalStates, label : Labels, creates : BOOLEAN],
               conflicts : SUBSET OperationalConflictKinds,
               recommendation : OperationalRecommendations]
<1> DEFINE current == CurrentStates(message)
           proposals == Proposals(message, verdicts, available)
           conflicts == OperationalConflicts(current, {p.state : p \in proposals}, Unmapped(message))
           recommendation == IF conflicts # {} THEN "review_required"
                             ELSE IF proposals # {} THEN "propose_operational_state"
                             ELSE IF current # {} THEN "already_satisfied" ELSE "no_proposal"
<1>1. current \in SUBSET OperationalStates
  <2>1. message.labels \subseteq Labels
    BY DEF MessageSnapshots
  <2> QED
    BY <2>1, OperationalAssumption DEF CurrentStates, OperationalLabels
<1>2. proposals \in SUBSET [state : OperationalStates, label : Labels, creates : BOOLEAN]
  <2>1. ProposedStates(message, verdicts) \subseteq OperationalStates
    BY DEF ProposedStates
  <2> QED
    BY <2>1, ProposalType DEF Proposals
<1>3. conflicts \in SUBSET OperationalConflictKinds
  BY DEF OperationalConflicts
<1>4. recommendation \in OperationalRecommendations /\ "disabled" \in OperationalRecommendations
  BY DEF OperationalRecommendations
<1>5. AssessOperational(message, verdicts, available, LayerEnabled) \in
         {[current |-> {}, proposals |-> {}, conflicts |-> {}, recommendation |-> "disabled"],
          [current |-> current, proposals |-> proposals, conflicts |-> conflicts,
           recommendation |-> recommendation]}
  BY Zenon DEF AssessOperational
<1> HIDE DEF current, proposals, conflicts, recommendation
<1> QED
  BY <1>1, <1>2, <1>3, <1>4, <1>5

LEMMA ObsolescenceType ==
    ASSUME NEW message, NEW context, NEW verdicts, NEW status
    PROVE  status \in Statuses =>
           AssessObsolescence(message, context, verdicts, status) \in
              [class : ObsolescenceClasses \union {"unknown"}, score : [t : Int, r : Int],
               conflicts : SUBSET Conflicts, recommendation : Recommendations]
<1> DEFINE found == Classification(message, context)
           conflicts == ObsolescenceConflicts(message, context, verdicts, status, found.ambiguous)
           recommendation == Recommendation(found.class, found.score, conflicts)
<1> SUFFICES ASSUME status \in Statuses
             PROVE  AssessObsolescence(message, context, verdicts, status) \in
                       [class : ObsolescenceClasses \union {"unknown"}, score : [t : Int, r : Int],
                        conflicts : SUBSET Conflicts, recommendation : Recommendations]
  OBVIOUS
<1>1. found.class \in ObsolescenceClasses \union {"unknown"} /\ found.score \in [t : Int, r : Int]
  BY ClassificationType, Zenon DEF Numbers
<1>2. conflicts \in SUBSET Conflicts
  <2>1. ProtectionConflicts(status) \subseteq Conflicts
    BY DEF ProtectionConflicts, Conflicts, Statuses
  <2>2. DocumentConflicts(message, context, verdicts) \subseteq Conflicts
    BY DEF DocumentConflicts, Conflicts
  <2>3. ContextConflicts(context, found.ambiguous) \subseteq Conflicts
    BY DEF ContextConflicts, Conflicts
  <2> QED
    BY <2>1, <2>2, <2>3 DEF ObsolescenceConflicts
<1>3. recommendation \in Recommendations
  BY DEF Recommendation, Recommendations
<1>4. AssessObsolescence(message, context, verdicts, status) =
         [class |-> found.class, score |-> found.score, conflicts |-> conflicts,
          recommendation |-> recommendation]
  BY Zenon DEF AssessObsolescence
<1> HIDE DEF found, conflicts, recommendation
<1> QED
  BY <1>1, <1>2, <1>3, <1>4

LEMMA RepairType ==
    ASSUME NEW msgs \in [Messages -> MessageSnapshots], NEW m
    PROVE  RepairOf(Thread, msgs, m) \in
              [label : Labels \union {None}, score : Int, conflicts : SUBSET RepairConflicts,
               recommendation : RepairRecommendations \union {"NO_ENTRY"}]
<1> DEFINE inference == Inference(Thread, msgs, m)
           labels == ThreadLabels(Thread, msgs)
<1>1. \A conflicts \in SUBSET RepairConflicts :
         /\ NoProposal(conflicts).label = None /\ NoProposal(conflicts).score = 0
         /\ NoProposal(conflicts).conflicts = conflicts
  BY DEF NoProposal
<1>2. ASSUME NEW label \in Labels
      PROVE  LET found == Infer(Thread, msgs, m, label)
             IN  /\ found.label \in Labels \union {None} /\ found.score \in Int
                 /\ found.conflicts \in SUBSET RepairConflicts
  <2> DEFINE points == Points(Thread, msgs, m, label)
             found == Infer(Thread, msgs, m, label)
             conflicts == InferenceConflicts(Thread, msgs, m, label)
  <2>1. Confidence(points) \in Int
    BY PointsAreIntegers DEF Confidence
  <2>2. conflicts \in SUBSET RepairConflicts
    BY DEF InferenceConflicts, RepairConflicts
  <2>3. CASE Vetoed(msgs[m], label)
    <3>1. found = NoProposal({"direct_semantic_hint_conflicts_with_thread"})
      BY <2>3, Zenon DEF Infer
    <3>2. {"direct_semantic_hint_conflicts_with_thread"} \in SUBSET RepairConflicts
      BY DEF RepairConflicts
    <3> HIDE DEF found
    <3> QED
      BY <1>1, <3>1, <3>2 DEF found
  <2>4. CASE ~Vetoed(msgs[m], label)
    <3>1. found = [label |-> IF Confidence(points) >= 600 THEN label ELSE None,
                   score |-> Confidence(points), conflicts |-> conflicts]
      BY <2>4, Zenon DEF Infer
    <3> HIDE DEF found, points, conflicts
    <3> QED
      BY <2>1, <2>2, <3>1 DEF found
  <2> QED
    BY <2>3, <2>4
<1>3. /\ inference.label \in Labels \union {None} /\ inference.score \in Int
      /\ inference.conflicts \in SUBSET RepairConflicts
  <2>1. CASE Cardinality(labels) # 1
    <3>1. inference = NoProposal({"competing_thread_semantic_labels"})
      BY <2>1, Zenon DEF Inference
    <3>2. {"competing_thread_semantic_labels"} \in SUBSET RepairConflicts
      BY DEF RepairConflicts
    <3> HIDE DEF inference
    <3> QED
      BY <1>1, <3>1, <3>2
  <2>2. CASE Cardinality(labels) = 1
    <3>1. PICK label : labels = {label}
      BY <2>2, ThreadLabelsType, FS_Singleton
    <3>2. label \in Labels
      BY <3>1, ThreadLabelsType
    <3>3. inference = Infer(Thread, msgs, m, label)
      BY <3>1, OneLabelIsInferred
    <3> HIDE DEF inference
    <3> QED
      BY <1>2, <3>2, <3>3
  <2> QED
    BY <2>1, <2>2
<1> DEFINE decision == Decision(inference)
<1>4. decision \in RepairRecommendations
  BY DEF Decision, RepairRecommendations
<1>5. RepairOf(Thread, msgs, m) =
         [label |-> inference.label, score |-> inference.score,
          conflicts |-> inference.conflicts, recommendation |-> decision]
  BY Zenon DEF RepairOf
<1> HIDE DEF inference, decision
<1> QED
  BY <1>3, <1>4, <1>5

(* The record of a message, once the mailbox was audited. *)
RecordOf(msgs, known, ctxs, requested, m) ==
    LET verdicts == {AssessDocument(msgs[m], a) : a \in known[m]}
        effective == EffectiveCoverage(msgs[m], known[m], requested[m])
        status == ProtectionStatus(msgs[m], verdicts, effective)
        context == IF ctxs[m] = None THEN EmptyContext ELSE ctxs[m]
    IN  [verdicts |-> verdicts, coverage |-> effective, protection |-> status,
         obsolescence |-> AssessObsolescence(msgs[m], context, verdicts, status),
         operational |-> AssessOperational(msgs[m], verdicts, MailboxLabels(msgs), LayerEnabled),
         repair |-> IF m \in Gaps(Thread, msgs) THEN RepairOf(Thread, msgs, m) ELSE NoRepair]

LEMMA RecordParts ==
    ASSUME NEW msgs, NEW known, NEW ctxs, NEW requested,
           NEW m \in DOMAIN AuditOf(msgs, known, ctxs, requested)
    PROVE  /\ m \in Messages
           /\ AuditOf(msgs, known, ctxs, requested)[m] = RecordOf(msgs, known, ctxs, requested, m)
<1>1. AuditOf(msgs, known, ctxs, requested) # NoReport
  BY DEF NoReport
<1>2. m \in Messages
  BY GapsAreReported
<1>3. AuditOf(msgs, known, ctxs, requested)[m] =
         AuditRecord(msgs[m], known[m], ctxs[m], requested[m],
                     IF m \in DOMAIN DryRun(Thread, msgs) THEN DryRun(Thread, msgs)[m] ELSE NoRepair,
                     MailboxLabels(msgs))
  BY <1>1, <1>2, Zenon DEF AuditOf
<1>4. (IF m \in DOMAIN DryRun(Thread, msgs) THEN DryRun(Thread, msgs)[m] ELSE NoRepair) =
         IF m \in Gaps(Thread, msgs) THEN RepairOf(Thread, msgs, m) ELSE NoRepair
  BY DEF DryRun
<1> QED
  BY <1>2, <1>3, <1>4, Zenon DEF AuditRecord, RecordOf

LEMMA TypedReport ==
    ASSUME FactsTyped, ReportIsCurrent
    PROVE  TypeOK
<1> SUFFICES ASSUME report # NoReport PROVE report \in [Messages -> Records]
  BY DEF TypeOK
<1>1. ~Contradictory(messages, attachments)
  BY Zenon DEF ReportIsCurrent, AuditOf
<1>2. report = [m \in Messages |->
                  AuditRecord(messages[m], attachments[m], contexts[m], coverage[m],
                              IF m \in DOMAIN DryRun(Thread, messages)
                              THEN DryRun(Thread, messages)[m] ELSE NoRepair,
                              MailboxLabels(messages))]
  BY <1>1, Zenon DEF ReportIsCurrent, AuditOf
<1>3. \A m \in Messages : m \in DOMAIN report
  BY <1>2, Zenon
<1>4. messages \in [Messages -> MessageSnapshots]
  BY DEF FactsTyped
<1>5. ASSUME NEW m \in Messages PROVE report[m] \in Records
  <2> DEFINE message == messages[m]
             verdicts == {AssessDocument(message, a) : a \in attachments[m]}
             effective == EffectiveCoverage(message, attachments[m], coverage[m])
             status == ProtectionStatus(message, verdicts, effective)
             context == IF contexts[m] = None THEN EmptyContext ELSE contexts[m]
             obsolescence == AssessObsolescence(message, context, verdicts, status)
             operational == AssessOperational(message, verdicts, MailboxLabels(messages),
                                              LayerEnabled)
             repair == IF m \in Gaps(Thread, messages) THEN RepairOf(Thread, messages, m)
                       ELSE NoRepair
  <2>1. report[m] = [verdicts |-> verdicts, coverage |-> effective, protection |-> status,
                     obsolescence |-> obsolescence, operational |-> operational,
                     repair |-> repair]
    <3>1. report = AuditOf(messages, attachments, contexts, coverage)
      BY DEF ReportIsCurrent
    <3>2. m \in DOMAIN AuditOf(messages, attachments, contexts, coverage)
      BY <1>3, <3>1
    <3>3. report[m] = RecordOf(messages, attachments, contexts, coverage, m)
      BY <3>1, <3>2, RecordParts, Zenon
    <3> QED
      BY <3>3, Zenon DEF RecordOf
  <2>2. verdicts \in SUBSET DocumentVerdicts
    BY DocumentVerdictType
  <2>3. effective \in {"partial", "complete"}
    BY DEF EffectiveCoverage, FactsTyped
  <2>4. status \in Statuses
    <3> HIDE DEF verdicts, effective, message
    <3> QED
      BY DEF ProtectionStatus, Statuses
  <2>5. obsolescence \in [class : ObsolescenceClasses \union {"unknown"}, score : [t : Int, r : Int],
                          conflicts : SUBSET Conflicts, recommendation : Recommendations]
    <3> HIDE DEF verdicts, effective, status, context, message
    <3> QED
      BY <2>4, ObsolescenceType
  <2>6. operational \in
           [current : SUBSET OperationalStates,
            proposals : SUBSET [state : OperationalStates, label : Labels, creates : BOOLEAN],
            conflicts : SUBSET OperationalConflictKinds,
            recommendation : OperationalRecommendations]
    <3>1. MailboxLabels(messages) \in SUBSET Labels
      BY <1>4, AuditAssumption DEF MailboxLabels, MessageSnapshots
    <3>2. message \in MessageSnapshots
      BY <1>4
    <3> HIDE DEF verdicts, message
    <3> QED
      BY <3>1, <3>2, OperationalType
  <2>7. repair \in [label : Labels \union {None}, score : Int, conflicts : SUBSET RepairConflicts,
                    recommendation : RepairRecommendations \union {"NO_ENTRY"}]
    <3>1. NoRepair \in [label : Labels \union {None}, score : Int,
                        conflicts : SUBSET RepairConflicts,
                        recommendation : RepairRecommendations \union {"NO_ENTRY"}]
      BY DEF NoRepair
    <3> QED
      BY <1>4, <3>1, RepairType
  <2> HIDE DEF verdicts, effective, status, obsolescence, operational, repair
  <2> QED
    BY <2>1, <2>2, <2>3, <2>4, <2>5, <2>6, <2>7 DEF Records
<1> QED
  BY <1>2, <1>5

(* The type invariant, for every thread, classifier and vocabulary: the    *)
(* report always says what its readers expect.                             *)
THEOREM AuditTypeCorrect == Spec => []TypeOK
<1>1. FactsTyped /\ ReportIsCurrent => TypeOK
  BY TypedReport
<1> QED
  BY <1>1, FactsStayTyped, PTL

LEMMA TrashState ==
    ASSUME FactsTyped, ReportIsCurrent
    PROVE  TrashIsHarmless
<1> SUFFICES ASSUME NEW m \in Messages, TrashCandidate(report, m)
             PROVE  HarmlessByFacts(m) /\ StandsOut(messages[m], contexts[m])
  BY DEF TrashIsHarmless
<1>1. HarmlessByFacts(m)
  BY CandidateIsHarmless
<1>2. contexts[m] # None
  BY <1>1 DEF HarmlessByFacts
<1>3. PICK verdicts, status :
         report[m].obsolescence = AssessObsolescence(messages[m], contexts[m], verdicts, status)
  <2> DEFINE verdicts == {AssessDocument(messages[m], a) : a \in attachments[m]}
             effective == EffectiveCoverage(messages[m], attachments[m], coverage[m])
             status == ProtectionStatus(messages[m], verdicts, effective)
             context == IF contexts[m] = None THEN EmptyContext ELSE contexts[m]
             obsolescence == AssessObsolescence(messages[m], context, verdicts, status)
             operational == AssessOperational(messages[m], verdicts, MailboxLabels(messages),
                                              LayerEnabled)
             repair == IF m \in Gaps(Thread, messages) THEN RepairOf(Thread, messages, m)
                       ELSE NoRepair
  <2>1. report = AuditOf(messages, attachments, contexts, coverage)
    BY DEF ReportIsCurrent
  <2>2. m \in DOMAIN AuditOf(messages, attachments, contexts, coverage)
    BY <2>1 DEF TrashCandidate
  <2>3. report[m] = [verdicts |-> verdicts, coverage |-> effective, protection |-> status,
                     obsolescence |-> obsolescence, operational |-> operational,
                     repair |-> repair]
    <3>1. report[m] = RecordOf(messages, attachments, contexts, coverage, m)
      BY <2>1, <2>2, RecordParts, Zenon
    <3> QED
      BY <3>1, Zenon DEF RecordOf
  <2>4. context = contexts[m]
    BY <1>2
  <2> HIDE DEF verdicts, effective, status, obsolescence, operational, repair
  <2>5. report[m].obsolescence = obsolescence
    BY <2>3
  <2> QED
    BY <2>4, <2>5, Zenon DEF obsolescence
<1>4. StandsOut(messages[m], contexts[m])
  <2>1. AssessObsolescence(messages[m], contexts[m], verdicts, status).recommendation
           = "review_for_future_trash"
    BY <1>3 DEF TrashCandidate
  <2> QED
    BY <2>1, CandidateStandsOut
<1> QED
  BY <1>1, <1>4

(* For every vocabulary, thread, context and set of attachments, what the  *)
(* audit names a candidate for the trash is harmless, and its class won by *)
(* what the weights add up to on paper, not by how doubles round.          *)
THEOREM TrashCandidatesAreHarmless == Spec => []TrashIsHarmless
<1>1. FactsTyped /\ ReportIsCurrent => TrashIsHarmless
  BY TrashState
<1> QED
  BY <1>1, FactsStayTyped, PTL

-----------------------------------------------------------------------------
(* Accepted proposals. *)

(* What the comparisons look at: two messages that differ only in labels.  *)
Alike(message, other) ==
    message.subject = other.subject /\ message.correspondents = other.correspondents

LEMMA ComparisonsSkipLabels ==
    ASSUME NEW message, NEW other, Alike(message, other), NEW old, NEW new,
           \A o \in old : \E o2 \in new : Alike(o, o2), \A o2 \in new : \E o \in old : Alike(o, o2)
    PROVE  /\ SubjectsAgree(other, new) = SubjectsAgree(message, old)
           /\ CorrespondentsAgree(other, new) = CorrespondentsAgree(message, old)
<1>1. SubjectsAgree(other, new) = SubjectsAgree(message, old)
  <2> DEFINE knownOld == {o \in old : o.subject # None}
             knownNew == {o \in new : o.subject # None}
  <2>1. /\ knownNew = {} <=> knownOld = {}
        /\ (\A o \in knownNew : o.subject = message.subject)
              <=> (\A o \in knownOld : o.subject = message.subject)
        /\ (\A o \in knownNew : o.subject # message.subject)
              <=> (\A o \in knownOld : o.subject # message.subject)
    BY DEF Alike
  <2> QED
    BY <2>1 DEF SubjectsAgree, Alike
<1>2. CorrespondentsAgree(other, new) = CorrespondentsAgree(message, old)
  <2> DEFINE knownOld == {o \in old : o.correspondents # {}}
             knownNew == {o \in new : o.correspondents # {}}
             Meets(o) == o.correspondents \intersect message.correspondents # {}
  <2>1. /\ knownNew = {} <=> knownOld = {}
        /\ (\A o \in knownNew : Meets(o)) <=> (\A o \in knownOld : Meets(o))
        /\ (\A o \in knownNew : ~Meets(o)) <=> (\A o \in knownOld : ~Meets(o))
    BY DEF Alike
  <2> QED
    BY <2>1 DEF CorrespondentsAgree, Alike
<1> QED
  BY <1>1, <1>2

LEMMA RepairsSkipOtherLabels ==
    ASSUME NEW msgs \in [Messages -> MessageSnapshots], NEW after,
           \A k \in Messages : /\ SemanticLabels(after[k]) = SemanticLabels(msgs[k])
                               /\ after[k].subject = msgs[k].subject
                               /\ after[k].correspondents = msgs[k].correspondents
                               /\ after[k].hints = msgs[k].hints,
           NEW n \in Messages
    PROVE  /\ Gaps(Thread, after) = Gaps(Thread, msgs)
           /\ RepairOf(Thread, after, n) = RepairOf(Thread, msgs, n)
<1>1. ThreadLabels(Thread, after) = ThreadLabels(Thread, msgs)
  BY DEF ThreadLabels, Messages
<1>2. Gaps(Thread, after) = Gaps(Thread, msgs)
  BY <1>1 DEF Gaps, Messages
<1>3. ASSUME NEW label, LabelClassOf[label] = "user_semantic"
      PROVE  Infer(Thread, after, n, label) = Infer(Thread, msgs, n, label)
  <2> DEFINE witnesses == Supporters(Thread, msgs, label)
  <2>1. \A i \in DOMAIN Thread : Thread[i] \in Messages
    BY DEF Messages, Ids
  <2>2. Supporters(Thread, after, label) = witnesses
    <3>1. \A k \in Messages : label \in after[k].labels <=> label \in msgs[k].labels
      BY <1>3 DEF SemanticLabels
    <3> QED
      BY <2>1, <3>1 DEF Supporters
  <2> DEFINE old == Others(Thread, msgs, label)
             new == Others(Thread, after, label)
  <2>3. /\ \A o \in old : \E o2 \in new : Alike(o, o2)
        /\ \A o2 \in new : \E o \in old : Alike(o, o2)
    BY <2>1, <2>2 DEF Others, Supporters, Alike
  <2>4. /\ SubjectsAgree(after[n], Others(Thread, after, label))
              = SubjectsAgree(msgs[n], Others(Thread, msgs, label))
        /\ CorrespondentsAgree(after[n], Others(Thread, after, label))
              = CorrespondentsAgree(msgs[n], Others(Thread, msgs, label))
    <3>1. Alike(msgs[n], after[n])
      BY DEF Alike
    <3> QED
      BY <2>3, <3>1, ComparisonsSkipLabels
  <2>5. /\ Vetoed(after[n], label) <=> Vetoed(msgs[n], label)
        /\ Ambiguous(after[n], label) <=> Ambiguous(msgs[n], label)
        /\ HintPoints(after[n], label) = HintPoints(msgs[n], label)
    BY DEF Vetoed, Ambiguous, HintPoints
  <2>6. BetweenWitnesses(Thread, after, n, label) <=> BetweenWitnesses(Thread, msgs, n, label)
    BY <2>2 DEF BetweenWitnesses
  <2>7. Points(Thread, after, n, label) = Points(Thread, msgs, n, label)
    <3> HIDE DEF witnesses
    <3>1. Weight(BetweenWitnesses(Thread, after, n, label), 100)
             = Weight(BetweenWitnesses(Thread, msgs, n, label), 100)
      BY <2>6 DEF Weight
    <3> QED
      BY <2>2, <2>4, <2>5, <3>1, Zenon DEF Points, witnesses
  <2>8. InferenceConflicts(Thread, after, n, label) = InferenceConflicts(Thread, msgs, n, label)
    BY <2>4, <2>5 DEF InferenceConflicts
  <2> QED
    BY <2>5, <2>7, <2>8 DEF Infer
<1>4. Inference(Thread, after, n) = Inference(Thread, msgs, n)
  <2>1. CASE Cardinality(ThreadLabels(Thread, msgs)) # 1
    BY <1>1, <2>1, Zenon DEF Inference
  <2>2. CASE Cardinality(ThreadLabels(Thread, msgs)) = 1
    <3>1. PICK label : ThreadLabels(Thread, msgs) = {label}
      BY <2>2, ThreadLabelsType, FS_Singleton
    <3>2. LabelClassOf[label] = "user_semantic"
      BY <3>1, ThreadLabelsType
    <3>3. /\ Inference(Thread, after, n) = Infer(Thread, after, n, label)
          /\ Inference(Thread, msgs, n) = Infer(Thread, msgs, n, label)
      BY <1>1, <3>1, OneLabelIsInferred
    <3> QED
      BY <1>3, <3>2, <3>3
  <2> QED
    BY <2>1, <2>2
<1> QED
  BY <1>2, <1>4, Zenon DEF RepairOf

(* What the report says of the operational layer and the repair of a       *)
(* message.                                                                *)
LEMMA ReportedParts ==
    ASSUME NEW msgs, NEW known, NEW ctxs, NEW requested,
           NEW m \in DOMAIN AuditOf(msgs, known, ctxs, requested)
    PROVE  LET entry == AuditOf(msgs, known, ctxs, requested)[m]
           IN  /\ m \in Messages
               /\ \E verdicts :
                     entry.operational = AssessOperational(msgs[m], verdicts, MailboxLabels(msgs),
                                                           LayerEnabled)
               /\ entry.repair = IF m \in Gaps(Thread, msgs) THEN RepairOf(Thread, msgs, m)
                                 ELSE NoRepair
<1> DEFINE verdicts == {AssessDocument(msgs[m], a) : a \in known[m]}
           operational == AssessOperational(msgs[m], verdicts, MailboxLabels(msgs), LayerEnabled)
           repair == IF m \in Gaps(Thread, msgs) THEN RepairOf(Thread, msgs, m) ELSE NoRepair
           entry == RecordOf(msgs, known, ctxs, requested, m)
<1>1. m \in Messages /\ AuditOf(msgs, known, ctxs, requested)[m] = entry
  BY RecordParts, Zenon
<1>2. \E a, b, c, d : entry = [verdicts |-> a, coverage |-> b, protection |-> c, obsolescence |-> d,
                               operational |-> operational, repair |-> repair]
  BY Zenon DEF RecordOf
<1>3. entry.operational = operational /\ entry.repair = repair
  <2> HIDE DEF operational, repair, entry
  <2> QED
    BY <1>2
<1> HIDE DEF entry, verdicts
<1> QED
  BY <1>1, <1>3, Zenon

LEMMA AcceptedStatesSettle ==
    ASSUME FactsTyped, ReportIsCurrent, ReportIsCurrent', NEW m \in DOMAIN report,
           NEW p \in report[m].operational.proposals, AcceptState(m, p),
           LabelClassOf[p.label] = "user_operational"
    PROVE  /\ p.state \in report'[m].operational.current
           /\ \A q \in report'[m].operational.proposals : q.state # p.state
           /\ \A n \in Messages : report'[n].repair = report[n].repair
<1>1. /\ report = AuditOf(messages, attachments, contexts, coverage)
      /\ report' = AuditOf(messages', attachments, contexts, coverage)
  BY DEF ReportIsCurrent, AcceptState, AddLabel, SetLabels
<1>2. messages \in [Messages -> MessageSnapshots]
  BY DEF FactsTyped
<1>3. m \in Messages
  BY <1>1, GapsAreReported
<1>4. /\ \A k \in Messages \ {m} : messages'[k] = messages[k]
      /\ messages'[m].labels = messages[m].labels \union {p.label}
      /\ messages'[m].subject = messages[m].subject /\ messages'[m].hints = messages[m].hints
      /\ messages'[m].correspondents = messages[m].correspondents
      /\ messages'[m].has_attachment = messages[m].has_attachment
  <2>1. messages' = [messages EXCEPT ![m].labels = messages[m].labels \union {p.label}]
    BY DEF AcceptState, AddLabel, SetLabels
  <2>2. messages'[m] = [messages[m] EXCEPT !.labels = messages[m].labels \union {p.label}]
    BY <1>2, <1>3, <2>1
  <2>3. \A k \in Messages \ {m} : messages'[k] = messages[k]
    BY <1>2, <2>1
  <2>4. messages[m] \in MessageSnapshots
    BY <1>2, <1>3
  <2> QED
    BY <2>2, <2>3, <2>4 DEF MessageSnapshots
<1>5. DOMAIN report = Messages /\ DOMAIN report' = Messages
  <2>1. \A msgs, known, ctxs, requested :
           ~Contradictory(msgs, known) => DOMAIN AuditOf(msgs, known, ctxs, requested) = Messages
    BY DEF AuditOf
  <2>2. ~Contradictory(messages, attachments)
    <3>1. AuditOf(messages, attachments, contexts, coverage) # NoReport
      BY <1>1 DEF NoReport
    <3> QED
      BY <3>1, Zenon DEF AuditOf
  <2>3. ~Contradictory(messages', attachments)
    BY <1>4, <2>2 DEF Contradictory
  <2> QED
    BY <1>1, <2>1, <2>2, <2>3
<1>6. p.state \in OperationalStates /\ CatalogState[p.label] = p.state /\ LayerEnabled
  <2>1. PICK verdicts :
           report[m].operational = AssessOperational(messages[m], verdicts, MailboxLabels(messages),
                                                     LayerEnabled)
    BY <1>1, ReportedParts
  <2>2. LayerEnabled
    <3>1. SUFFICES ASSUME ~LayerEnabled PROVE FALSE
      OBVIOUS
    <3>2. report[m].operational = [current |-> {}, proposals |-> {}, conflicts |-> {},
                                   recommendation |-> "disabled"]
      BY <2>1, <3>1, Zenon DEF AssessOperational
    <3> QED
      BY <3>2
  <2>3. report[m].operational.proposals = Proposals(messages[m], verdicts, MailboxLabels(messages))
    BY <2>1, <2>2 DEF AssessOperational
  <2>4. PICK state \in OperationalStates : p = ProposalFor(state, MailboxLabels(messages))
    BY <2>3 DEF Proposals, ProposedStates
  <2>5. MailboxLabels(messages) \in SUBSET Labels
    BY <1>2, AuditAssumption DEF MailboxLabels, MessageSnapshots
  <2> QED
    BY <2>2, <2>4, <2>5, ProposalType
<1>7. p.state \in CurrentStates(messages'[m])
  BY <1>4, <1>6, OperationalAssumption DEF CurrentStates, OperationalLabels
<1>8. PICK verdicts :
         report'[m].operational = AssessOperational(messages'[m], verdicts, MailboxLabels(messages'),
                                                    LayerEnabled)
  BY <1>1, <1>3, <1>5, ReportedParts
<1>9. /\ report'[m].operational.current = CurrentStates(messages'[m])
      /\ report'[m].operational.proposals
            = Proposals(messages'[m], verdicts, MailboxLabels(messages'))
  BY <1>6, <1>8 DEF AssessOperational
<1>10. ASSUME NEW q \in report'[m].operational.proposals
       PROVE  q.state # p.state
  <2>1. PICK state \in ProposedStates(messages'[m], verdicts) :
           q = ProposalFor(state, MailboxLabels(messages'))
    BY <1>9 DEF Proposals
  <2>2. q.state = state
    BY <2>1 DEF ProposalFor
  <2>3. state \notin CurrentStates(messages'[m])
    BY DEF ProposedStates
  <2> QED
    BY <1>7, <2>2, <2>3
<1>11. ASSUME NEW n \in Messages
       PROVE  report'[n].repair = report[n].repair
  <2>1. \A k \in Messages : /\ SemanticLabels(messages'[k]) = SemanticLabels(messages[k])
                            /\ messages'[k].subject = messages[k].subject
                            /\ messages'[k].correspondents = messages[k].correspondents
                            /\ messages'[k].hints = messages[k].hints
    <3>1. SemanticLabels(messages'[m]) = SemanticLabels(messages[m])
      BY <1>4 DEF SemanticLabels
    <3> QED
      BY <1>4, <3>1
  <2>2. /\ Gaps(Thread, messages') = Gaps(Thread, messages)
        /\ RepairOf(Thread, messages', n) = RepairOf(Thread, messages, n)
    BY <1>2, <2>1, RepairsSkipOtherLabels
  <2>3. /\ report[n].repair = IF n \in Gaps(Thread, messages) THEN RepairOf(Thread, messages, n)
                              ELSE NoRepair
        /\ report'[n].repair = IF n \in Gaps(Thread, messages') THEN RepairOf(Thread, messages', n)
                               ELSE NoRepair
    BY <1>1, <1>5, ReportedParts
  <2> QED
    BY <2>2, <2>3, Zenon
<1> QED
  BY <1>7, <1>9, <1>10, <1>11

(* An accepted proposal is settled, in every thread, with every classifier *)
(* and catalog that know its label: it is not proposed again, and it turns *)
(* no repair on or off.                                                    *)
THEOREM AcceptedProposalsSettle == Spec => ProposalsSettle
<1>1. FactsTyped /\ ReportIsCurrent /\ ReportIsCurrent' =>
         [\A m \in DOMAIN report :
             \A p \in report[m].operational.proposals :
                 AcceptState(m, p) /\ LabelClassOf[p.label] = "user_operational" =>
                     /\ p.state \in report'[m].operational.current
                     /\ \A q \in report'[m].operational.proposals : q.state # p.state
                     /\ \A n \in Messages : report'[n].repair = report[n].repair]_vars
  BY AcceptedStatesSettle
<1> QED
  BY <1>1, FactsStayTyped, PTL DEF ProposalsSettle
=============================================================================
