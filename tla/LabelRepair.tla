----------------------------- MODULE LabelRepair -----------------------------
(***************************************************************************)
(* The dry run of label repair: detection.py finds messages without a      *)
(* semantic label in a thread that has some, inference.py scores the one   *)
(* label of the others, reporting.py decides.  Scores are rounded to three *)
(* decimals before they are compared, so here they are whole thousandths.  *)
(***************************************************************************)
EXTENDS Facts, Sequences

RepairRecommendations == {"ELIGIBLE_FOR_ADDITIVE_REPAIR", "REVIEW_REQUIRED", "NO_ACTION"}

RepairConflicts ==
    {"competing_thread_semantic_labels", "direct_semantic_hint_conflicts_with_thread",
     "subject_discontinuity", "correspondent_discontinuity", "ambiguous_direct_semantic_hints"}

Ids(thread) == {thread[i] : i \in DOMAIN thread}

-----------------------------------------------------------------------------
(* Detection.  The target has no semantic label, so those of the thread are*)
(* those of its neighbours.                                                *)

ThreadLabels(thread, messages) == UNION {SemanticLabels(messages[m]) : m \in Ids(thread)}

Gaps(thread, messages) ==
    {m \in Ids(thread) :
        SemanticLabels(messages[m]) = {} /\ ThreadLabels(thread, messages) # {}}

-----------------------------------------------------------------------------
(* Inference *)

Supporters(thread, messages, label) == {i \in DOMAIN thread : label \in messages[thread[i]].labels}

Weight(signal, weight) == IF signal THEN weight ELSE 0

(* Both sides of the comparisons skip messages that have no such metadata. *)
SubjectsAgree(message, others) ==
    LET known == {o \in others : o.subject # None}
    IN  IF message.subject = None \/ known = {} THEN "unknown"
        ELSE IF \A o \in known : o.subject = message.subject THEN "all"
        ELSE IF \A o \in known : o.subject # message.subject THEN "none" ELSE "some"

CorrespondentsAgree(message, others) ==
    LET known == {o \in others : o.correspondents # {}}
        Meets(o) == o.correspondents \intersect message.correspondents # {}
    IN  IF message.correspondents = {} \/ known = {} THEN "unknown"
        ELSE IF \A o \in known : Meets(o) THEN "all"
        ELSE IF \A o \in known : ~Meets(o) THEN "none" ELSE "some"

(* Mutant: exactly two witnesses, not at least two.                        *)
SupportDepthOfTwo(supporters) == IF Cardinality(supporters) = 2 THEN 150 ELSE 50

SupportDepth(supporters) == IF Cardinality(supporters) >= 2 THEN 150 ELSE 50

NoProposal(conflicts) == [label |-> None, score |-> 0, conflicts |-> conflicts]

Others(thread, messages, label) ==
    {messages[thread[i]] : i \in Supporters(thread, messages, label)}

Position(thread, m) == CHOOSE i \in DOMAIN thread : thread[i] = m

BetweenWitnesses(thread, messages, m, label) ==
    \E i, j \in Supporters(thread, messages, label) :
        i < Position(thread, m) /\ Position(thread, m) < j

Ambiguous(message, label) == label \in message.hints /\ message.hints # {label}

(* Every signal adds to the score or takes from it. *)
SubjectPoints(subjects) == Weight(subjects = "all", 80) - Weight(subjects = "none", 100)

PeoplePoints(people) == Weight(people = "all", 50) - Weight(people = "none", 100)

HintPoints(message, label) ==
    Weight(message.hints = {label}, 120) - Weight(Ambiguous(message, label), 150)

Points(thread, messages, m, label) ==
    550 + SupportDepth(Supporters(thread, messages, label))
        + Weight(BetweenWitnesses(thread, messages, m, label), 100)
        + SubjectPoints(SubjectsAgree(messages[m], Others(thread, messages, label)))
        + PeoplePoints(CorrespondentsAgree(messages[m], Others(thread, messages, label)))
        + HintPoints(messages[m], label)

(* Never below 250. *)
Confidence(points) == IF points > 1000 THEN 1000 ELSE points

InferenceConflicts(thread, messages, m, label) ==
    {c \in {"subject_discontinuity", "correspondent_discontinuity",
            "ambiguous_direct_semantic_hints"} :
        CASE c = "subject_discontinuity" ->
                 SubjectsAgree(messages[m], Others(thread, messages, label)) = "none"
          [] c = "correspondent_discontinuity" ->
                 CorrespondentsAgree(messages[m], Others(thread, messages, label)) = "none"
          [] c = "ambiguous_direct_semantic_hints" -> Ambiguous(messages[m], label)}

(* The target's hints may veto the label of the thread. *)
Vetoed(message, label) == message.hints # {} /\ label \notin message.hints

Infer(thread, messages, m, label) ==
    LET score == Confidence(Points(thread, messages, m, label))
    IN  IF Vetoed(messages[m], label)
        THEN NoProposal({"direct_semantic_hint_conflicts_with_thread"})
        ELSE [label |-> IF score >= 600 THEN label ELSE None, score |-> score,
              conflicts |-> InferenceConflicts(thread, messages, m, label)]

(* Mutant: among competing labels the majority wins.                       *)
InferenceByMajority(thread, messages, m) ==
    LET Backing(label) == Cardinality(Supporters(thread, messages, label))
        labels == ThreadLabels(thread, messages)
    IN  Infer(thread, messages, m,
              CHOOSE label \in labels : \A other \in labels : Backing(label) >= Backing(other))

(* Competing labels of a thread are never resolved. *)
Inference(thread, messages, m) ==
    LET labels == ThreadLabels(thread, messages)
    IN  IF Cardinality(labels) # 1 THEN NoProposal({"competing_thread_semantic_labels"})
        ELSE Infer(thread, messages, m, CHOOSE label \in labels : TRUE)

-----------------------------------------------------------------------------
(* Decision *)

Decision(inference) ==
    IF inference.label = None THEN "NO_ACTION"
    ELSE IF inference.score >= 900 /\ inference.conflicts = {}
    THEN "ELIGIBLE_FOR_ADDITIVE_REPAIR" ELSE "REVIEW_REQUIRED"

RepairOf(thread, messages, m) ==
    LET inference == Inference(thread, messages, m)
    IN  [label |-> inference.label, score |-> inference.score,
         conflicts |-> inference.conflicts, recommendation |-> Decision(inference)]

(* build_dry_run_report: one entry for each gap of the thread. *)
DryRun(thread, messages) ==
    [m \in Gaps(thread, messages) |-> RepairOf(thread, messages, m)]
=============================================================================
