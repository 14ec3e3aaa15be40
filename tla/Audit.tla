------------------------------- MODULE Audit -------------------------------
(***************************************************************************)
(* build_mailbox_audit (audit.py) on one thread of a mailbox, run again    *)
(* after every change of the facts: the user labels messages and follows   *)
(* proposals of the report, the collectors learn about attachments,        *)
(* context and coverage.  The audit itself changes nothing.                *)
(***************************************************************************)
EXTENDS Obsolescence, Operational, LabelRepair

CONSTANTS
    Thread,            \* its messages in their order
    InitialMessages,   \* the snapshots the thread may start with
    AttachmentSets,    \* what may be learnt of the attachments of a message
    LearntContexts,    \* and of its context
    Watched,           \* bound: the messages the user relabels and the collectors learn about
    Relabelled,        \* bound: the labels the user adds and removes
    AvailableLabels,   \* the labels of the mailbox beside those of the thread
    LayerEnabled       \* whether the operational layer is enabled

Messages == Ids(Thread)

ASSUME AuditAssumption ==
    /\ Thread \in Seq(Messages) /\ \A i, j \in DOMAIN Thread : Thread[i] = Thread[j] => i = j
    /\ InitialMessages \subseteq [Messages -> MessageSnapshots]
    /\ AttachmentSets \subseteq SUBSET Attachments
    /\ LearntContexts \subseteq Contexts
    /\ Watched \subseteq Messages /\ Relabelled \subseteq Labels /\ AvailableLabels \subseteq Labels
    /\ LayerEnabled \in BOOLEAN

VARIABLES
    messages,     \* the snapshot of each message
    attachments,  \* the metadata supplied, {} if none is
    contexts,     \* the context supplied, or None
    coverage,     \* the protection coverage asked for
    report        \* the last audit: a record per message, or NoReport

facts == <<messages, attachments, contexts, coverage>>
vars == <<facts, report>>

-----------------------------------------------------------------------------
(* The audit *)

(* Complete coverage is not believed of a message whose attachments are    *)
(* not known.                                                              *)
EffectiveCoverage(message, known, requested) ==
    IF message.has_attachment /\ known = {} THEN "partial" ELSE requested

AuditRecord(message, known, context, requested, repair, available) ==
    LET verdicts == {AssessDocument(message, a) : a \in known}
        effective == EffectiveCoverage(message, known, requested)
        status == ProtectionStatus(message, verdicts, effective)
        believed == IF context = None THEN EmptyContext ELSE context
    IN  [verdicts |-> verdicts, coverage |-> effective, protection |-> status,
         obsolescence |-> AssessObsolescence(message, believed, verdicts, status),
         operational |-> AssessOperational(message, verdicts, available, LayerEnabled),
         repair |-> repair]

(* Proposals look for a label among those of all threads and those the     *)
(* caller names.                                                           *)
MailboxLabels(msgs) == AvailableLabels \union UNION {msgs[m].labels : m \in Messages}

Contradictory(msgs, known) == \E m \in Messages : known[m] # {} /\ ~msgs[m].has_attachment

(* The record of a message that is no gap. *)
NoRepair == [label |-> None, score |-> 0, conflicts |-> {}, recommendation |-> "NO_ENTRY"]

(* Refused if metadata contradict each other. *)
NoReport == <<>>

AuditOf(msgs, known, ctxs, requested) ==
    LET repairs == DryRun(Thread, msgs)
    IN  IF Contradictory(msgs, known) THEN NoReport
        ELSE [m \in Messages |->
                 AuditRecord(msgs[m], known[m], ctxs[m], requested[m],
                             IF m \in DOMAIN repairs THEN repairs[m] ELSE NoRepair,
                             MailboxLabels(msgs))]

-----------------------------------------------------------------------------
Init ==
    /\ messages \in InitialMessages
    /\ attachments = [m \in Messages |-> {}]
    /\ contexts = [m \in Messages |-> None]
    /\ coverage = [m \in Messages |-> "partial"]
    /\ report = AuditOf(messages, attachments, contexts, coverage)

SetLabels(m, labels) ==
    /\ messages' = [messages EXCEPT ![m].labels = labels]
    /\ UNCHANGED <<attachments, contexts, coverage>>

AddLabel(m, label) ==
    /\ label \notin messages[m].labels
    /\ SetLabels(m, messages[m].labels \union {label})

RemoveLabel(m, label) ==
    /\ label \in messages[m].labels
    /\ SetLabels(m, messages[m].labels \ {label})

(* The user follows the report: an eligible repair, an operational state.  *)
Eligible(m) ==
    /\ m \in DOMAIN report
    /\ report[m].repair.recommendation = "ELIGIBLE_FOR_ADDITIVE_REPAIR"

ApplyRepair(m) ==
    /\ Eligible(m)
    /\ AddLabel(m, report[m].repair.label)

AcceptState(m, proposal) ==
    /\ m \in DOMAIN report /\ proposal \in report[m].operational.proposals
    /\ AddLabel(m, proposal.label)

LearnAttachments(m, known) ==
    /\ attachments[m] = {}
    /\ attachments' = [attachments EXCEPT ![m] = known]
    /\ UNCHANGED <<messages, contexts, coverage>>

LearnContext(m, context) ==
    /\ contexts[m] = None
    /\ contexts' = [contexts EXCEPT ![m] = context]
    /\ UNCHANGED <<messages, attachments, coverage>>

AssertCoverage(m) ==
    /\ coverage[m] = "partial"
    /\ coverage' = [coverage EXCEPT ![m] = "complete"]
    /\ UNCHANGED <<messages, attachments, contexts>>

Change ==
    \/ \E m \in Watched, label \in Relabelled : AddLabel(m, label) \/ RemoveLabel(m, label)
    \/ \E m \in Messages : ApplyRepair(m)
    \/ \E m \in Messages, s \in OperationalStates, l \in Labels, creates \in BOOLEAN :
          AcceptState(m, [state |-> s, label |-> l, creates |-> creates])
    \/ \E m \in Watched, known \in AttachmentSets : LearnAttachments(m, known)
    \/ \E m \in Watched, context \in LearntContexts : LearnContext(m, context)
    \/ \E m \in Watched : AssertCoverage(m)

(* The mailbox is audited after each change. *)
Next == Change /\ report' = AuditOf(messages', attachments', contexts', coverage')

Spec == Init /\ [][Next]_vars

-----------------------------------------------------------------------------
Records ==
    [verdicts : SUBSET DocumentVerdicts, coverage : {"partial", "complete"},
     protection : Statuses,
     obsolescence :
        [class : ObsolescenceClasses \union {"unknown"}, score : [t : Int, r : Int],
         conflicts : SUBSET Conflicts, recommendation : Recommendations],
     operational :
        [current : SUBSET OperationalStates,
         proposals : SUBSET [state : OperationalStates, label : Labels, creates : BOOLEAN],
         conflicts : SUBSET OperationalConflictKinds,
         recommendation : OperationalRecommendations],
     repair : [label : Labels \union {None}, score : Int, conflicts : SUBSET RepairConflicts,
               recommendation : RepairRecommendations \union {"NO_ENTRY"}]]

FactsTyped ==
    /\ messages \in [Messages -> MessageSnapshots]
    /\ attachments \in [Messages -> SUBSET Attachments]
    /\ contexts \in [Messages -> Contexts \union {None}]
    /\ coverage \in [Messages -> {"partial", "complete"}]

TypeOK ==
    /\ FactsTyped
    /\ report = NoReport \/ report \in [Messages -> Records]

TrashCandidate(r, m) ==
    m \in DOMAIN r /\ r[m].obsolescence.recommendation = "review_for_future_trash"

(* No text about the message names a protected domain. *)
NamesNoDomain(message) ==
    \A domain \in ProtectedDomains :
        ~Says(SubjectOf(message) \union TaxonomyTerms(message) \union message.correspondents,
              DomainKeywords[domain])

(* Its attachments are known to be all there are, and none of them has     *)
(* anything of a document.                                                 *)
HasNoDocument(message, known, context) ==
    /\ message.has_attachment => known # {} /\ context.document_assessment_complete = TRUE
    /\ \A a \in known :
          Decorative(a) \/ (a.kind \in {"image", "calendar"} /\ CandidateClasses(message, a) = {})

(* Added up on paper, one class has the score, and no other class comes    *)
(* within a tenth of it.                                                   *)
StandsOut(message, context) ==
    \E class \in CuedClasses(message) :
        /\ ObsolescenceScore(class, context).t >= 995
        /\ \A other \in CuedClasses(message) \ {class} :
              ObsolescenceScore(class, context).t - ObsolescenceScore(other, context).t >= 100

(* Harmless by the facts, not by a verdict on them: nothing names a        *)
(* protected domain, the attachments are all known and worthless, the      *)
(* coverage is complete, and every safety question was answered with no.   *)
HarmlessByFacts(m) ==
    /\ contexts[m] # None
    /\ ~Blocks(report[m].protection)
    /\ NamesNoDomain(messages[m])
    /\ HasNoDocument(messages[m], attachments[m], contexts[m])
    /\ coverage[m] = "complete"
    /\ contexts[m].meaningful_correspondence = FALSE
    /\ contexts[m].payment_history = FALSE
    /\ contexts[m].account_access_record = FALSE
    /\ contexts[m].ambiguous_semantics = FALSE

(* A message the audit names a candidate for the trash is harmless, through*)
(* every stage of documents, protection and obsolescence, and rounding did *)
(* not decide its class.                                                   *)
TrashIsHarmless ==
    \A m \in Messages : TrashCandidate(report, m) =>
        HarmlessByFacts(m) /\ StandsOut(messages[m], contexts[m])

(* Labels only protect: a label added, by the user or by following the     *)
(* report, never makes a message a candidate for the trash, not even when  *)
(* it changes the verdict on an attachment.                                *)
LabelsNeverUncoverTrash ==
    [][\A m \in Messages :
          (\A n \in Messages : messages[n].labels \subseteq messages'[n].labels)
          /\ UNCHANGED <<attachments, contexts, coverage>>
          /\ TrashCandidate(report', m) => TrashCandidate(report, m)]_vars

(* One witness never suffices: an eligible repair names a label that at    *)
(* least two other messages of the thread carry and that no semantic label *)
(* of the thread and no hint of the message disputes.                      *)
EligibleRepairsAreCorroborated ==
    \A m \in Messages : Eligible(m) =>
        LET label == report[m].repair.label
        IN  /\ Cardinality({n \in Messages \ {m} : label \in messages[n].labels}) >= 2
            /\ ThreadLabels(Thread, messages) = {label}
            /\ SemanticLabels(messages[m]) = {}
            /\ messages[m].hints \subseteq {label}

(* Following one eligible repair never turns on the others: the labels of  *)
(* the thread stay what they were, every other gap is offered the repaired *)
(* label or none, and what was eligible stays so, or is demoted to a review*)
(* if the repaired message is about something else or with other people.   *)
RepairsNeverCompete ==
    [][\A m \in Messages : ApplyRepair(m) =>
          /\ ThreadLabels(Thread, messages') = ThreadLabels(Thread, messages)
          /\ \A n \in Messages \ {m} : report[n].repair # NoRepair =>
                /\ report'[n].repair.label \in {report[m].repair.label, None}
                /\ Eligible(n) =>
                      \/ Eligible(n)'
                      \/ /\ report'[n].repair.label # None
                         /\ \/ messages[m].subject # messages[n].subject
                            \/ messages[m].correspondents
                                   \intersect messages[n].correspondents = {}]_vars

(* An accepted operational state is settled if the classifier knows its    *)
(* label: the next audit finds the state and proposes it no more, and the  *)
(* repair of the thread does not mistake the label for a semantic one.     *)
ProposalsSettle ==
    [][\A m \in DOMAIN report :
          \A p \in report[m].operational.proposals :
              AcceptState(m, p) /\ LabelClassOf[p.label] = "user_operational" =>
                  /\ p.state \in report'[m].operational.current
                  /\ \A q \in report'[m].operational.proposals : q.state # p.state
                  /\ \A n \in Messages : report'[n].repair = report[n].repair]_vars
=============================================================================
