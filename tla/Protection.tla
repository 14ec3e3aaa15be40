----------------------------- MODULE Protection -----------------------------
(***************************************************************************)
(* infer_protected_domains and evaluate_destructive_protection_gate        *)
(* (protection.py), over the verdicts on the message's own attachments.    *)
(***************************************************************************)
EXTENDS Documents

(* The verdicts that carry a hint of the domain. *)
DocumentsOf(domain, verdicts) ==
    {v \in verdicts : v.significance = "significant_document" /\ domain \in HintedDomains[v.class]}

DomainSignals(message, domain) ==
    LET Cue(texts) == Says(texts, DomainKeywords[domain])
    IN  [subject |-> Cue(SubjectOf(message)), taxonomy |-> Cue(TaxonomyTerms(message)),
         correspondent |-> Cue(message.correspondents)]

(* Of the documents of a domain only the strongest counts. *)
DomainScore(message, verdicts, domain) ==
    LET signals == DomainSignals(message, domain)
        documents == {v.score : v \in DocumentsOf(domain, verdicts)}
    IN  Clamp(Sum(<<When(signals.subject, 650), When(signals.taxonomy, 750),
                    When(signals.correspondent, 200),
                    IF documents = {} THEN Literal(0) ELSE Highest(documents)>>))

(* A domain is hinted at when its score is positive, that is, when any     *)
(* source adds to it.                                                      *)
HintedBy(message, verdicts) ==
    {domain \in ProtectedDomains :
        LET signals == DomainSignals(message, domain)
        IN  \/ \E source \in DOMAIN signals : signals[source]
            \/ DocumentsOf(domain, verdicts) # {}}

ProtectionStatus(message, verdicts, coverage) ==
    LET hints == HintedBy(message, verdicts)
    IN  IF \E d \in hints : Band(DomainScore(message, verdicts, d)) = "high" THEN "protected"
        ELSE IF hints # {} THEN "possibly_protected"
        ELSE IF coverage = "complete" THEN "not_protected" ELSE "unknown"

Statuses == {"protected", "possibly_protected", "not_protected", "unknown"}

(* The gate: whether it blocks a destructive action. *)
Blocks(status) == status # "not_protected"
=============================================================================
