---------------------------- MODULE Obsolescence ----------------------------
(***************************************************************************)
(* assess_message_obsolescence (obsolescence.py): is a message of low      *)
(* value, and does anything speak against reviewing it for the trash?      *)
(***************************************************************************)
EXTENDS Protection

Conflicts ==
    {"protected_domain", "possible_protected_domain", "protection_unknown",
     "significant_document", "document_significance_unknown", "attachment_not_assessed",
     "document_assessment_incomplete", "meaningful_correspondence", "payment_history",
     "account_access_record", "ambiguous_semantics", "safety_context_incomplete"}
Recommendations == {"retain", "review", "review_for_future_trash"}

(* Mutant: the message's labels count as semantics too.                    *)
CuedClassesOfTaxonomy(message) ==
    {class \in ObsolescenceClasses :
        Says(SubjectOf(message) \union TaxonomyTerms(message), ObsolescenceKeywords[class])}

(* Labels do not count here: only the subject and the hints.               *)
CuedClasses(message) ==
    {class \in ObsolescenceClasses :
        Says(SubjectOf(message) \union message.hints, ObsolescenceKeywords[class])}

(* The fact that confirms a class, and its weight. *)
Confirmation(class, context) ==
    CASE class = "expired_one_time_code" ->
             [holds |-> context.expiration_confirmed = TRUE, weight |-> 200]
      [] class = "transient_service_notification" ->
             [holds |-> context.transient_event_completed = TRUE, weight |-> 200]
      [] class = "obsolete_product_announcement" ->
             [holds |-> context.product_superseded = TRUE, weight |-> 200]
      [] class = "discontinued_service_notification" ->
             [holds |-> context.service_discontinued = TRUE, weight |-> 200]
      [] class = "old_marketing_campaign" ->
             [holds |-> context.expiration_confirmed = TRUE, weight |-> 150]
      [] class = "low_value_automated_mail" -> [holds |-> FALSE, weight |-> 0]

(* The score of a class that has a cue; without one it stays 0, whatever   *)
(* the context and the age.                                                *)
ObsolescenceScore(class, context) ==
    LET low == class = "low_value_automated_mail"
        confirmation == Confirmation(class, context)
    IN  Sum(<<Literal(700), When(confirmation.holds, confirmation.weight),
              When(context.automated_sender = TRUE, IF low THEN 200 ELSE 100),
              When(low /\ context.meaningful_correspondence = FALSE, 100),
              When(context.age = "old", 100)>>)

(* The class, unless there is none or another one comes near it. *)
Classification(message, context) ==
    LET supports == {Support(class, ObsolescenceScore(class, context)) :
                        class \in CuedClasses(message)}
        best == Strongest(supports)
        ambiguous == Contested(best, supports)
    IN  IF supports = {} THEN [class |-> "unknown", score |-> Literal(0), ambiguous |-> FALSE]
        ELSE [class |-> IF ambiguous THEN "unknown" ELSE best.class,
              score |-> Clamp(best.score), ambiguous |-> ambiguous]

ProtectionConflicts(status) ==
    CASE status = "protected"          -> {"protected_domain"}
      [] status = "possibly_protected" -> {"possible_protected_domain"}
      [] status = "unknown"            -> {"protection_unknown"}
      [] status = "not_protected"      -> {}

(* Mutant: a document of unknown significance is no conflict.              *)
DocumentConflictsIfSignificant(message, context, verdicts) ==
    {c \in {"attachment_not_assessed", "document_assessment_incomplete", "significant_document"} :
        CASE c = "attachment_not_assessed" -> message.has_attachment /\ verdicts = {}
          [] c = "document_assessment_incomplete" ->
                 /\ message.has_attachment /\ verdicts # {}
                 /\ context.document_assessment_complete # TRUE
          [] c = "significant_document" ->
                 \E v \in verdicts : v.significance = "significant_document"}

DocumentConflicts(message, context, verdicts) ==
    LET Found(significance) == \E v \in verdicts : v.significance = significance
    IN  {c \in {"attachment_not_assessed", "document_assessment_incomplete",
                "significant_document", "document_significance_unknown"} :
            CASE c = "attachment_not_assessed" -> message.has_attachment /\ verdicts = {}
              [] c = "document_assessment_incomplete" ->
                     /\ message.has_attachment /\ verdicts # {}
                     /\ context.document_assessment_complete # TRUE
              [] c = "significant_document" -> Found("significant_document")
              [] c = "document_significance_unknown" -> Found("unknown")}

ContextConflicts(context, ambiguous) ==
    {c \in {"meaningful_correspondence", "payment_history", "account_access_record",
            "ambiguous_semantics", "safety_context_incomplete"} :
        CASE c = "meaningful_correspondence" -> context.meaningful_correspondence = TRUE
          [] c = "payment_history"           -> context.payment_history = TRUE
          [] c = "account_access_record"     -> context.account_access_record = TRUE
          [] c = "ambiguous_semantics"       -> context.ambiguous_semantics = TRUE \/ ambiguous
          [] c = "safety_context_incomplete" ->
                 None \in {context.meaningful_correspondence, context.payment_history,
                           context.account_access_record, context.ambiguous_semantics}}

ObsolescenceConflicts(message, context, verdicts, status, ambiguous) ==
    ProtectionConflicts(status) \union DocumentConflicts(message, context, verdicts)
        \union ContextConflicts(context, ambiguous)

Recommendation(class, score, conflicts) ==
    IF class = "unknown" \/ conflicts # {} THEN "retain"
    ELSE IF AtLeast(score, Literal(995)) THEN "review_for_future_trash" ELSE "review"

AssessObsolescence(message, context, verdicts, status) ==
    LET found == Classification(message, context)
        conflicts ==
            ObsolescenceConflicts(message, context, verdicts, status, found.ambiguous)
    IN  [class |-> found.class, score |-> found.score, conflicts |-> conflicts,
         recommendation |-> Recommendation(found.class, found.score, conflicts)]
=============================================================================
