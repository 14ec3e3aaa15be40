-------------------------------- MODULE Facts --------------------------------
(***************************************************************************)
(* What the assessments are told of a message (model.py, AttachmentSnapshot*)
(* and ObsolescenceContext), and the keyword tables they match texts with. *)
(* A text (a subject, a label, a file name, a correspondent) is a value of *)
(* Texts; of what it says only the keywords in it are kept, one keyword or *)
(* two of each row of the tables.                                          *)
(***************************************************************************)
EXTENDS Integers, FiniteSets

CONSTANTS
    Texts,
    WordsOf,        \* the keywords a text contains
    Labels,         \* the labels of the mailbox
    LabelClassOf,   \* the LabelClassifier
    CatalogState,   \* the operational state a label's name stands for, or None
    None            \* no subject, no context, no label

Words == {"contract", "insurance", "certificate", "receipt", "tax", "invoice", "medical",
          "passport", "legal", "education", "iban", "pension",
          "logo", "otp code", "sale", "backup completed", "new release", "service notice",
          "no reply", "todo", "awaiting", "deadline", "document attached", "fyi"}

LabelClasses == {"user_semantic", "user_operational", "system", "unknown"}

ASSUME FactsAssumption ==
    /\ Labels \subseteq Texts /\ IsFiniteSet(Labels) /\ None \notin Texts
    /\ WordsOf \in [Texts -> SUBSET Words]
    /\ LabelClassOf \in [Labels -> LabelClasses]

-----------------------------------------------------------------------------
(* The keyword tables *)

DocumentKeywords ==
    [contract |-> {"contract"}, tax |-> {"tax"}, insurance |-> {"insurance"},
     receipt |-> {"receipt"}, invoice |-> {"invoice"}, administrative |-> {"certificate"},
     medical |-> {"medical"}]
DocumentClasses == DOMAIN DocumentKeywords

DecorativeKeywords == {"logo"}

DomainKeywords ==
    [health_medical |-> {"medical"}, tax_fiscal |-> {"tax"}, banking_financial |-> {"iban"},
     insurance |-> {"insurance"}, contracts_employment |-> {"contract"},
     pensions_benefits_public_admin |-> {"pension"}, identity_authentication |-> {"passport"},
     education |-> {"education"}, legal |-> {"legal"},
     payments_receipts_invoices |-> {"receipt", "invoice"}]
ProtectedDomains == DOMAIN DomainKeywords

(* The domain a significant document of a class hints at; an               *)
(* administrative one gets a hint that is no domain.                       *)
HintedDomains ==
    [contract |-> {"contracts_employment"}, tax |-> {"tax_fiscal"},
     insurance |-> {"insurance"}, receipt |-> {"payments_receipts_invoices"},
     invoice |-> {"payments_receipts_invoices"}, administrative |-> {},
     medical |-> {"health_medical"}]

ObsolescenceKeywords ==
    [expired_one_time_code |-> {"otp code"}, old_marketing_campaign |-> {"sale"},
     transient_service_notification |-> {"backup completed"},
     obsolete_product_announcement |-> {"new release"},
     discontinued_service_notification |-> {"service notice"},
     low_value_automated_mail |-> {"no reply"}]
ObsolescenceClasses == DOMAIN ObsolescenceKeywords

StateKeywords ==
    [action |-> {"todo"}, waiting |-> {"awaiting"}, deadline |-> {"deadline"},
     document |-> {"document attached"}, reference |-> {"fyi"}]
OperationalStates == DOMAIN StateKeywords

(* Some text of a source contains a keyword of the row. *)
Says(texts, keywords) == \E text \in texts : WordsOf[text] \intersect keywords # {}

-----------------------------------------------------------------------------
(* The facts *)

Kinds == {"document", "image", "calendar", "other"}  \* the MIME type
Dispositions == {"attachment", "inline", "unknown"}

(* A file name that is missing or says nothing is None. *)
Attachments == [filename : Texts \union {None}, kind : Kinds,
                disposition : Dispositions, repeated : BOOLEAN]

Answers == BOOLEAN \union {None}  \* None: not known
Contexts ==
    [age : {"young", "old", None},  \* "old": 30 days at least
     automated_sender : Answers, expiration_confirmed : Answers,
     transient_event_completed : Answers, product_superseded : Answers,
     service_discontinued : Answers, document_assessment_complete : Answers,
     meaningful_correspondence : Answers, payment_history : Answers,
     account_access_record : Answers, ambiguous_semantics : Answers]

(* ObsolescenceContext(): nothing is known. *)
EmptyContext ==
    [age |-> None, automated_sender |-> None, expiration_confirmed |-> None,
     transient_event_completed |-> None, product_superseded |-> None,
     service_discontinued |-> None, document_assessment_complete |-> None,
     meaningful_correspondence |-> None, payment_history |-> None,
     account_access_record |-> None, ambiguous_semantics |-> None]

MessageSnapshots ==
    [labels : SUBSET Labels, has_attachment : BOOLEAN, subject : Texts \union {None},
     correspondents : SUBSET Texts, hints : SUBSET Texts]

SubjectOf(message) == {message.subject} \ {None}

SemanticLabels(message) ==
    {label \in message.labels : LabelClassOf[label] = "user_semantic"}

(* The taxonomy terms: hints, and the labels the classifier calls semantic.*)
TaxonomyTerms(message) == message.hints \union SemanticLabels(message)
=============================================================================
