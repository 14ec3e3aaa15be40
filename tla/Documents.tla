------------------------------ MODULE Documents ------------------------------
(***************************************************************************)
(* assess_document_significance (documents.py): what an attachment's       *)
(* metadata and the message around it tell of its significance.  Duplicate *)
(* counts only add remarks and are left out.                               *)
(***************************************************************************)
EXTENDS Facts, Scores

Generic(score) ==
    [class |-> "generic_attachment", significance |-> "generic_attachment", score |-> Literal(score)]
UnknownDocument(score) ==
    [class |-> "unknown", significance |-> "unknown", score |-> Literal(score)]
Significant(class, score) ==
    [class |-> class, significance |-> "significant_document", score |-> Clamp(score)]

DocumentVerdicts ==
    [class : DocumentClasses \union {"generic_attachment", "unknown"},
     significance : {"significant_document", "generic_attachment", "unknown"},
     score : [t : Int, r : Int]]

Decorative(attachment) ==
    /\ attachment.kind = "image"
    /\ Says({attachment.filename} \ {None}, DecorativeKeywords)

(* The signals for a class: from the file name and from around it. *)
DocumentSignals(message, attachment, class) ==
    LET Cue(texts) == Says(texts, DocumentKeywords[class])
    IN  [filename |-> Cue({attachment.filename} \ {None}), subject |-> Cue(SubjectOf(message)),
         taxonomy |-> Cue(TaxonomyTerms(message)), correspondent |-> Cue(message.correspondents)]

CandidateClasses(message, attachment) ==
    {class \in DocumentClasses :
        LET signals == DocumentSignals(message, attachment, class)
        IN  \E source \in DOMAIN signals : signals[source]}

(* The weights are added in this order, which decides how the sum rounds.  *)
DocumentSum(signals, attachment) ==
    LET support == Sum(<<When(signals.filename, 500), When(signals.subject, 200),
                         When(signals.taxonomy, 200), When(signals.correspondent, 100),
                         When(attachment.kind = "document", 150),
                         When(attachment.disposition = "attachment", 50)>>)
    IN  Minus(support, When(attachment.repeated, 200))

DocumentScore(message, attachment, class) ==
    DocumentSum(DocumentSignals(message, attachment, class), attachment)

(* No class has a cue: the type alone decides, and only for what is        *)
(* certainly not a document.                                               *)
WithoutClass(attachment) ==
    IF attachment.kind = "image"
    THEN IF attachment.disposition = "inline" THEN UnknownDocument(550)
         ELSE Generic(IF attachment.repeated THEN 900 ELSE 800)
    ELSE IF attachment.kind = "calendar" THEN Generic(900)
    ELSE UnknownDocument(IF attachment.kind = "document" THEN 550 ELSE 400)

(* The best class wins if it has enough support and no near competitor.    *)
WithClass(message, attachment, classes) ==
    LET supports == {Support(class, DocumentScore(message, attachment, class)) : class \in classes}
        best == Strongest(supports)
    IN  IF ~AtLeast(best.score, Literal(600)) THEN UnknownDocument(550)
        ELSE IF Contested(best, supports) THEN UnknownDocument(850)
        ELSE Significant(best.class, best.score)

AssessDocument(message, attachment) ==
    LET classes == CandidateClasses(message, attachment)
    IN  IF Decorative(attachment)
        THEN Generic(IF attachment.disposition = "inline" THEN 990 ELSE 970)
        ELSE IF classes = {} THEN WithoutClass(attachment)
        ELSE WithClass(message, attachment, classes)
=============================================================================
