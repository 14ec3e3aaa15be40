------------------------------ MODULE MCAudit ------------------------------
(* A vocabulary and a thread for Audit: a and c carry the label Travel, b  *)
(* and d between them carry none.                                          *)
EXTENDS Audit

CONSTANTS a, b, c, d

MCThread == <<a, b, d, c>>

MCWordsOf ==
    [x \in Texts |->
        CASE x = "otp"            -> {"otp code"}
          [] x = "otp receipt"    -> {"otp code", "receipt"}
          [] x = "sale release"   -> {"sale", "new release"}
          [] x = "do it"          -> {"todo", "document attached"}
          [] x = "contract.pdf"   -> {"contract"}
          [] x = "deed.pdf"       -> {"contract", "insurance"}
          [] x = "logo.png"       -> {"logo", "contract"}
          [] x = "Contracts"      -> {"contract"}
          [] x = "Sales"          -> {"sale"}
          [] x = "insurer"        -> {"insurance"}
          [] OTHER                -> {}]

OperationalNames ==
    {"@Action", "@Todo", "@Waiting", "@Deadline", "@Document", "@Reference", "@Later"}
MCLabels == {"Travel", "Contracts", "Sales"} \union OperationalNames
MCTexts == MCLabels \union
    {"otp", "otp receipt", "sale release", "do it", "trip", "contract.pdf", "deed.pdf",
     "logo.png", "scan.pdf", "friend", "insurer"}

(* The user's classifier does not know @Document. *)
MCLabelClassOf ==
    [l \in Labels |->
        IF l \in OperationalNames \ {"@Document"} THEN "user_operational" ELSE "user_semantic"]
MCPreferredLabel ==
    [action |-> "@Action", waiting |-> "@Waiting", deadline |-> "@Deadline",
     document |-> "@Document", reference |-> "@Reference"]
(* Todo is an equivalent of Action, and Later means no state. *)
MCCatalogState ==
    [l \in Labels |->
        IF l = "@Todo" THEN "action"
        ELSE IF \E s \in OperationalStates : MCPreferredLabel[s] = l
        THEN CHOOSE s \in OperationalStates : MCPreferredLabel[s] = l ELSE None]

Message(labels, flag, subject, people, hints) ==
    [labels |-> labels, has_attachment |-> flag, subject |-> subject,
     correspondents |-> people, hints |-> hints]

MCWatchedMessages ==
    {Message({}, flag, "otp", {"friend"}, {}) : flag \in BOOLEAN} \union
    {Message({}, FALSE, "otp", {"insurer"}, {}), Message({}, TRUE, "otp receipt", {"friend"}, {}),
     Message({}, FALSE, "sale release", {"friend"}, {}), Message({}, TRUE, "do it", {"friend"}, {}),
     Message({}, TRUE, "trip", {"friend"}, {"Travel"}), Message({}, FALSE, "trip", {"friend"}, {}),
     Message({}, TRUE, None, {"insurer"}, {})}

ThreadAbout(subject, other, watched) ==
    [m \in Messages |->
        CASE m \in {a, c} -> Message({"Travel"}, FALSE, subject, {"friend"}, {})
          [] m = d -> Message({}, FALSE, other, {"friend"}, {"Travel"})
          [] m = b -> watched]

(* If a and c have no subject, b and d may both be eligible although they  *)
(* are about different things.  If a and b are the witnesses, the repair of*)
(* c puts d between witnesses.                                             *)
MCInitialMessages ==
    {ThreadAbout("trip", other, watched) : other \in {"trip", "do it"}, watched \in MCWatchedMessages}
    \union {ThreadAbout(None, "do it", Message({}, TRUE, "trip", {"friend"}, {"Travel"}))}
    \union {[ThreadAbout("trip", "do it", Message({"Travel"}, FALSE, "trip", {"friend"}, {}))
                EXCEPT ![c] = Message({}, FALSE, "trip", {"friend"}, {"Travel"}),
                       ![d] = Message({}, FALSE, "do it", {"insurer"}, {})]}

File(filename, kind, disposition, repeated) ==
    [filename |-> filename, kind |-> kind, disposition |-> disposition, repeated |-> repeated]
MCAttachmentSets ==
    {{File("contract.pdf", "document", "attachment", FALSE)},
     {File("deed.pdf", "document", "attachment", TRUE), File("logo.png", "image", "inline", FALSE)},
     {File("logo.png", "image", "inline", FALSE)},
     {File("scan.pdf", "document", "unknown", FALSE)},
     {File("scan.pdf", "image", "attachment", FALSE), File("scan.pdf", "calendar", "unknown", FALSE)}}

Harmless ==
    [age |-> "old", automated_sender |-> TRUE, expiration_confirmed |-> TRUE,
     transient_event_completed |-> None, product_superseded |-> TRUE,
     service_discontinued |-> None, document_assessment_complete |-> TRUE,
     meaningful_correspondence |-> FALSE, payment_history |-> FALSE,
     account_access_record |-> FALSE, ambiguous_semantics |-> FALSE]
MCLearntContexts ==
    {Harmless, [Harmless EXCEPT !.document_assessment_complete = None],
     [Harmless EXCEPT !.payment_history = TRUE], [Harmless EXCEPT !.account_access_record = None],
     [Harmless EXCEPT !.age = "young", !.automated_sender = None]}
=============================================================================
