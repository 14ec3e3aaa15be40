----------------------------- MODULE Ingestion -----------------------------
(***************************************************************************)
(* ingest_provider_mailbox (ingestion.py): the loop that reads a mailbox   *)
(* through the provider's paginated calls.  Between two steps the loop     *)
(* waits for the answer to one provider call; the answer is a parameter of *)
(* the action that receives it and may be anything the provider's types    *)
(* allow: repeated identifiers, repeated tokens, contradictory flags.      *)
(* list_attachments is answered together with the page of its message.     *)
(***************************************************************************)
EXTENDS Integers, Sequences

CONSTANTS
    Threads,    \* thread identifiers
    Mail,       \* messages the provider may return: see MailAssumption
    LabelIds,   \* label identifiers
    Tokens,     \* continuation tokens
    NoToken,    \* next_page_token = None, and page_token = None
    Bounds,     \* values of max_threads; 0 stands for None
    MaxPage     \* bound: the length of a page

(* flagged is has_attachment, attached says whether list_attachments       *)
(* returns any.                                                            *)
ASSUME MailAssumption ==
    \A m \in Mail :
        /\ DOMAIN m = {"id", "labels", "flagged", "attached"}
        /\ m.labels \subseteq LabelIds
        /\ m.flagged \in BOOLEAN /\ m.attached \in BOOLEAN

ASSUME IngestionAssumption ==
    NoToken \notin Tokens /\ Bounds \subseteq Nat /\ MaxPage \in Nat

VARIABLES
    bound,          \* max_threads
    phase,          \* the call awaited, or how the function ended
    token,          \* page_token of the call awaited
    catalog,        \* the keys of labels_by_id
    page,           \* threads of the current page not read yet, the current first
    following,      \* thread_page.next_page_token
    threadTokens,   \* seen_thread_tokens
    messageTokens,  \* seen_message_tokens
    current,        \* core_messages
    threads,        \* the threads read
    limitations,    \* the codes of dynamic_limitations
    enumerated      \* history: the threads the provider has listed

vars == <<bound, phase, token, catalog, page, following, threadTokens,
          messageTokens, current, threads, limitations, enumerated>>

Codes == {"label catalog incomplete", "attachment metadata incomplete", "bounded selection"}
Ended == {"complete", "bounded", "failed"}
ReadThreads == [id : Threads, messages : Seq(Mail)]

TypeOK ==
    /\ bound \in Bounds
    /\ phase \in {"labels", "threads", "messages"} \union Ended
    /\ token \in Tokens \union {NoToken}
    /\ catalog \subseteq LabelIds
    /\ page \in Seq(Threads)
    /\ phase = "messages" => page # <<>>
    /\ following \in Tokens \union {NoToken}
    /\ threadTokens \subseteq Tokens
    /\ messageTokens \subseteq Tokens
    /\ current \in Seq(Mail)
    /\ threads \in Seq(ReadThreads)
    /\ limitations \subseteq Codes
    /\ enumerated \in Seq(Threads)

Init ==
    /\ bound \in Bounds
    /\ phase = "labels"
    /\ token = NoToken
    /\ catalog = {}
    /\ page = <<>>
    /\ following = NoToken
    /\ threadTokens = {}
    /\ messageTokens = {}
    /\ current = <<>>
    /\ threads = <<>>
    /\ limitations = {}
    /\ enumerated = <<>>

-----------------------------------------------------------------------------

IdsOf(s) == [i \in DOMAIN s |-> s[i].id]
Members(s) == {s[i] : i \in DOMAIN s}
Distinct(s) == \A i, j \in DOMAIN s : s[i] = s[j] => i = j

(* seen_thread_ids when the threads of s are read. *)
ThreadIds(s) == Members(IdsOf(s))

(* seen_message_ids. *)
MessageIds ==
    Members(IdsOf(current))
        \union UNION {Members(IdsOf(threads[i].messages)) : i \in DOMAIN threads}

(* A raised error: nothing is returned. *)
Fail ==
    /\ phase' = "failed"
    /\ UNCHANGED <<bound, token, catalog, page, following, threadTokens,
                   messageTokens, current, threads, limitations>>

ReceiveLabels(labels) ==
    /\ phase = "labels"
    /\ IF Distinct(labels)
       THEN /\ catalog' = Members(labels)
            /\ phase' = "threads"
            /\ UNCHANGED <<bound, token, page, following, threadTokens,
                           messageTokens, current, threads, limitations>>
       ELSE Fail
    /\ UNCHANGED enumerated

(* Mutant of NextThread: the duplicate check of the threads is dropped. *)
NextThreadUnchecked(done, rest) ==
    phase' = "messages" /\ token' = NoToken /\ UNCHANGED threadTokens

(* Ask for the messages of the first thread of rest. *)
NextThread(done, rest) ==
    /\ phase' = IF Head(rest) \in ThreadIds(done) THEN "failed" ELSE "messages"
    /\ token' = NoToken
    /\ UNCHANGED threadTokens

(* Mutants of NextPage: the tokens seen are not kept, thread_token stays.  *)
NextPageForgetful(next) ==
    phase' = "threads" /\ token' = next /\ UNCHANGED threadTokens

NextPageRepeated(next) ==
    /\ phase' = IF next \in threadTokens THEN "failed" ELSE "threads"
    /\ token' = token
    /\ threadTokens' = threadTokens \union {next}

NextPage(next) ==
    /\ phase' = IF next \in threadTokens THEN "failed" ELSE "threads"
    /\ token' = next
    /\ threadTokens' = threadTokens \union {next}

(* Mutant of Advance: the end of the enumeration is not recognized. *)
AdvanceEndlessly(done, rest, next) ==
    /\ page' = rest /\ following' = next /\ messageTokens' = {} /\ current' = <<>>
    /\ \/ rest # <<>> /\ NextThread(done, rest)
       \/ rest = <<>> /\ NextPage(next)

(* Mutant of Advance: a thread read before is passed over. *)
AdvanceDeduplicating(done, rest, next) ==
    LET new == SelectSeq(rest, LAMBDA t : t \notin ThreadIds(done))
    IN  /\ page' = new /\ following' = next /\ messageTokens' = {} /\ current' = <<>>
        /\ \/ new # <<>> /\ NextThread(done, new)
           \/ new = <<>> /\ next # NoToken /\ NextPage(next)
           \/ /\ new = <<>> /\ next = NoToken /\ phase' = "complete"
              /\ UNCHANGED <<token, threadTokens>>

(* The next call once the threads in done are read, when the thread page   *)
(* still holds rest and continues at next.                                 *)
Advance(done, rest, next) ==
    /\ page' = rest
    /\ following' = next
    /\ messageTokens' = {}
    /\ current' = <<>>
    /\ \/ rest # <<>> /\ NextThread(done, rest)
       \/ rest = <<>> /\ next # NoToken /\ NextPage(next)
       \/ /\ rest = <<>> /\ next = NoToken
          /\ phase' = "complete"
          /\ UNCHANGED <<token, threadTokens>>

ReceiveThreadPage(refs, next) ==
    /\ phase = "threads"
    /\ enumerated' = enumerated \o refs
    /\ Advance(threads, refs, next)
    /\ UNCHANGED <<bound, catalog, threads, limitations>>

(* The messages msgs raise the duplicate error or the flag conflict.       *)
Rejected(msgs) ==
    \/ ~ Distinct(IdsOf(msgs))
    \/ Members(IdsOf(msgs)) \intersect MessageIds # {}
    \/ \E m \in Members(msgs) : m.attached /\ ~ m.flagged

(* Mutant of Gaps: missing attachment metadata is not reported. *)
GapsInLabels(msgs) ==
    {c \in Codes : c = "label catalog incomplete"
                   /\ \E m \in Members(msgs) : ~ m.labels \subseteq catalog}

(* What the translation of msgs cannot represent. *)
Gaps(msgs) ==
    {c \in Codes : \E m \in Members(msgs) :
        \/ c = "label catalog incomplete" /\ ~ m.labels \subseteq catalog
        \/ c = "attachment metadata incomplete" /\ m.flagged /\ ~ m.attached}

BoundReached(done) == bound # 0 /\ Len(done) >= bound

(* Mutant of Stops: the continuation of the thread page is forgotten. *)
StopsInsidePage(done, rest) == BoundReached(done) /\ rest # <<>>

(* max_threads is reached and the provider has more. *)
Stops(done, rest) == BoundReached(done) /\ (rest # <<>> \/ following # NoToken)

(* Mutant of EndThread: the rest of the thread page is not read. *)
EndPage(msgs) ==
    LET done == Append(threads, [id |-> Head(page), messages |-> msgs])
    IN  threads' = done /\ Advance(done, <<>>, following)

(* The current thread is read: append it, then stop or go on. *)
EndThread(msgs) ==
    LET done == Append(threads, [id |-> Head(page), messages |-> msgs])
        rest == Tail(page)
    IN  /\ threads' = done
        /\ \/ ~ Stops(done, rest) /\ Advance(done, rest, following)
           \/ /\ Stops(done, rest)
              /\ phase' = "bounded"
              /\ page' = rest
              /\ messageTokens' = {}
              /\ current' = <<>>
              /\ UNCHANGED <<token, following, threadTokens>>

ReceiveMessagePage(msgs, next) ==
    /\ phase = "messages"
    /\ IF Rejected(msgs) \/ next \in messageTokens
       THEN Fail
       ELSE LET all == current \o msgs IN
            /\ \/ /\ next = NoToken
                  /\ EndThread(all)
               \/ /\ next # NoToken
                  /\ token' = next
                  /\ messageTokens' = messageTokens \union {next}
                  /\ current' = all
                  /\ UNCHANGED <<phase, page, following, threadTokens, threads>>
            /\ limitations' = limitations \union Gaps(msgs)
                   \union (IF phase' = "bounded" THEN {"bounded selection"} ELSE {})
            /\ UNCHANGED <<bound, catalog>>
    /\ UNCHANGED enumerated

(* The awaited call raises ProviderOperationError. *)
ProviderFails == phase \notin Ended /\ Fail /\ UNCHANGED enumerated

Pages(S) == UNION {[1..n -> S] : n \in 0..MaxPage}
Continuations == Tokens \union {NoToken}

Answer ==
    \/ \E labels \in Pages(LabelIds) : ReceiveLabels(labels)
    \/ \E refs \in Pages(Threads), next \in Continuations : ReceiveThreadPage(refs, next)
    \/ \E msgs \in Pages(Mail), next \in Continuations : ReceiveMessagePage(msgs, next)
    \/ ProviderFails

Spec == Init /\ [][Answer]_vars

(* A provider answers every call: _get_json bounds its retries and passes  *)
(* a timeout to every request.                                             *)
FairSpec == Spec /\ WF_vars(Answer)

-----------------------------------------------------------------------------

(* No thread and no message is read twice, within or across threads and    *)
(* pages, whatever the provider repeats.                                   *)
ReadOnce ==
    phase # "failed" =>
        /\ Distinct(IdsOf(threads))
        /\ Distinct(IdsOf(current))
        /\ \A i \in DOMAIN threads :
            LET mine == Members(IdsOf(threads[i].messages)) IN
            /\ Distinct(IdsOf(threads[i].messages))
            /\ mine \intersect Members(IdsOf(current)) = {}
            /\ \A j \in DOMAIN threads :
                i # j => mine \intersect Members(IdsOf(threads[j].messages)) = {}

(* The threads read and the rest of the page are the provider's            *)
(* enumeration, in its order and without a gap.                            *)
NothingSkipped == phase # "failed" => enumerated = IdsOf(threads) \o page

(* MailboxIngestionResult.complete: the result says so exactly when the    *)
(* provider's enumeration ended and every thread of it was read; a result  *)
(* that max_threads cut short has exactly max_threads threads and says so. *)
CompleteIsHonest ==
    /\ bound # 0 => Len(threads) <= bound
    /\ phase = "complete" => following = NoToken /\ enumerated = IdsOf(threads)
    /\ phase = "bounded" =>
        /\ Len(threads) = bound
        /\ "bounded selection" \in limitations
        /\ page # <<>> \/ following # NoToken

(* Whatever the result cannot represent is disclosed, however early in the *)
(* ingestion it was met: a label outside the catalog (created after it was *)
(* read), or attachments without their metadata.                           *)
GapsDisclosed ==
    phase \in {"complete", "bounded"} =>
        \A i \in DOMAIN threads : \A m \in Members(threads[i].messages) :
            /\ m.labels \subseteq catalog \/ "label catalog incomplete" \in limitations
            /\ m.flagged => m.attached \/ "attachment metadata incomplete" \in limitations

(* The loop ends although the provider may repeat tokens and send empty    *)
(* pages for ever: every request for a page uses up a token.               *)
Terminates == <>(phase \in Ended)
=============================================================================
