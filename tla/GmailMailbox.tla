---------------------------- MODULE GmailMailbox ----------------------------
(***************************************************************************)
(* The ingestion loop over the Gmail adapter (gmail_provider.py) and a     *)
(* mailbox that other clients use meanwhile.  The mailbox is external: it  *)
(* lists its threads newest first, a continuation token is a position in   *)
(* that list, and a thread that was removed is not found.  The adapter     *)
(* turns each answer into what Ingestion receives.                         *)
(***************************************************************************)
EXTENDS Ingestion, FiniteSets

CONSTANTS
    Letters,       \* messages as Gmail stores them: see LettersAssumption
    LetterIn,      \* the letters a thread may hold, in order of arrival
    InitialBoxes,  \* thread lists at the start
    MaxResults,    \* page_size
    MaxChanges     \* bound: changes to the mailbox during the ingestion

(* files says that the letter has attachment-like MIME parts, deep that    *)
(* its structure exceeds the traversal depth.                              *)
ASSUME LettersAssumption ==
    /\ \A l \in Letters :
        /\ DOMAIN l = {"id", "labels", "files", "deep"}
        /\ l.files \in BOOLEAN /\ l.deep \in BOOLEAN
    /\ LetterIn \in [Threads -> Seq(Letters)]
    /\ MaxResults \in 1..500 /\ MaxChanges \in Nat

(* A message identifier belongs to one place of one thread, and a thread   *)
(* that is listed holds a letter.                                          *)
ASSUME MailboxAssumption ==
    /\ \A t, u \in Threads : \A i \in DOMAIN LetterIn[t], j \in DOMAIN LetterIn[u] :
        LetterIn[t][i].id = LetterIn[u][j].id => t = u /\ i = j
    /\ \A s \in InitialBoxes :
        s \in Seq(Threads) /\ Distinct(s) /\ \A i \in DOMAIN s : LetterIn[s[i]] # <<>>

ASSUME PositionTokens == NoToken = 0 /\ Tokens \subseteq Nat \ {0}

(* What list_messages and list_attachments say of one letter. *)
Translated(l) ==
    [id |-> l.id, labels |-> l.labels,
     flagged |-> l.files \/ l.deep, attached |-> l.files]

(* What is sent through the adapter is within the types and the bounds of  *)
(* Ingestion.                                                              *)
ASSUME AdapterAssumption ==
    /\ IsFiniteSet(Threads) /\ IsFiniteSet(LabelIds)
    /\ 1..Cardinality(Threads) \subseteq Tokens
    /\ {Translated(l) : l \in Letters} \subseteq Mail
    /\ MaxResults <= MaxPage /\ Cardinality(LabelIds) <= MaxPage
    /\ \A t \in Threads : Len(LetterIn[t]) <= MaxPage

VARIABLES
    box,        \* the thread identifiers, newest first
    arrived,    \* per thread: how many of its letters have arrived
    labels,     \* the label catalog
    changes,    \* how often the mailbox changed during the ingestion
    removals,   \* history: a thread was removed during the ingestion
    disturbed,  \* history: the mailbox changed, or a request failed
    listing     \* history: the mailbox at the last threads.list

mailbox == <<box, arrived, labels>>
history == <<changes, removals, disturbed>>
gmailVars == <<vars, mailbox, history, listing>>

GmailTypeOK ==
    /\ TypeOK
    /\ box \in Seq(Threads) /\ Distinct(box)
    /\ arrived \in [Threads -> Nat]
    /\ \A t \in Threads : arrived[t] \in 0..Len(LetterIn[t])
    /\ labels \subseteq LabelIds
    /\ changes \in 0..MaxChanges
    /\ removals \in BOOLEAN /\ disturbed \in BOOLEAN
    /\ listing \subseteq Threads

GmailInit ==
    /\ Init
    /\ box \in InitialBoxes
    /\ arrived = [t \in Threads |-> IF t \in Members(box) THEN 1 ELSE 0]
    /\ labels \in SUBSET LabelIds
    /\ changes = 0
    /\ removals = FALSE /\ disturbed = FALSE
    /\ listing = {}

-----------------------------------------------------------------------------
(* The adapter. *)

(* list_labels; the catalog holds every label once. *)
ListLabels ==
    /\ \E s \in [1..Cardinality(labels) -> labels] : Distinct(s) /\ ReceiveLabels(s)
    /\ UNCHANGED <<mailbox, history, listing>>

(* list_threads: at most MaxResults threads from the position of the token *)
(* on.  Gmail may hand out a token to an empty page at the end.            *)
ListThreads ==
    LET from == token
        upto == IF Len(box) < from + MaxResults THEN Len(box) ELSE from + MaxResults
        next == IF upto < Len(box) \/ upto = from + MaxResults THEN {upto} ELSE {}
        last == IF upto = Len(box) THEN {NoToken} ELSE {}
    IN  /\ \E k \in next \union last : ReceiveThreadPage(SubSeq(box, from + 1, upto), k)
        /\ listing' = Members(box)
        /\ UNCHANGED <<mailbox, history>>

Snapshot(t) == [i \in 1..arrived[t] |-> Translated(LetterIn[t][i])]

(* list_messages reads the whole thread, then the structure of every       *)
(* message in it; a Gmail thread has no second page.                       *)
ListMessages ==
    /\ phase = "messages"
    /\ Head(page) \in Members(box)
    /\ ReceiveMessagePage(Snapshot(Head(page)), NoToken)
    /\ UNCHANGED <<mailbox, history, listing>>

(* Mutant of ThreadNotFound: a thread that is gone is passed over. *)
SkipMissingThread ==
    /\ phase = "messages"
    /\ Head(page) \notin Members(box)
    /\ Advance(threads, Tail(page), following)
    /\ UNCHANGED <<bound, catalog, threads, limitations, enumerated>>
    /\ UNCHANGED <<mailbox, history, listing>>

(* 404: the thread is gone. *)
ThreadNotFound ==
    /\ phase = "messages"
    /\ Head(page) \notin Members(box)
    /\ ProviderFails
    /\ UNCHANGED <<mailbox, history, listing>>

RequestFails ==
    /\ ProviderFails
    /\ disturbed' = TRUE
    /\ UNCHANGED <<mailbox, changes, removals, listing>>

Reading == ListLabels \/ ListThreads \/ ListMessages \/ ThreadNotFound

-----------------------------------------------------------------------------
(* Other clients and arriving mail: external. *)

Change ==
    /\ phase \notin Ended
    /\ changes < MaxChanges
    /\ changes' = changes + 1
    /\ disturbed' = TRUE
    /\ UNCHANGED <<vars, listing>>

Without(t) ==
    LET at == CHOOSE i \in DOMAIN box : box[i] = t
    IN  IF t \in Members(box)
        THEN SubSeq(box, 1, at - 1) \o SubSeq(box, at + 1, Len(box))
        ELSE box

(* A letter arrives; its thread, new or not, becomes the newest. *)
Arrive(t) ==
    /\ Change
    /\ arrived[t] < Len(LetterIn[t])
    /\ arrived[t] > 0 => t \in Members(box)
    /\ arrived' = [arrived EXCEPT ![t] = @ + 1]
    /\ box' = <<t>> \o Without(t)
    /\ UNCHANGED <<labels, removals>>

Remove(t) ==
    /\ Change
    /\ t \in Members(box)
    /\ box' = Without(t)
    /\ removals' = TRUE
    /\ UNCHANGED <<arrived, labels>>

CreateLabel(l) ==
    /\ Change
    /\ labels' = labels \union {l}
    /\ UNCHANGED <<box, arrived, removals>>

Elsewhere ==
    \/ \E t \in Threads : Arrive(t) \/ Remove(t)
    \/ \E l \in LabelIds \ labels : CreateLabel(l)

GmailNext == Reading \/ RequestFails \/ Elsewhere

GmailSpec == GmailInit /\ [][GmailNext]_gmailVars

(* The adapter answers every call; nothing obliges the mailbox to change.  *)
FairGmailSpec == GmailSpec /\ WF_gmailVars(Reading)

-----------------------------------------------------------------------------

(* A mailbox at rest is read exactly: every thread in order, every letter  *)
(* of it, and the result says complete unless max_threads cut it short.    *)
RestingMailboxIsReadExactly ==
    ~ disturbed =>
        /\ phase # "failed"
        /\ \A i \in DOMAIN threads :
            threads[i].id = box[i] /\ threads[i].messages = Snapshot(box[i])
        /\ phase = "complete" => Len(threads) = Len(box)

(* While nothing is removed, a complete result lacks no thread that the    *)
(* mailbox held at the last threads.list: mail that arrives during the     *)
(* ingestion shifts a thread that was read onto a later page, and the      *)
(* duplicate check then fails the ingestion instead of missing threads.    *)
ArrivalsAreNotMissed ==
    phase = "complete" /\ ~ removals => listing \subseteq ThreadIds(threads)

(* Whatever the mailbox does, the adapter is a provider as Ingestion        *)
(* expects it, so what is proved about Ingestion holds here.               *)
ImplementsIngestion == Spec

(* A mailbox that stays at rest is read to the end.                        *)
RestingMailboxIsRead == [](~ disturbed) => <>(phase \in {"complete", "bounded"})
=============================================================================
