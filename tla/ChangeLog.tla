----------------------------- MODULE ChangeLog -----------------------------
(***************************************************************************)
(* The life of mutation attempts on one message: intent, provider call,    *)
(* change record, and the file the records are appended to.  The write     *)
(* workflow itself is not in the repository; it is any caller that keeps   *)
(* the order of docs/mutation-journal.md and reads the states it records   *)
(* from the provider, and is otherwise free to ask for nonsense: what      *)
(* stops it are the checks of ChangeRecord.  Between any two steps the     *)
(* caller may die, which loses nothing but its memory, and another client  *)
(* may change the message.                                                 *)
(***************************************************************************)
EXTENDS Integers, Sequences, FiniteSets, ChangeRecord

CONSTANTS
    Exposures,      \* which placements a provider may report: sets of "inbox", "trash"
    MaxDifferences, \* bound: label and placement changes an intent asks for
    MaxRecords,     \* bound: change records appended
    MaxTears,       \* bound: appends that end early
    MaxForeign      \* bound: changes made by another client

Mailboxes == {m \in [labels : SUBSET (Labels \union Marks), inbox : {"in", "out"},
                     trash : {"in", "out"}] : Coherent(m)}

VARIABLES
    exposed,     \* the placements the provider reports
    mailbox,     \* the message as the provider holds it
    attempt,     \* the intent without a finalization, or None
    effect,      \* history: what the provider did for the attempt
    touched,     \* history: another client changed the message during the attempt
    last,        \* the record of the attempt that ended last, None while one is open
    appended,    \* how many appends have returned
    lines,       \* the file: its lines, each the pieces written to it
    open,        \* the last line has no line feed yet
    tears,       \* history: appends that ended early
    foreign      \* history: changes made by another client

message == <<exposed, mailbox>>
journal == <<attempt, effect, touched>>
file == <<appended, lines, open, tears>>
vars == <<exposed, mailbox, attempt, effect, touched, last,
          appended, lines, open, tears, foreign>>

Torn == 0   \* a piece of a line that is not a whole record; others are record numbers

Observed(m) == [
    labels   |-> m.labels,
    inbox    |-> IF "inbox" \in exposed THEN m.inbox ELSE "unknown",
    trash    |-> IF "trash" \in exposed THEN m.trash ELSE "unknown",
    revision |-> "seen"]

TypeOK ==
    /\ exposed \in Exposures
    /\ mailbox \in Mailboxes
    /\ attempt \in Intents \union {None}
    /\ effect \in {"none", "full", "partial"}
    /\ touched \in BOOLEAN /\ open \in BOOLEAN
    /\ last \in ChangeRecords \union {None}
    /\ appended \in Nat /\ tears \in Nat /\ foreign \in Nat
    /\ lines \in Seq(Seq(Nat))

Init ==
    /\ exposed \in Exposures
    /\ mailbox \in Mailboxes
    /\ attempt = None /\ effect = "none" /\ touched = FALSE
    /\ last = None
    /\ appended = 0 /\ lines = <<>> /\ open = FALSE /\ tears = 0
    /\ foreign = 0

-----------------------------------------------------------------------------
(* The caller reads the message and makes an intent of any action and any  *)
(* requested state its constructor takes.                                  *)
Differences(s, t) ==
    Cardinality((s.labels \ t.labels) \union (t.labels \ s.labels))
    + IF s.inbox = t.inbox /\ s.trash = t.trash THEN 0 ELSE 1

Intend(action, target, requested) ==
    LET intent == [action |-> action, target |-> target,
                   before |-> Observed(mailbox), requested |-> requested]
    IN  /\ attempt = None /\ appended < MaxRecords
        /\ Differences(intent.before, requested) <= MaxDifferences
        /\ ValidIntent(intent)
        /\ attempt' = intent
        /\ effect' = "none" /\ touched' = FALSE
        /\ last' = None
        /\ UNCHANGED <<message, file, foreign>>

(* What the provider makes of the message when it carries out an action.   *)
Carried(i) ==
    {m \in Mailboxes :
        CASE i.action = "add_label"    -> m = [mailbox EXCEPT !.labels = @ \union {i.target}]
          [] i.action = "remove_label" -> m = [mailbox EXCEPT !.labels = @ \ {i.target}]
          [] i.action = "archive"      -> m = [mailbox EXCEPT !.inbox = "out"]
          [] i.action = "restore_to_inbox" ->
                m = [mailbox EXCEPT !.inbox = "in", !.trash = "out"]
          [] i.action = "move_to_trash" ->
                m = [mailbox EXCEPT !.inbox = "out", !.trash = "in"]
          [] i.action = "restore_from_trash" ->
                /\ m.inbox = i.requested.inbox \/ i.requested.inbox = "unknown"
                /\ m = [mailbox EXCEPT !.trash = "out", !.inbox = m.inbox]}

(* A move of two placements that stops after the first. *)
CarriedPartly(i) ==
    {m \in Mailboxes \ {mailbox} :
        \/ /\ i.action = "move_to_trash"
           /\ m = [mailbox EXCEPT !.inbox = "out"]
        \/ /\ i.action = "restore_from_trash" /\ i.requested.inbox = "in"
           /\ m = [mailbox EXCEPT !.trash = "out"]}

Call(m, extent) ==
    /\ attempt # None /\ effect = "none"
    /\ m \in IF extent = "full" THEN Carried(attempt) ELSE CarriedPartly(attempt)
    /\ mailbox' = m /\ effect' = extent
    /\ UNCHANGED <<exposed, attempt, touched, last, file, foreign>>

(* One label more or less, or another place. *)
ForeignChange(m) ==
    /\ foreign < MaxForeign
    /\ m # mailbox
    /\ \/ m.labels = mailbox.labels
       \/ \E l \in Labels \union Marks :
            m = [mailbox EXCEPT !.labels = IF l \in @ THEN @ \ {l} ELSE @ \union {l}]
    /\ mailbox' = m
    /\ touched' = TRUE /\ foreign' = foreign + 1
    /\ UNCHANGED <<exposed, attempt, effect, last, file>>

-----------------------------------------------------------------------------
(* Mutant: the file is replaced. *)
Replaced(piece) == <<<<piece>>>>

(* append_change_record_jsonl: open for appending, write, flush, fsync.    *)
Extended(piece) ==
    IF open THEN [lines EXCEPT ![Len(lines)] = Append(@, piece)]
    ELSE Append(lines, <<piece>>)

AppendRecord ==
    /\ appended' = appended + 1
    /\ lines' = Extended(appended + 1)
    /\ open' = FALSE
    /\ UNCHANGED tears

(* An OSError, the end of the process or a power loss during the append:   *)
(* what it wrote, if anything, has no line feed.                           *)
AppendTorn ==
    /\ tears < MaxTears
    /\ tears' = tears + 1
    /\ lines' = Extended(Torn)
    /\ open' = TRUE
    /\ UNCHANGED appended

(* The caller describes the attempt by a record it may fill in as it       *)
(* likes, except for the states.                                           *)
Described(result, resulting, gates, mode, proposal, rollback) == [
    action |-> attempt.action, target |-> attempt.target,
    previous |-> Snapshot(attempt.before), requested |-> Snapshot(attempt.requested),
    resulting |-> resulting, gates |-> gates, mode |-> mode, result |-> result,
    proposal |-> proposal, rollback |-> rollback]

Record(record) ==
    /\ ValidRecord(record)
    /\ AppendRecord
    /\ last' = record
    /\ attempt' = None /\ effect' = "none" /\ touched' = FALSE
    /\ UNCHANGED <<message, foreign>>

RecordAttempt(result, resulting, gates, mode, proposal, rollback) ==
    /\ attempt # None
    /\ Record(Described(result, resulting, gates, mode, proposal, rollback))

PlausibleRollbacks ==
    IF attempt = None THEN {}
    ELSE [action : {attempt.action, RollbackAction[attempt.action]},
          restore : {Snapshot(attempt.before), Snapshot(attempt.requested)}]

RecordTorn ==
    /\ attempt # None
    /\ AppendTorn
    /\ UNCHANGED <<message, journal, last, foreign>>

CallerStep ==
    \/ \E action \in Actions, target \in Labels \union {None}, requested \in ProviderStates :
        Intend(action, target, requested)
    \/ \E result \in Statuses, gates \in {{"passed"}, {"passed", "blocked"}},
          mode \in Modes, proposal \in Labels \union {None},
          resulting \in {None, Snapshot(Observed(mailbox))},
          rollback \in {None} \union PlausibleRollbacks :
        RecordAttempt(result, resulting, gates, mode, proposal, rollback)
    \/ RecordTorn

ProviderStep ==
    \/ \E m \in Mailboxes, extent \in {"full", "partial"} : Call(m, extent)
    \/ \E m \in Mailboxes : ForeignChange(m)

Next == CallerStep \/ ProviderStep

Spec == Init /\ [][Next]_vars

-----------------------------------------------------------------------------
(* An intent the change log could record, if it is carried out: its states *)
(* fit its action, and what it asks for can be observed.                   *)
Sensible(i) ==
    /\ RequestedTransition(i.action, i.target, Snapshot(i.before), Snapshot(i.requested))
    /\ i.requested.labels \intersect Marks = i.before.labels \intersect Marks
    /\ \A p \in {"inbox", "trash"} : i.requested[p] = "unknown" <=> p \notin exposed

ExecutedResults == {"succeeded", "failed", "partial_failure"}

(* Whatever the message looks like after an attempt whose states fit its   *)
(* action, exactly one of the results of an execution can be recorded with *)
(* that state: no outcome is without a record and none has two.            *)
OutcomeIsUnique ==
    attempt # None /\ RequestedTransition(attempt.action, attempt.target,
                          Snapshot(attempt.before), Snapshot(attempt.requested))
        => \E result \in ExecutedResults :
              \A other \in ExecutedResults :
                  ResultFits(other, Snapshot(attempt.before), Snapshot(attempt.requested),
                             Snapshot(Observed(mailbox))) <=> other = result

(* As long as no other client touches the message, reconciling a sensible  *)
(* attempt with fresh provider state tells how far the call went.          *)
VerdictIsTrue ==
    attempt # None /\ ~touched /\ Sensible(attempt)
        => Reconcile(attempt, Observed(mailbox)) =
              CASE effect = "none"    -> "previous_state_observed"
                [] effect = "full"    -> "requested_state_observed"
                [] effect = "partial" -> "divergent_state_observed"

(* Likewise a record of it that states the resulting state has the result  *)
(* that the provider produced: no success without the change, no refusal   *)
(* or failure after it.                                                    *)
RecordsTellTheOutcome ==
    [][ appended' # appended /\ ~touched /\ Sensible(attempt) /\ last'.resulting # None
          => last'.result \in CASE effect = "none"    -> {"failed", "denied"}
                                [] effect = "full"    -> {"succeeded"}
                                [] effect = "partial" -> {"partial_failure"} ]_vars

(* A successful change recorded as reversible can be undone by a change    *)
(* that the log takes: the rollback action leads from the resulting state  *)
(* to the one to restore.  The exception is a message restored from Trash  *)
(* whose Inbox placement was not known: moving it back is recorded only    *)
(* with a known one.                                                       *)
Undoable(r) == RequestedTransition(r.rollback.action, r.target, r.resulting, r.rollback.restore)

UndoIsRecordable ==
    last # None /\ last.result = "succeeded" /\ last.rollback # None
    /\ (last.action = "restore_from_trash" => last.previous.inbox # "unknown")
        => Undoable(last)

(* An append that ends early makes at most one record unreadable: its torn *)
(* piece swallows the next record, and no other.                           *)
Readable(n) == \E i \in DOMAIN lines : lines[i] = <<n>>
LossIsBounded == Cardinality({n \in 1..appended : ~Readable(n)}) <= tears
=============================================================================
