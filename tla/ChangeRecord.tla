---------------------------- MODULE ChangeRecord ----------------------------
(***************************************************************************)
(* The rules of a recorded mutation: what change_log.py demands of a       *)
(* change record, what mutation_journal.py demands of an attempt's intent, *)
(* and how an interrupted attempt is compared with the provider.           *)
(* Identifiers, timestamps, evidence, confidence, and of the dry-run       *)
(* reference everything but the proposed label, are left out.              *)
(***************************************************************************)
CONSTANTS
    Labels,    \* user labels
    Marks,     \* labels only the provider manages, such as UNREAD
    None       \* Python's None: no label, no state, no proposal

LabelActions == {"add_label", "remove_label"}
Actions == LabelActions \union
    {"archive", "restore_to_inbox", "move_to_trash", "restore_from_trash"}

RollbackAction == [
    add_label          |-> "remove_label",
    remove_label       |-> "add_label",
    archive            |-> "restore_to_inbox",
    restore_to_inbox   |-> "archive",
    move_to_trash      |-> "restore_from_trash",
    restore_from_trash |-> "move_to_trash"]

(* in_inbox and in_trash: True, False and None. *)
Placements == {"in", "out", "unknown"}
Coherent(s) == ~ (s.inbox = "in" /\ s.trash = "in")

Snapshots ==
    {s \in [labels : SUBSET Labels, inbox : Placements, trash : Placements] : Coherent(s)}

(* A revision is only ever compared: "seen" is the one that was read. *)
Revisions == {"seen", "other"}
ProviderStates ==
    {s \in [labels : SUBSET (Labels \union Marks), inbox : Placements, trash : Placements,
            revision : Revisions] : Coherent(s)}

(* Mutant: labels of the provider are recorded with those of the user. *)
SnapshotWithMarks(s) == [labels |-> s.labels, inbox |-> s.inbox, trash |-> s.trash]

Snapshot(s) == [labels |-> s.labels \ Marks, inbox |-> s.inbox, trash |-> s.trash]

-----------------------------------------------------------------------------
(* Change records *)

Statuses == {"succeeded", "failed", "partial_failure", "denied"}
Decisions == {"passed", "blocked", "not_applicable"}
Modes == {"explicit_write", "dedicated_cleanup_write", "rollback"}

ActionTarget(action, target) == action \in LabelActions <=> target # None

(* Mutant: a label may be added to a message that has it. *)
LabelTransitionRepeated(action, target, previous, requested) ==
    \/ /\ action = "add_label"
       /\ requested = [previous EXCEPT !.labels = @ \union {target}]
    \/ /\ action = "remove_label"
       /\ requested = [previous EXCEPT !.labels = @ \ {target}]

LabelTransition(action, target, previous, requested) ==
    \/ /\ action = "add_label"
       /\ target \notin previous.labels
       /\ requested = [previous EXCEPT !.labels = @ \union {target}]
    \/ /\ action = "remove_label"
       /\ target \in previous.labels
       /\ requested = [previous EXCEPT !.labels = @ \ {target}]

PlacementTransition(action, previous, requested) ==
    \/ /\ action \in {"archive", "restore_to_inbox"}
       /\ previous.inbox = IF action = "archive" THEN "in" ELSE "out"
       /\ requested = [previous EXCEPT !.inbox = IF action = "archive" THEN "out" ELSE "in"]
    \/ /\ action = "move_to_trash"
       /\ previous.trash = "out"
       /\ requested = [previous EXCEPT !.trash = "in", !.inbox = "out"]
    \/ /\ action = "restore_from_trash"
       /\ previous.trash = "in"
       /\ requested = [previous EXCEPT !.trash = "out", !.inbox = requested.inbox]

(* The requested state is what the action, by its name, makes of the       *)
(* previous one.                                                           *)
RequestedTransition(action, target, previous, requested) ==
    \/ LabelTransition(action, target, previous, requested)
    \/ PlacementTransition(action, previous, requested)

GatesFit(result, gates) == gates # {} /\ (result = "denied" <=> "blocked" \in gates)

ModeFits(action, mode) == mode = "dedicated_cleanup_write" <=> action = "move_to_trash"

ProposalFits(action, target, proposal) ==
    proposal # None => action = "add_label" /\ proposal = target

ResultFits(result, previous, requested, resulting) ==
    CASE result = "succeeded"       -> resulting = requested
      [] result = "failed"          -> resulting \in {None, previous}
      [] result = "partial_failure" -> resulting \notin {None, previous, requested}
      [] result = "denied"          -> resulting = previous

(* Mutant: the state to restore is not compared. *)
RollbackFitsByAction(action, previous, rollback) ==
    rollback # None => rollback.action = RollbackAction[action]

(* rollback = None stands for reversible = False. *)
RollbackFits(action, previous, rollback) ==
    rollback # None =>
        rollback.action = RollbackAction[action] /\ rollback.restore = previous

Rollbacks == [action : Actions, restore : Snapshots]

ASSUME ChangeRecordAssumption ==
    Labels \intersect Marks = {} /\ None \notin Labels \union Snapshots \union Rollbacks

ChangeRecords == [
    action : Actions, target : Labels \union {None},
    previous : Snapshots, requested : Snapshots, resulting : Snapshots \union {None},
    gates : SUBSET Decisions, mode : Modes, result : Statuses,
    proposal : Labels \union {None}, rollback : Rollbacks \union {None}]

ValidRecord(r) ==
    /\ ActionTarget(r.action, r.target)
    /\ GatesFit(r.result, r.gates)
    /\ RequestedTransition(r.action, r.target, r.previous, r.requested)
    /\ ModeFits(r.action, r.mode)
    /\ ProposalFits(r.action, r.target, r.proposal)
    /\ ResultFits(r.result, r.previous, r.requested, r.resulting)
    /\ RollbackFits(r.action, r.previous, r.rollback)

-----------------------------------------------------------------------------
(* Attempts *)

(* The mode and the dry-run reference travel with the intent, unchecked,   *)
(* and are left to the record.                                             *)
Intents == [
    action : Actions, target : Labels \union {None},
    before : ProviderStates, requested : ProviderStates]

(* MutationAttemptIntent does not check that the states fit the action:    *)
(* only that they differ, be it in their revision alone.                   *)
ValidIntent(i) == i.before # i.requested /\ ActionTarget(i.action, i.target)

(* Mutant: the revision counts as well. *)
SameStateAndRevision(left, right) == left = right

SameObservableState(left, right) ==
    left.labels = right.labels /\ left.inbox = right.inbox /\ left.trash = right.trash

Reconcile(i, fresh) ==
    IF SameObservableState(fresh, i.before) THEN "previous_state_observed"
    ELSE IF SameObservableState(fresh, i.requested) THEN "requested_state_observed"
    ELSE "divergent_state_observed"
=============================================================================
