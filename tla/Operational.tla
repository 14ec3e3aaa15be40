----------------------------- MODULE Operational -----------------------------
(***************************************************************************)
(* assess_operational_state (operational.py), with the default             *)
(* configuration or disabled.  Every cue and every significant document is *)
(* by itself over the threshold of a proposal, so scores are left out.     *)
(***************************************************************************)
EXTENDS Documents

CONSTANT PreferredLabel   \* per state: the label to create when there is none

OperationalRecommendations ==
    {"disabled", "no_proposal", "already_satisfied", "propose_operational_state",
     "review_required"}

(* OperationalLayerConfig refuses two states that share a label, and a     *)
(* specification that is not one per state.                                *)
ASSUME OperationalAssumption ==
    /\ CatalogState \in [Labels -> OperationalStates \union {None}]
    /\ PreferredLabel \in [OperationalStates -> Labels]
    /\ \A s \in OperationalStates : CatalogState[PreferredLabel[s]] = s
    /\ None \notin OperationalStates

Incompatible(left, right) == {left, right} = {"action", "waiting"}

OperationalLabels(labels) == {l \in labels : LabelClassOf[l] = "user_operational"}

CurrentStates(message) == {CatalogState[l] : l \in OperationalLabels(message.labels)} \ {None}
Unmapped(message) == {l \in OperationalLabels(message.labels) : CatalogState[l] = None}

(* Mutant: states the message has are proposed again.                      *)
ProposedStatesAgain(message, verdicts) ==
    {state \in OperationalStates :
        \/ Says(SubjectOf(message), StateKeywords[state])
        \/ state = "document" /\ \E v \in verdicts : v.significance = "significant_document"}

ProposedStates(message, verdicts) ==
    {state \in OperationalStates :
        \/ Says(SubjectOf(message), StateKeywords[state])
        \/ state = "document" /\ \E v \in verdicts : v.significance = "significant_document"}
    \ CurrentStates(message)

(* Mutant: no fallback to the preferred label.                             *)
ProposalOfExisting(state, available) ==
    LET existing == {l \in OperationalLabels(available) : CatalogState[l] = state}
    IN  [state |-> state, creates |-> existing = {},
         label |-> IF existing = {} THEN None ELSE CHOOSE l \in existing : TRUE]

(* The label of a proposal: one the mailbox has and the classifier calls   *)
(* operational, the preferred one first (of others the first by name);     *)
(* without any the preferred one is to be created.                         *)
ProposalFor(state, available) ==
    LET existing == {l \in OperationalLabels(available) : CatalogState[l] = state}
    IN  [state |-> state, creates |-> existing = {},
         label |-> IF existing = {} \/ PreferredLabel[state] \in existing
                   THEN PreferredLabel[state] ELSE CHOOSE l \in existing : TRUE]

Proposals(message, verdicts, available) ==
    {ProposalFor(state, available) : state \in ProposedStates(message, verdicts)}

OperationalConflictKinds ==
    {"incompatible_current_states", "incompatible_proposed_states",
     "current_state_conflicts_with_proposal", "unmapped_current_operational_label"}

OperationalConflicts(current, proposed, unmapped) ==
    {c \in OperationalConflictKinds :
        CASE c = "incompatible_current_states" ->
                 \E left, right \in current : Incompatible(left, right)
          [] c = "incompatible_proposed_states" ->
                 \E left, right \in proposed : Incompatible(left, right)
          [] c = "current_state_conflicts_with_proposal" ->
                 \E left \in current, right \in proposed : Incompatible(left, right)
          [] c = "unmapped_current_operational_label" -> unmapped # {}}

AssessOperational(message, verdicts, available, enabled) ==
    LET current == CurrentStates(message)
        proposals == Proposals(message, verdicts, available)
        conflicts == OperationalConflicts(current, {p.state : p \in proposals}, Unmapped(message))
    IN  IF ~enabled
        THEN [current |-> {}, proposals |-> {}, conflicts |-> {}, recommendation |-> "disabled"]
        ELSE [current |-> current, proposals |-> proposals, conflicts |-> conflicts,
              recommendation |->
                  IF conflicts # {} THEN "review_required"
                  ELSE IF proposals # {} THEN "propose_operational_state"
                  ELSE IF current # {} THEN "already_satisfied" ELSE "no_proposal"]
=============================================================================
