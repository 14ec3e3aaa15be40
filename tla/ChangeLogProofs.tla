-------------------------- MODULE ChangeLogProofs --------------------------
(***************************************************************************)
(* Proofs about ChangeLog, for every set of labels, every provider and any *)
(* number of records, torn appends and foreign changes.                    *)
(***************************************************************************)
EXTENDS ChangeLog, FiniteSetTheorems, SequenceTheorems, TLAPS

-----------------------------------------------------------------------------
(* Types. *)

(* What is seen of a message is a provider state, *)
LEMMA ObservedType ==
    ASSUME NEW m \in Mailboxes
    PROVE  Observed(m) \in ProviderStates
BY DEF Observed, Mailboxes, ProviderStates, Placements, Coherent, Revisions

(* and what is recorded of a provider state is a snapshot. *)
LEMMA SnapshotType ==
    ASSUME NEW s \in ProviderStates
    PROVE  Snapshot(s) \in Snapshots
BY DEF Snapshot, Snapshots, ProviderStates, Coherent

(* The file stays a sequence of lines, whatever is written to it. *)
LEMMA ExtendedType ==
    ASSUME TypeOK, NEW piece \in Nat
    PROVE  Extended(piece) \in Seq(Seq(Nat))
<1> lines \in Seq(Seq(Nat))
  BY DEF TypeOK
<1>1. CASE open
  <2>1. ASSUME NEW i \in 1..Len(lines)
        PROVE  lines[i] \in Seq(Nat) /\ Append(lines[i], piece) \in Seq(Nat)
    OBVIOUS
  <2>2. lines \in [1..Len(lines) -> Seq(Nat)] /\ Len(lines) \in Nat
    BY LenProperties
  <2>3. PICK longer : longer = Append(lines[Len(lines)], piece)
    OBVIOUS
  <2>4. Len(lines) \in 1..Len(lines) => longer \in Seq(Nat)
    BY <2>1, <2>3
  <2>5. [lines EXCEPT ![Len(lines)] = longer] \in [1..Len(lines) -> Seq(Nat)]
    BY <2>2, <2>4
  <2>6. [lines EXCEPT ![Len(lines)] = Append(@, piece)] \in Seq(Seq(Nat))
    BY <2>2, <2>3, <2>5
  <2> QED
    BY <1>1, <2>6 DEF Extended
<1>2. CASE ~open
  BY <1>2 DEF Extended
<1> QED
  BY <1>1, <1>2

(* A torn append keeps the types, *)
LEMMA TornTypes ==
    ASSUME TypeOK, RecordTorn
    PROVE  TypeOK'
<1>1. lines' \in Seq(Seq(Nat))
  BY ExtendedType DEF RecordTorn, AppendTorn, Torn
<1>2. tears' \in Nat
  BY DEF RecordTorn, AppendTorn, TypeOK
<1> QED
  BY <1>1, <1>2 DEF TypeOK, RecordTorn, AppendTorn, message, journal

(* and so does a record of an attempt, *)
LEMMA RecordTypes ==
    ASSUME TypeOK,
           NEW result \in Statuses, NEW gates \in {{"passed"}, {"passed", "blocked"}},
           NEW mode \in Modes, NEW proposal \in Labels \union {None},
           NEW resulting \in {None, Snapshot(Observed(mailbox))},
           NEW rollback \in {None} \union PlausibleRollbacks,
           RecordAttempt(result, resulting, gates, mode, proposal, rollback)
    PROVE  TypeOK'
<1> DEFINE record == Described(result, resulting, gates, mode, proposal, rollback)
<1>1. attempt \in Intents /\ mailbox \in Mailboxes
  BY DEF RecordAttempt, TypeOK
<1>2. Snapshot(attempt.before) \in Snapshots /\ Snapshot(attempt.requested) \in Snapshots
  BY <1>1, SnapshotType DEF Intents
<1>3. Snapshot(Observed(mailbox)) \in Snapshots
  BY <1>1, SnapshotType, ObservedType
<1>4. rollback \in Rollbacks \union {None}
  <2>1. attempt.action \in Actions /\ RollbackAction[attempt.action] \in Actions
    BY <1>1 DEF Intents, Actions, LabelActions, RollbackAction
  <2> QED
    BY <1>2, <2>1 DEF PlausibleRollbacks, Rollbacks
<1>5. gates \in SUBSET Decisions
  BY DEF Decisions
<1>6. record \in ChangeRecords
  BY <1>1, <1>2, <1>3, <1>4, <1>5 DEF Described, ChangeRecords, Intents
<1>7. lines' \in Seq(Seq(Nat))
  <2>1. appended + 1 \in Nat
    BY DEF TypeOK
  <2> QED
    BY <2>1, ExtendedType DEF RecordAttempt, Record, AppendRecord
<1>8. appended' \in Nat
  BY DEF RecordAttempt, Record, AppendRecord, TypeOK
<1> QED
  BY <1>6, <1>7, <1>8 DEF TypeOK, RecordAttempt, Record, AppendRecord, message

(* a new intent *)
LEMMA IntentTypes ==
    ASSUME TypeOK, NEW action \in Actions, NEW target \in Labels \union {None},
           NEW requested \in ProviderStates, Intend(action, target, requested)
    PROVE  TypeOK'
<1>1. Observed(mailbox) \in ProviderStates
  BY ObservedType DEF TypeOK
<1>2. attempt' \in Intents
  BY <1>1 DEF Intend, Intents
<1> QED
  BY <1>2 DEF TypeOK, Intend, message, file

(* and whatever becomes of the message. *)
LEMMA ProviderTypes ==
    ASSUME TypeOK, ProviderStep
    PROVE  TypeOK'
<1>1. ASSUME NEW m \in Mailboxes, NEW extent \in {"full", "partial"}, Call(m, extent)
      PROVE  TypeOK'
  BY <1>1 DEF TypeOK, Call, file
<1>2. ASSUME NEW m \in Mailboxes, ForeignChange(m)
      PROVE  TypeOK'
  BY <1>2 DEF TypeOK, ForeignChange, file
<1> QED
  BY <1>1, <1>2 DEF ProviderStep

LEMMA TypeStep ==
    ASSUME TypeOK, [Next]_vars
    PROVE  TypeOK'
<1>1. CASE CallerStep
  BY <1>1, IntentTypes, RecordTypes, TornTypes DEF CallerStep
<1>2. CASE ProviderStep
  BY <1>2, ProviderTypes
<1>3. CASE UNCHANGED vars
  BY <1>3 DEF TypeOK, vars
<1> QED
  BY <1>1, <1>2, <1>3 DEF Next

LEMMA TypeInit ==
    ASSUME Init
    PROVE  TypeOK
<1>1. lines \in Seq(Seq(Nat))
  BY DEF Init
<1>2. touched \in BOOLEAN /\ open \in BOOLEAN
  BY DEF Init
<1>3. attempt \in Intents \union {None} /\ last \in ChangeRecords \union {None}
  BY DEF Init
<1> QED
  BY <1>1, <1>2, <1>3 DEF Init, TypeOK

(* The state of the workflow, of the message and of the file has its type, *)
(* whatever the caller asks for.                                           *)
THEOREM ChangeLogTypeCorrect == Spec => []TypeOK
BY TypeInit, TypeStep, PTL DEF Spec

-----------------------------------------------------------------------------
(* Outcomes. *)

(* A transition that the log takes changes the state. *)
LEMMA TransitionsChange ==
    ASSUME NEW action \in Actions, NEW target, NEW previous \in Snapshots,
           NEW requested \in Snapshots,
           RequestedTransition(action, target, previous, requested)
    PROVE  requested # previous
<1>1. CASE LabelTransition(action, target, previous, requested)
  BY <1>1 DEF LabelTransition, Snapshots
<1>2. CASE PlacementTransition(action, previous, requested)
  BY <1>2 DEF PlacementTransition, Snapshots
<1> QED
  BY <1>1, <1>2 DEF RequestedTransition

(* Hence the rules for the three results of an execution divide the states *)
(* that may result. *)
LEMMA ResultsDivideStates ==
    ASSUME NEW previous \in Snapshots, NEW requested \in Snapshots,
           NEW resulting \in Snapshots, requested # previous
    PROVE  \E result \in ExecutedResults :
              \A other \in ExecutedResults :
                  ResultFits(other, previous, requested, resulting) <=> other = result
<1> resulting # None
  BY ChangeRecordAssumption
<1>1. CASE resulting = requested
  BY <1>1 DEF ExecutedResults, ResultFits
<1>2. CASE resulting = previous
  BY <1>2 DEF ExecutedResults, ResultFits
<1>3. CASE resulting \notin {previous, requested}
  BY <1>3 DEF ExecutedResults, ResultFits
<1> QED
  BY <1>1, <1>2, <1>3

(* Whatever the message looks like after an attempt whose states fit its   *)
(* action, exactly one of the results succeeded, failed and partial        *)
(* failure can be recorded with that state.                                *)
THEOREM OutcomesAreUnique == Spec => []OutcomeIsUnique
<1>1. ASSUME TypeOK
      PROVE  OutcomeIsUnique
  <2> SUFFICES ASSUME attempt # None,
                      RequestedTransition(attempt.action, attempt.target,
                          Snapshot(attempt.before), Snapshot(attempt.requested))
               PROVE  \E result \in ExecutedResults :
                         \A other \in ExecutedResults :
                             ResultFits(other, Snapshot(attempt.before),
                                        Snapshot(attempt.requested),
                                        Snapshot(Observed(mailbox))) <=> other = result
    BY DEF OutcomeIsUnique
  <2>1. attempt \in Intents /\ mailbox \in Mailboxes
    BY <1>1 DEF TypeOK
  <2>2. /\ Snapshot(attempt.before) \in Snapshots
        /\ Snapshot(attempt.requested) \in Snapshots
        /\ Snapshot(Observed(mailbox)) \in Snapshots
    BY <2>1, ObservedType, SnapshotType DEF Intents
  <2>3. Snapshot(attempt.requested) # Snapshot(attempt.before)
    BY <2>1, <2>2, TransitionsChange DEF Intents
  <2> QED
    BY <2>2, <2>3, ResultsDivideStates
<1> QED
  BY <1>1, ChangeLogTypeCorrect, PTL

-----------------------------------------------------------------------------
(* Undoing. *)

(* The record of the attempt that ended last passed every check. *)
LastIsValid == last # None => ValidRecord(last)

LEMMA LastStep ==
    ASSUME LastIsValid, [Next]_vars
    PROVE  LastIsValid'
<1>1. ASSUME NEW action \in Actions, NEW target \in Labels \union {None},
             NEW requested \in ProviderStates, Intend(action, target, requested)
      PROVE  LastIsValid'
  BY <1>1 DEF Intend, LastIsValid
<1>2. ASSUME NEW result \in Statuses, NEW gates, NEW mode \in Modes,
             NEW proposal \in Labels \union {None}, NEW resulting, NEW rollback,
             RecordAttempt(result, resulting, gates, mode, proposal, rollback)
      PROVE  LastIsValid'
  <2> DEFINE record == Described(result, resulting, gates, mode, proposal, rollback)
  <2>1. ValidRecord(record) /\ last' = record
    BY <1>2 DEF RecordAttempt, Record
  <2> QED
    BY <2>1 DEF LastIsValid, ValidRecord
<1>3. CASE RecordTorn
  BY <1>3 DEF RecordTorn, LastIsValid, ValidRecord
<1>4. CASE ProviderStep
  BY <1>4 DEF ProviderStep, Call, ForeignChange, LastIsValid, ValidRecord
<1>5. CASE UNCHANGED vars
  BY <1>5 DEF vars, LastIsValid, ValidRecord
<1> QED
  BY <1>1, <1>2, <1>3, <1>4, <1>5 DEF Next, CallerStep

(* The rollback action leads back from the requested state, label by label *)
LEMMA LabelsComeBack ==
    ASSUME NEW action \in Actions, NEW target, NEW previous \in Snapshots,
           NEW requested \in Snapshots,
           LabelTransition(action, target, previous, requested)
    PROVE  LabelTransition(RollbackAction[action], target, requested, previous)
<1>1. CASE action = "add_label"
  <2>1. /\ target \notin previous.labels
        /\ requested = [previous EXCEPT !.labels = @ \union {target}]
    BY <1>1 DEF LabelTransition
  <2>2. target \in requested.labels /\ requested.labels \ {target} = previous.labels
    BY <2>1 DEF Snapshots
  <2>3. previous = [requested EXCEPT !.labels = requested.labels \ {target}]
    BY <2>1, <2>2 DEF Snapshots
  <2>4. RollbackAction[action] = "remove_label"
    BY <1>1 DEF RollbackAction
  <2> QED
    BY <2>2, <2>3, <2>4 DEF LabelTransition
<1>2. CASE action = "remove_label"
  <2>1. /\ target \in previous.labels
        /\ requested = [previous EXCEPT !.labels = @ \ {target}]
    BY <1>2 DEF LabelTransition
  <2>2. target \notin requested.labels /\ requested.labels \union {target} = previous.labels
    BY <2>1 DEF Snapshots
  <2>3. previous = [requested EXCEPT !.labels = requested.labels \union {target}]
    BY <2>1, <2>2 DEF Snapshots
  <2>4. RollbackAction[action] = "add_label"
    BY <1>2 DEF RollbackAction
  <2> QED
    BY <2>2, <2>3, <2>4 DEF LabelTransition
<1> QED
  BY <1>1, <1>2 DEF LabelTransition

(* and place by place. A message in Trash is not in the Inbox: this is why *)
(* moving it back there restores the placement it had, if it was known.    *)
LEMMA PlacesComeBack ==
    ASSUME NEW action \in Actions, NEW previous \in Snapshots, NEW requested \in Snapshots,
           PlacementTransition(action, previous, requested),
           action = "restore_from_trash" => previous.inbox # "unknown"
    PROVE  PlacementTransition(RollbackAction[action], requested, previous)
<1> USE DEF Snapshots, PlacementTransition, RollbackAction, LabelActions
<1>1. CASE action = "archive"
  BY <1>1
<1>2. CASE action = "restore_to_inbox"
  BY <1>2
<1>3. CASE action = "move_to_trash"
  BY <1>3
<1>4. CASE action = "restore_from_trash"
  <2>1. previous.inbox = "out"
    BY <1>4 DEF Coherent, Placements
  <2> QED
    BY <1>4, <2>1
<1> QED
  BY <1>1, <1>2, <1>3, <1>4

(* A successful change recorded as reversible can be undone by a change    *)
(* that the log takes, unless it restored a message from Trash whose Inbox *)
(* placement was not known.                                                *)
THEOREM UndoingIsRecordable == Spec => []UndoIsRecordable
<1>1. Init => LastIsValid
  BY DEF Init, LastIsValid
<1>2. Spec => []LastIsValid
  BY <1>1, LastStep, PTL DEF Spec
<1>3. ASSUME TypeOK, LastIsValid
      PROVE  UndoIsRecordable
  <2> SUFFICES ASSUME last # None, last.result = "succeeded", last.rollback # None,
                      last.action = "restore_from_trash" => last.previous.inbox # "unknown"
               PROVE  Undoable(last)
    BY DEF UndoIsRecordable
  <2>1. ValidRecord(last) /\ last \in ChangeRecords
    BY <1>3 DEF LastIsValid, TypeOK
  <2>2. /\ last.action \in Actions
        /\ last.previous \in Snapshots /\ last.requested \in Snapshots
    BY <2>1 DEF ChangeRecords
  <2>3. /\ RequestedTransition(last.action, last.target, last.previous, last.requested)
        /\ last.resulting = last.requested
        /\ last.rollback.action = RollbackAction[last.action]
        /\ last.rollback.restore = last.previous
    BY <2>1 DEF ValidRecord, ResultFits, RollbackFits
  <2>4. RequestedTransition(RollbackAction[last.action], last.target,
                            last.requested, last.previous)
    BY <2>2, <2>3, LabelsComeBack, PlacesComeBack DEF RequestedTransition
  <2> QED
    BY <2>3, <2>4 DEF Undoable
<1> QED
  BY <1>2, <1>3, ChangeLogTypeCorrect, PTL

-----------------------------------------------------------------------------
(* Torn appends. *)

Unreadable == {n \in 1..appended : ~Readable(n)}

(* A line without line feed began with a torn piece, and the append that   *)
(* tore it has not cost a record yet.                                      *)
OpenLineIsTorn ==
    open => lines # <<>> /\ lines[Len(lines)] # <<>> /\ lines[Len(lines)][1] = Torn

TearsCover == Cardinality(Unreadable) + (IF open THEN 1 ELSE 0) <= tears

LossInv == TypeOK /\ OpenLineIsTorn /\ TearsCover

LEMMA UnreadableIsFinite ==
    ASSUME TypeOK
    PROVE  IsFiniteSet(Unreadable) /\ Cardinality(Unreadable) \in Nat
<1>1. IsFiniteSet(1..appended)
  BY FS_Interval DEF TypeOK
<1>2. Unreadable \in SUBSET (1..appended)
  BY DEF Unreadable
<1> QED
  BY <1>1, <1>2, FS_Subset, FS_CardinalityType

(* What is written to the file goes to its last line, an open one or a new *)
(* one; the lines before it stay.                                          *)
LEMMA ExtendedLines ==
    ASSUME LossInv, NEW piece \in Nat
    PROVE  LET longer == Extended(piece)
           IN  /\ \A i \in DOMAIN lines :
                     ~ (open /\ i = Len(lines)) => i \in DOMAIN longer /\ longer[i] = lines[i]
               /\ longer # <<>>
               /\ open => /\ Len(longer) = Len(lines)
                          /\ longer[Len(longer)] = Append(lines[Len(lines)], piece)
               /\ ~open => longer[Len(longer)] = <<piece>>
<1> lines \in Seq(Seq(Nat))
  BY DEF LossInv, TypeOK
<1>1. CASE open
  <2>1. lines # <<>>
    BY <1>1 DEF LossInv, OpenLineIsTorn
  <2>2. Len(lines) \in 1..Len(lines) /\ DOMAIN lines = 1..Len(lines) /\ Len(lines) \in Nat
    BY <2>1, EmptySeq, LenProperties
  <2>3. PICK last_line : last_line = Append(lines[Len(lines)], piece)
    OBVIOUS
  <2>4. PICK longer : longer = [lines EXCEPT ![Len(lines)] = last_line]
    OBVIOUS
  <2>5. last_line \in Seq(Nat)
    BY <2>2, <2>3
  <2>6. longer \in [1..Len(lines) -> Seq(Nat)]
    BY <2>2, <2>4, <2>5
  <2>7. longer \in Seq(Seq(Nat)) /\ Len(longer) = Len(lines)
    BY <2>2, <2>4, <2>5, ExceptSeq
  <2>8. Extended(piece) = longer
    BY <1>1, <2>3, <2>4 DEF Extended
  <2>9. longer # <<>>
    BY <2>1, <2>7, EmptySeq
  <2> QED
    BY <1>1, <2>2, <2>3, <2>4, <2>6, <2>7, <2>8, <2>9
<1>2. CASE ~open
  <2>1. PICK line : line = <<piece>>
    OBVIOUS
  <2>2. line \in Seq(Nat)
    BY <2>1
  <2>3. PICK longer : longer = Append(lines, line)
    OBVIOUS
  <2>4. /\ longer \in Seq(Seq(Nat)) /\ Len(longer) = Len(lines) + 1
        /\ \A i \in 1..Len(lines) : longer[i] = lines[i]
        /\ longer[Len(lines) + 1] = line
    BY <2>2, <2>3, AppendProperties
  <2>5. Extended(piece) = longer
    BY <1>2, <2>1, <2>3 DEF Extended
  <2>6. /\ DOMAIN longer = 1..(Len(lines) + 1) /\ DOMAIN lines = 1..Len(lines)
        /\ Len(lines) \in Nat
    BY <2>4, LenProperties
  <2>7. longer # <<>> /\ longer[Len(longer)] = <<piece>>
    BY <2>1, <2>4, <2>6, EmptySeq
  <2>8. \A i \in DOMAIN lines : i \in DOMAIN longer /\ longer[i] = lines[i]
    BY <2>4, <2>6
  <2> QED
    BY <1>2, <2>5, <2>7, <2>8
<1> QED
  BY <1>1, <1>2

(* The open line holds no readable record, so none is lost by writing. *)
LEMMA ReadableStays ==
    ASSUME LossInv, NEW piece \in Nat, lines' = Extended(piece),
           NEW n \in Nat, n # Torn, Readable(n)
    PROVE  Readable(n)'
<1>1. PICK i \in DOMAIN lines : lines[i] = <<n>>
  BY DEF Readable
<1>2. ~ (open /\ i = Len(lines))
  BY <1>1 DEF LossInv, OpenLineIsTorn
<1>3. i \in DOMAIN lines' /\ lines'[i] = <<n>>
  BY <1>1, <1>2, ExtendedLines
<1> QED
  BY <1>3 DEF Readable

LEMMA TearKeepsLoss ==
    ASSUME LossInv, RecordTorn
    PROVE  OpenLineIsTorn' /\ TearsCover'
<1>1. Torn \in Nat /\ lines' = Extended(Torn) /\ open' = TRUE /\ tears' = tears + 1
      /\ UNCHANGED appended
  BY DEF RecordTorn, AppendTorn, Torn
<1>2. OpenLineIsTorn'
  <2>1. CASE open
    <3>1. lines \in Seq(Seq(Nat)) /\ lines # <<>>
      BY <2>1 DEF LossInv, OpenLineIsTorn, TypeOK
    <3>2. Len(lines) \in 1..Len(lines) /\ lines[Len(lines)] \in Seq(Nat)
      BY <3>1, EmptySeq, LenProperties
    <3>3. lines[Len(lines)] # <<>> /\ lines[Len(lines)][1] = Torn
      BY <2>1 DEF LossInv, OpenLineIsTorn
    <3>4. PICK line \in Seq(Nat) : line = lines[Len(lines)]
      BY <3>2
    <3>5. Len(line) \in Nat /\ Len(line) # 0
      BY <3>3, <3>4, EmptySeq
    <3>6. Append(line, Torn) # <<>> /\ Append(line, Torn)[1] = Torn
      <4>1. /\ Len(Append(line, Torn)) = Len(line) + 1
            /\ \A i \in 1..Len(line) : Append(line, Torn)[i] = line[i]
        BY <1>1, <3>4, AppendProperties
      <4>2. 1 \in 1..Len(line)
        BY <3>5
      <4> QED
        BY <3>3, <3>4, <3>5, <4>1, <4>2
    <3>7. lines'[Len(lines')] = Append(line, Torn) /\ lines' # <<>>
      BY <1>1, <2>1, <3>4, ExtendedLines
    <3> QED
      BY <3>6, <3>7 DEF OpenLineIsTorn
  <2>2. CASE ~open
    <3>1. lines'[Len(lines')] = <<Torn>> /\ lines' # <<>>
      BY <1>1, <2>2, ExtendedLines
    <3> QED
      BY <3>1 DEF OpenLineIsTorn
  <2> QED
    BY <2>1, <2>2
<1>3. Unreadable' \in SUBSET Unreadable
  <2> SUFFICES ASSUME NEW n \in 1..appended, Readable(n)
               PROVE  Readable(n)'
    BY <1>1 DEF Unreadable
  <2>1. n \in Nat /\ n # Torn
    BY DEF LossInv, TypeOK, Torn
  <2> QED
    BY <1>1, <2>1, ReadableStays
<1>4. Cardinality(Unreadable') <= Cardinality(Unreadable)
      /\ IsFiniteSet(Unreadable') /\ Cardinality(Unreadable') \in Nat
  BY <1>3, UnreadableIsFinite, FS_Subset, FS_CardinalityType DEF LossInv
<1>5. Cardinality(Unreadable) <= tears
  BY UnreadableIsFinite DEF LossInv, TearsCover, TypeOK
<1>6. tears \in Nat /\ Cardinality(Unreadable) \in Nat
  BY UnreadableIsFinite DEF LossInv, TypeOK
<1>7. TearsCover'
  BY <1>1, <1>4, <1>5, <1>6 DEF TearsCover
<1> QED
  BY <1>2, <1>7

(* A record written to a new line is readable; on an open line it is lost, *)
(* and pays off the tear that left the line open.                          *)
LEMMA RecordKeepsLoss ==
    ASSUME LossInv, AppendRecord
    PROVE  OpenLineIsTorn' /\ TearsCover'
<1>1. appended \in Nat /\ tears \in Nat /\ Cardinality(Unreadable) \in Nat
      /\ IsFiniteSet(Unreadable)
  BY UnreadableIsFinite DEF LossInv, TypeOK
<1>2. appended' = appended + 1 /\ lines' = Extended(appended + 1) /\ ~open' /\ tears' = tears
  BY DEF AppendRecord
<1>3. \A n \in 1..appended : Readable(n) => Readable(n)'
  <2> SUFFICES ASSUME NEW n \in 1..appended, Readable(n)
               PROVE  Readable(n)'
    OBVIOUS
  <2>1. n \in Nat /\ n # Torn /\ appended + 1 \in Nat
    BY <1>1 DEF Torn
  <2> QED
    BY <1>2, <2>1, ReadableStays
<1>4. Unreadable' \in SUBSET (Unreadable \union {appended + 1})
  <2> SUFFICES ASSUME NEW n \in 1..(appended + 1), ~Readable(n)'
               PROVE  n \in Unreadable \union {appended + 1}
    BY <1>2 DEF Unreadable
  <2>1. n \in 1..appended \/ n = appended + 1
    BY <1>1
  <2> QED
    BY <1>3, <2>1 DEF Unreadable
<1>5. CASE open
  <2>1. IsFiniteSet(Unreadable \union {appended + 1})
        /\ Cardinality(Unreadable \union {appended + 1}) <= Cardinality(Unreadable) + 1
    BY <1>1, FS_AddElement
  <2>2. Cardinality(Unreadable') <= Cardinality(Unreadable \union {appended + 1})
        /\ Cardinality(Unreadable') \in Nat
        /\ Cardinality(Unreadable \union {appended + 1}) \in Nat
    BY <1>4, <2>1, FS_Subset, FS_CardinalityType
  <2>3. Cardinality(Unreadable) + 1 <= tears
    BY <1>5 DEF LossInv, TearsCover
  <2>4. Cardinality(Unreadable') <= tears
    BY <1>1, <2>1, <2>2, <2>3
  <2> QED
    BY <1>2, <2>2, <2>4 DEF OpenLineIsTorn, TearsCover
<1>6. CASE ~open
  <2>1. Readable(appended)'
    <3>1. appended + 1 \in Nat
      BY <1>1
    <3>2. lines' # <<>> /\ lines'[Len(lines')] = <<appended'>> /\ lines' \in Seq(Seq(Nat))
      BY <1>2, <1>6, <3>1, ExtendedLines, ExtendedType DEF LossInv
    <3>3. Len(lines') \in DOMAIN lines'
      BY <3>2, EmptySeq, LenProperties
    <3> QED
      BY <3>2, <3>3 DEF Readable
  <2>2. Unreadable' \in SUBSET Unreadable
    BY <1>2, <1>4, <2>1 DEF Unreadable
  <2>3. Cardinality(Unreadable') <= Cardinality(Unreadable) /\ Cardinality(Unreadable') \in Nat
    BY <1>1, <2>2, FS_Subset, FS_CardinalityType
  <2>4. Cardinality(Unreadable) <= tears
    BY <1>1, <1>6 DEF LossInv, TearsCover
  <2> QED
    BY <1>1, <1>2, <2>3, <2>4 DEF OpenLineIsTorn, TearsCover
<1> QED
  BY <1>5, <1>6

LEMMA LossStep ==
    ASSUME LossInv, [Next]_vars
    PROVE  LossInv'
<1>1. TypeOK'
  BY TypeStep DEF LossInv
<1>2. CASE RecordTorn
  BY <1>1, <1>2, TearKeepsLoss DEF LossInv
<1>3. CASE AppendRecord
  BY <1>1, <1>3, RecordKeepsLoss DEF LossInv
<1>4. CASE UNCHANGED file
  BY <1>1, <1>4 DEF LossInv, file, OpenLineIsTorn, TearsCover, Unreadable, Readable
<1>5. CASE CallerStep
  BY <1>2, <1>3, <1>4, <1>5 DEF CallerStep, Intend, RecordAttempt, Record
<1>6. CASE ProviderStep
  BY <1>4, <1>6 DEF ProviderStep, Call, ForeignChange
<1>7. CASE UNCHANGED vars
  BY <1>4, <1>7 DEF vars, file
<1> QED
  BY <1>5, <1>6, <1>7 DEF Next

(* However many appends end early, each makes at most one record           *)
(* unreadable: the one that the next append writes behind its torn piece.  *)
THEOREM LossesAreBounded == Spec => []LossIsBounded
<1>1. ASSUME Init
      PROVE  LossInv
  <2>1. TypeOK
    BY <1>1, TypeInit
  <2>2. Unreadable = {}
    BY <1>1 DEF Init, Unreadable
  <2>3. OpenLineIsTorn
    BY <1>1 DEF Init, OpenLineIsTorn
  <2>4. TearsCover
    BY <1>1, <2>2, FS_EmptySet DEF Init, TearsCover
  <2> QED
    BY <2>1, <2>3, <2>4 DEF LossInv
<1>2. ASSUME LossInv
      PROVE  LossIsBounded
  <2>1. Cardinality(Unreadable) \in Nat /\ tears \in Nat
    BY <1>2, UnreadableIsFinite DEF LossInv, TypeOK
  <2>2. Cardinality(Unreadable) <= tears
    BY <1>2, <2>1 DEF LossInv, TearsCover
  <2> QED
    BY <2>2 DEF LossIsBounded, Unreadable
<1> QED
  BY <1>1, <1>2, LossStep, PTL DEF Spec

-----------------------------------------------------------------------------
(* What the call did. *)

(* What the call did, as it shows in the message while no other client     *)
(* changes it: nothing, what was asked for, or neither.                    *)
EffectShows ==
    attempt # None /\ ~touched =>
        /\ effect = "none" => Observed(mailbox) = attempt.before
        /\ effect = "full" /\ Sensible(attempt) =>
              SameObservableState(Observed(mailbox), attempt.requested)
        /\ effect = "partial" /\ Sensible(attempt) =>
              Snapshot(Observed(mailbox)) \notin
                  {Snapshot(attempt.before), Snapshot(attempt.requested)}

(* States that cannot be told apart have the same snapshot. *)
LEMMA SameSnapshot ==
    ASSUME NEW left \in ProviderStates, NEW right \in ProviderStates,
           SameObservableState(left, right)
    PROVE  Snapshot(left) = Snapshot(right)
BY DEF SameObservableState, Snapshot

(* A sensible attempt is an intent whose states can be told apart. *)
LEMMA SensibleChanges ==
    ASSUME TypeOK, attempt # None, Sensible(attempt)
    PROVE  /\ attempt.before \in ProviderStates /\ attempt.requested \in ProviderStates
           /\ Snapshot(attempt.requested) # Snapshot(attempt.before)
<1>1. attempt \in Intents
  BY DEF TypeOK
<1>2. attempt.before \in ProviderStates /\ attempt.requested \in ProviderStates
  BY <1>1 DEF Intents
<1>3. RequestedTransition(attempt.action, attempt.target,
                          Snapshot(attempt.before), Snapshot(attempt.requested))
  BY DEF Sensible
<1> QED
  BY <1>1, <1>2, <1>3, SnapshotType, TransitionsChange DEF Intents

(* The provider does what a sensible attempt asks for: to the labels, *)
LEMMA LabelsAreCarried ==
    ASSUME TypeOK, attempt # None, Sensible(attempt), Observed(mailbox) = attempt.before,
           attempt.action \in LabelActions, NEW m \in Carried(attempt)
    PROVE  SameObservableState(Observed(m), attempt.requested)
<1>1. attempt \in Intents /\ mailbox \in Mailboxes
  BY DEF TypeOK
<1>2. attempt.requested \in ProviderStates /\ attempt.before \in ProviderStates
  BY <1>1 DEF Intents
<1>3. LabelTransition(attempt.action, attempt.target,
                      Snapshot(attempt.before), Snapshot(attempt.requested))
  BY DEF Sensible, RequestedTransition, PlacementTransition, LabelActions
<1>4. attempt.requested.labels \intersect Marks = attempt.before.labels \intersect Marks
  BY DEF Sensible
<1>5. attempt.before.labels = mailbox.labels
  BY <1>1 DEF Observed
<1>6. /\ attempt.before.inbox = IF "inbox" \in exposed THEN mailbox.inbox ELSE "unknown"
      /\ attempt.before.trash = IF "trash" \in exposed THEN mailbox.trash ELSE "unknown"
  BY <1>1 DEF Observed
<1>7. CASE attempt.action = "add_label"
  <2>1. m = [mailbox EXCEPT !.labels = @ \union {attempt.target}]
    BY <1>7 DEF Carried
  <2>2. /\ attempt.target \notin Snapshot(attempt.before).labels
        /\ Snapshot(attempt.requested) =
              [Snapshot(attempt.before) EXCEPT !.labels = @ \union {attempt.target}]
    BY <1>3, <1>7 DEF LabelTransition
  <2>3. attempt.target \in Snapshot(attempt.requested).labels
    BY <2>2 DEF Snapshot
  <2>4. /\ attempt.requested.labels = attempt.before.labels \union {attempt.target}
        /\ attempt.requested.inbox = attempt.before.inbox
        /\ attempt.requested.trash = attempt.before.trash
    BY <1>4, <2>2, <2>3 DEF Snapshot
  <2>5. /\ m.labels = mailbox.labels \union {attempt.target}
        /\ m.inbox = mailbox.inbox /\ m.trash = mailbox.trash
    BY <1>1, <2>1 DEF Mailboxes
  <2> QED
    BY <1>5, <1>6, <2>4, <2>5 DEF SameObservableState, Observed
<1>8. CASE attempt.action = "remove_label"
  <2>1. m = [mailbox EXCEPT !.labels = @ \ {attempt.target}]
    BY <1>8 DEF Carried
  <2>2. /\ attempt.target \in Snapshot(attempt.before).labels
        /\ Snapshot(attempt.requested) =
              [Snapshot(attempt.before) EXCEPT !.labels = @ \ {attempt.target}]
    BY <1>3, <1>8 DEF LabelTransition
  <2>3. attempt.target \notin Marks
    BY <2>2 DEF Snapshot
  <2>4. /\ attempt.requested.labels = attempt.before.labels \ {attempt.target}
        /\ attempt.requested.inbox = attempt.before.inbox
        /\ attempt.requested.trash = attempt.before.trash
    BY <1>4, <2>2, <2>3 DEF Snapshot
  <2>5. /\ m.labels = mailbox.labels \ {attempt.target}
        /\ m.inbox = mailbox.inbox /\ m.trash = mailbox.trash
    BY <1>1, <2>1 DEF Mailboxes
  <2> QED
    BY <1>5, <1>6, <2>4, <2>5 DEF SameObservableState, Observed
<1> QED
  BY <1>7, <1>8 DEF LabelActions

(* and to the place of the message. *)
LEMMA PlaceIsCarried ==
    ASSUME TypeOK, attempt # None, Sensible(attempt), Observed(mailbox) = attempt.before,
           attempt.action \notin LabelActions, NEW m \in Carried(attempt)
    PROVE  SameObservableState(Observed(m), attempt.requested)
<1>1. attempt \in Intents /\ mailbox \in Mailboxes
  BY DEF TypeOK
<1>2. attempt.requested \in ProviderStates /\ attempt.before \in ProviderStates
  BY <1>1 DEF Intents
<1>3. PlacementTransition(attempt.action, Snapshot(attempt.before), Snapshot(attempt.requested))
  BY DEF Sensible, RequestedTransition, LabelTransition, LabelActions
<1>4. attempt.requested.labels \intersect Marks = attempt.before.labels \intersect Marks
  BY DEF Sensible
<1>5. \A p \in {"inbox", "trash"} : attempt.requested[p] = "unknown" <=> p \notin exposed
  BY DEF Sensible
<1>6. attempt.before.labels = mailbox.labels
  BY <1>1 DEF Observed
<1>7. /\ attempt.before.inbox = IF "inbox" \in exposed THEN mailbox.inbox ELSE "unknown"
      /\ attempt.before.trash = IF "trash" \in exposed THEN mailbox.trash ELSE "unknown"
  BY <1>1 DEF Observed
<1>8. /\ mailbox.inbox \in {"in", "out"} /\ mailbox.trash \in {"in", "out"}
      /\ ~ (mailbox.inbox = "in" /\ mailbox.trash = "in")
  BY <1>1 DEF Mailboxes, Coherent
<1>9. ~ (attempt.requested.inbox = "in" /\ attempt.requested.trash = "in")
  BY <1>2 DEF ProviderStates, Coherent
<1>10. attempt.requested.labels = attempt.before.labels
  <2>1. Snapshot(attempt.requested).labels = Snapshot(attempt.before).labels
    BY <1>3 DEF PlacementTransition, Snapshot
  <2> QED
    BY <1>4, <2>1 DEF Snapshot
<1>11. m \in Mailboxes /\ m.labels = mailbox.labels
  BY <1>1, <1>3 DEF Carried, Mailboxes, PlacementTransition
<1>12. /\ attempt.requested.inbox = IF "inbox" \in exposed THEN m.inbox ELSE "unknown"
       /\ attempt.requested.trash = IF "trash" \in exposed THEN m.trash ELSE "unknown"
  <2>1. CASE attempt.action = "archive"
    <3>1. m.inbox = "out" /\ m.trash = mailbox.trash
      BY <1>1, <2>1 DEF Carried, Mailboxes
    <3>2. /\ attempt.before.inbox = "in" /\ attempt.requested.inbox = "out"
          /\ attempt.requested.trash = attempt.before.trash
      BY <1>3, <2>1 DEF PlacementTransition, Snapshot
    <3> QED
      BY <1>7, <3>1, <3>2
  <2>2. CASE attempt.action = "restore_to_inbox"
    <3>1. m.inbox = "in" /\ m.trash = "out"
      BY <1>1, <2>2 DEF Carried, Mailboxes
    <3>2. /\ attempt.before.inbox = "out" /\ attempt.requested.inbox = "in"
          /\ attempt.requested.trash = attempt.before.trash
      BY <1>3, <2>2 DEF PlacementTransition, Snapshot
    <3> QED
      BY <1>7, <1>8, <1>9, <3>1, <3>2
  <2>3. CASE attempt.action = "move_to_trash"
    <3>1. m.inbox = "out" /\ m.trash = "in"
      BY <1>1, <2>3 DEF Carried, Mailboxes
    <3>2. attempt.requested.inbox = "out" /\ attempt.requested.trash = "in"
      BY <1>3, <2>3 DEF PlacementTransition, Snapshot
    <3> QED
      BY <1>5, <3>1, <3>2
  <2>4. CASE attempt.action = "restore_from_trash"
    <3>1. /\ m.inbox = attempt.requested.inbox \/ attempt.requested.inbox = "unknown"
          /\ m.trash = "out"
      BY <1>1, <2>4 DEF Carried, Mailboxes
    <3>2. attempt.requested.trash = "out"
      BY <1>3, <2>4 DEF PlacementTransition, Snapshot
    <3>3. m.inbox \in {"in", "out"}
      BY <1>11 DEF Mailboxes
    <3> QED
      BY <1>5, <3>1, <3>2, <3>3
  <2> QED
    BY <1>3, <2>1, <2>2, <2>3, <2>4 DEF PlacementTransition
<1> QED
  BY <1>6, <1>10, <1>11, <1>12 DEF SameObservableState, Observed

(* A move that stops half way leads to neither state. *)
LEMMA HalfWayIsNeither ==
    ASSUME TypeOK, attempt # None, Sensible(attempt), Observed(mailbox) = attempt.before,
           NEW m \in CarriedPartly(attempt)
    PROVE  Snapshot(Observed(m)) \notin {Snapshot(attempt.before), Snapshot(attempt.requested)}
<1>1. attempt \in Intents /\ mailbox \in Mailboxes /\ m \in Mailboxes /\ m # mailbox
  BY DEF TypeOK, CarriedPartly
<1>2. PlacementTransition(attempt.action, Snapshot(attempt.before), Snapshot(attempt.requested))
  BY DEF CarriedPartly, Sensible, RequestedTransition, LabelTransition
<1>3. \A p \in {"inbox", "trash"} : attempt.requested[p] = "unknown" <=> p \notin exposed
  BY DEF Sensible
<1>4. /\ attempt.before.inbox = IF "inbox" \in exposed THEN mailbox.inbox ELSE "unknown"
      /\ attempt.before.trash = IF "trash" \in exposed THEN mailbox.trash ELSE "unknown"
  BY <1>1 DEF Observed
<1>5. /\ mailbox.inbox \in {"in", "out"} /\ mailbox.trash \in {"in", "out"}
      /\ ~ (mailbox.inbox = "in" /\ mailbox.trash = "in")
  BY <1>1 DEF Mailboxes, Coherent
<1>6. /\ Snapshot(Observed(m)).inbox = IF "inbox" \in exposed THEN m.inbox ELSE "unknown"
      /\ Snapshot(Observed(m)).trash = IF "trash" \in exposed THEN m.trash ELSE "unknown"
  BY DEF Snapshot, Observed
<1>7. CASE attempt.action = "move_to_trash"
  <2>1. attempt.requested.inbox = "out" /\ attempt.requested.trash = "in"
        /\ attempt.before.trash = "out"
    BY <1>2, <1>7 DEF PlacementTransition, Snapshot
  <2>2. "inbox" \in exposed /\ "trash" \in exposed
    BY <1>3, <2>1
  <2>3. m = [mailbox EXCEPT !.inbox = "out"]
    BY <1>7 DEF CarriedPartly
  <2>4. m.inbox = "out" /\ m.trash = mailbox.trash /\ mailbox.inbox = "in"
    BY <1>1, <1>5, <2>3 DEF Mailboxes
  <2> QED
    BY <1>4, <1>6, <2>1, <2>2, <2>4 DEF Snapshot
<1>8. CASE attempt.action = "restore_from_trash"
  <2>1. attempt.requested.inbox = "in" /\ attempt.requested.trash = "out"
        /\ attempt.before.trash = "in"
    BY <1>2, <1>8 DEF PlacementTransition, Snapshot, CarriedPartly
  <2>2. "inbox" \in exposed /\ "trash" \in exposed
    BY <1>3, <2>1
  <2>3. m = [mailbox EXCEPT !.trash = "out"]
    BY <1>8 DEF CarriedPartly
  <2>4. m.inbox = mailbox.inbox /\ m.trash = "out" /\ mailbox.inbox = "out"
    BY <1>1, <1>4, <1>5, <2>1, <2>2, <2>3 DEF Mailboxes
  <2> QED
    BY <1>4, <1>6, <2>1, <2>2, <2>4 DEF Snapshot
<1> QED
  BY <1>7, <1>8 DEF CarriedPartly

LEMMA EffectStep ==
    ASSUME TypeOK, EffectShows, [Next]_vars
    PROVE  EffectShows'
<1>1. ASSUME NEW action \in Actions, NEW target \in Labels \union {None},
             NEW requested \in ProviderStates, Intend(action, target, requested)
      PROVE  EffectShows'
  <2>1. /\ effect' = "none" /\ attempt'.before = Observed(mailbox)
        /\ mailbox' = mailbox /\ exposed' = exposed
    BY <1>1 DEF Intend, message
  <2> QED
    BY <2>1 DEF EffectShows, Observed
<1>2. CASE attempt' = None
  BY <1>2 DEF EffectShows
<1>3. CASE UNCHANGED <<message, journal>>
  BY <1>3 DEF EffectShows, message, journal, Observed, Sensible
<1>4. ASSUME NEW m \in Mailboxes, NEW extent \in {"full", "partial"}, Call(m, extent)
      PROVE  EffectShows'
  <2>1. /\ attempt # None /\ effect = "none" /\ effect' = extent /\ mailbox' = m
        /\ exposed' = exposed /\ attempt' = attempt /\ touched' = touched
        /\ m \in IF extent = "full" THEN Carried(attempt) ELSE CarriedPartly(attempt)
    BY <1>4 DEF Call
  <2>2. Observed(mailbox)' = Observed(m) /\ Sensible(attempt)' = Sensible(attempt)
    BY <2>1 DEF Observed, Sensible
  <2> SUFFICES ASSUME ~touched, Sensible(attempt)
               PROVE  EffectShows'
    BY <2>1, <2>2 DEF EffectShows
  <2>3. Observed(mailbox) = attempt.before
    BY <2>1 DEF EffectShows
  <2>4. CASE extent = "full"
    <3>1. SameObservableState(Observed(m), attempt.requested)
      BY <2>1, <2>3, <2>4, LabelsAreCarried, PlaceIsCarried
    <3> QED
      BY <2>1, <2>2, <2>4, <3>1 DEF EffectShows
  <2>5. CASE extent = "partial"
    <3>1. Snapshot(Observed(m)) \notin {Snapshot(attempt.before), Snapshot(attempt.requested)}
      BY <2>1, <2>3, <2>5, HalfWayIsNeither
    <3> QED
      BY <2>1, <2>2, <2>5, <3>1 DEF EffectShows
  <2> QED
    BY <2>4, <2>5
<1>5. ASSUME NEW m \in Mailboxes, ForeignChange(m)
      PROVE  EffectShows'
  BY <1>5 DEF ForeignChange, EffectShows
<1>6. CASE CallerStep
  BY <1>1, <1>2, <1>3, <1>6 DEF CallerStep, RecordAttempt, Record, RecordTorn
<1>7. CASE ProviderStep
  BY <1>4, <1>5, <1>7 DEF ProviderStep
<1>8. CASE UNCHANGED vars
  BY <1>3, <1>8 DEF vars, message, journal
<1> QED
  BY <1>6, <1>7, <1>8 DEF Next

LEMMA EffectAlwaysShows == Spec => []EffectShows
<1>1. Init => EffectShows
  BY DEF Init, EffectShows
<1> QED
  BY <1>1, EffectStep, ChangeLogTypeCorrect, PTL DEF Spec

(* As long as no other client touches the message, reconciling a sensible  *)
(* attempt with fresh provider state tells how far the call went.          *)
THEOREM VerdictsAreTrue == Spec => []VerdictIsTrue
<1>1. ASSUME TypeOK, EffectShows
      PROVE  VerdictIsTrue
  <2> SUFFICES ASSUME attempt # None, ~touched, Sensible(attempt)
               PROVE  Reconcile(attempt, Observed(mailbox)) =
                         CASE effect = "none"    -> "previous_state_observed"
                           [] effect = "full"    -> "requested_state_observed"
                           [] effect = "partial" -> "divergent_state_observed"
    BY DEF VerdictIsTrue
  <2>1. Observed(mailbox) \in ProviderStates
    BY <1>1, ObservedType DEF TypeOK
  <2>2. /\ attempt.before \in ProviderStates /\ attempt.requested \in ProviderStates
        /\ Snapshot(attempt.requested) # Snapshot(attempt.before)
    BY <1>1, SensibleChanges
  <2>3. effect \in {"none", "full", "partial"}
    BY <1>1 DEF TypeOK
  <2>4. CASE effect = "none"
    <3>1. SameObservableState(Observed(mailbox), attempt.before)
      BY <1>1, <2>4 DEF EffectShows, SameObservableState
    <3> QED
      BY <2>4, <3>1 DEF Reconcile
  <2>5. CASE effect = "full"
    <3>1. SameObservableState(Observed(mailbox), attempt.requested)
      BY <1>1, <2>5 DEF EffectShows
    <3>2. ~SameObservableState(Observed(mailbox), attempt.before)
      BY <2>1, <2>2, <3>1, SameSnapshot
    <3> QED
      BY <2>5, <3>1, <3>2 DEF Reconcile
  <2>6. CASE effect = "partial"
    <3>1. /\ ~SameObservableState(Observed(mailbox), attempt.before)
          /\ ~SameObservableState(Observed(mailbox), attempt.requested)
      BY <1>1, <2>1, <2>2, <2>6, SameSnapshot DEF EffectShows
    <3> QED
      BY <2>6, <3>1 DEF Reconcile
  <2> QED
    BY <2>3, <2>4, <2>5, <2>6
<1> QED
  BY <1>1, EffectAlwaysShows, ChangeLogTypeCorrect, PTL

(* A record of a sensible attempt that states the resulting state has the  *)
(* result that the provider produced.                                      *)
THEOREM RecordsAreTruthful == Spec => RecordsTellTheOutcome
<1> DEFINE Outcome == CASE effect = "none"    -> {"failed", "denied"}
                        [] effect = "full"    -> {"succeeded"}
                        [] effect = "partial" -> {"partial_failure"}
           Truthful == appended' # appended /\ ~touched /\ Sensible(attempt)
                       /\ last'.resulting # None => last'.result \in Outcome
<1>1. ASSUME TypeOK, EffectShows, [Next]_vars
      PROVE  Truthful
  <2> SUFFICES ASSUME appended' # appended, ~touched, Sensible(attempt),
                      last'.resulting # None
               PROVE  last'.result \in Outcome
    OBVIOUS
  <2>1. ~ProviderStep /\ ~RecordTorn /\ ~UNCHANGED vars
    BY DEF ProviderStep, Call, ForeignChange, RecordTorn, AppendTorn, vars, file
  <2>2. \A action, target, requested : ~Intend(action, target, requested)
    BY DEF Intend, file
  <2>3. PICK result \in Statuses, gates \in {{"passed"}, {"passed", "blocked"}},
             mode \in Modes, proposal \in Labels \union {None},
             resulting \in {None, Snapshot(Observed(mailbox))},
             rollback \in {None} \union PlausibleRollbacks :
                RecordAttempt(result, resulting, gates, mode, proposal, rollback)
    BY <1>1, <2>1, <2>2 DEF Next, CallerStep
  <2>4. /\ attempt # None
        /\ last' = Described(result, resulting, gates, mode, proposal, rollback)
        /\ ValidRecord(last')
    BY <2>3 DEF RecordAttempt, Record
  <2>5. last'.result = result /\ last'.resulting = resulting
    BY <2>4 DEF Described
  <2>6. resulting = Snapshot(Observed(mailbox)) /\ resulting # None
    BY <2>3, <2>5
  <2>7. ResultFits(result, Snapshot(attempt.before), Snapshot(attempt.requested), resulting)
    BY <2>4 DEF Described, ValidRecord
  <2>8. Snapshot(attempt.requested) # Snapshot(attempt.before)
    BY <1>1, <2>4, SensibleChanges
  <2>9. effect \in {"none", "full", "partial"}
    BY <1>1 DEF TypeOK
  <2>10. CASE effect = "none"
    <3>1. resulting = Snapshot(attempt.before)
      BY <1>1, <2>4, <2>6, <2>10 DEF EffectShows
    <3>2. result \in {"failed", "denied"}
      BY <2>7, <2>8, <3>1 DEF ResultFits, Statuses
    <3> QED
      BY <2>5, <2>10, <3>2
  <2>11. CASE effect = "full"
    <3>1. resulting = Snapshot(attempt.requested)
      <4>1. SameObservableState(Observed(mailbox), attempt.requested)
        BY <1>1, <2>4, <2>11 DEF EffectShows
      <4> QED
        BY <2>6, <4>1 DEF SameObservableState, Snapshot
    <3>2. result = "succeeded"
      BY <2>6, <2>7, <2>8, <3>1 DEF ResultFits, Statuses
    <3> QED
      BY <2>5, <2>11, <3>2
  <2>12. CASE effect = "partial"
    <3>1. resulting \notin {Snapshot(attempt.before), Snapshot(attempt.requested)}
      BY <1>1, <2>4, <2>6, <2>12 DEF EffectShows
    <3>2. result = "partial_failure"
      BY <2>6, <2>7, <3>1 DEF ResultFits, Statuses
    <3> QED
      BY <2>5, <2>12, <3>2
  <2> QED
    BY <2>9, <2>10, <2>11, <2>12
<1> QED
  BY <1>1, EffectAlwaysShows, ChangeLogTypeCorrect, PTL DEF Spec, RecordsTellTheOutcome
=============================================================================
