-------------------------- MODULE MutationJournal --------------------------
(***************************************************************************)
(* The crash-aware mutation journal (mutation_journal.py): processes that  *)
(* call append_intent and append_finalization on one journal path.  Each   *)
(* call loads the file, checks, and then appends with a sequence of system *)
(* calls; nothing locks the file between them.  A call may end early (an   *)
(* OSError, or the process dies), and the machine may lose power, which    *)
(* keeps what was fsynced and an arbitrary prefix of what was not.         *)
(***************************************************************************)
EXTENDS JournalFile, FiniteSets

CONSTANTS
    Writers,       \* the processes that use the journal
    InitialPath,   \* the directory entries that exist, durably, at the start
    NoEvent        \* not an event: a writer that is not in a call

Entries == {"directory", "file"}

ASSUME MutationJournalAssumption ==
    /\ InitialPath \in {{}, {"directory"}, Entries}
    /\ NoEvent \notin Events
    /\ IsFiniteSet(Writers)

VARIABLES
    visible,       \* directory entries the running system sees
    durable,       \* directory entries that survive a power loss
    file,          \* the chunks of the journal file, as the system sees them
    synced,        \* how many of them survive a power loss
    step,          \* per writer: the next system call of its append, or "idle"
    event,         \* per writer: the event it appends
    fresh,         \* per writer: not existed or parent_created
    acknowledged   \* history: the events whose append returned

disk == <<visible, durable, file, synced>>
calls == <<step, event, fresh>>
vars == <<visible, durable, file, synced, step, event, fresh, acknowledged>>

Steps == {"idle", "directory", "mkdir", "open", "write", "rest", "fsync", "fsync directory"}

TypeOK ==
    /\ durable \subseteq visible /\ visible \subseteq Entries
    /\ file \in Seq(Chunks)
    /\ synced \in 0..Len(file)
    /\ step \in [Writers -> Steps]
    /\ event \in [Writers -> Events \union {NoEvent}]
    /\ \A w \in Writers : event[w] = NoEvent <=> step[w] = "idle"
    /\ fresh \in [Writers -> BOOLEAN]
    /\ acknowledged \subseteq Events

Init ==
    /\ visible = InitialPath
    /\ durable = InitialPath
    /\ file = <<>>
    /\ synced = 0
    /\ step = [w \in Writers |-> "idle"]
    /\ event = [w \in Writers |-> NoEvent]
    /\ fresh = [w \in Writers |-> FALSE]
    /\ acknowledged = {}

-----------------------------------------------------------------------------

(* load, and the checks that precede the append. *)
BeginAppend(w, e) ==
    /\ step[w] = "idle"
    /\ MayAppend(file, e)
    /\ step' = [step EXCEPT ![w] = "directory"]
    /\ event' = [event EXCEPT ![w] = e]
    /\ UNCHANGED <<disk, fresh, acknowledged>>

(* _ensure_private_directory: path.exists(). *)
FindDirectory(w) ==
    /\ step[w] = "directory"
    /\ step' = [step EXCEPT ![w] = IF "directory" \in visible THEN "open" ELSE "mkdir"]
    /\ UNCHANGED <<disk, event, fresh, acknowledged>>

(* path.mkdir without exist_ok: a writer that finds the directory made in  *)
(* the meantime gets FileExistsError and can only abandon its call.        *)
MakeDirectory(w) ==
    /\ step[w] = "mkdir"
    /\ "directory" \notin visible
    /\ visible' = visible \union {"directory"}
    /\ fresh' = [fresh EXCEPT ![w] = TRUE]
    /\ step' = [step EXCEPT ![w] = "open"]
    /\ UNCHANGED <<durable, file, synced, event, acknowledged>>

(* Mutant of OpenFile: the file is opened with O_TRUNC for O_APPEND. *)
OpenFileTruncated(w) ==
    /\ step[w] = "open"
    /\ visible' = visible \union {"file"}
    /\ file' = <<>>
    /\ step' = [step EXCEPT ![w] = "write"]
    /\ UNCHANGED <<durable, synced, event, fresh, acknowledged>>

(* existed = path.exists(), then os.open with O_CREAT and O_APPEND. *)
OpenFile(w) ==
    /\ step[w] = "open"
    /\ fresh' = [fresh EXCEPT ![w] = @ \/ "file" \notin visible]
    /\ visible' = visible \union {"file"}
    /\ step' = [step EXCEPT ![w] = "write"]
    /\ UNCHANGED <<durable, file, synced, event, acknowledged>>

(* One os.write that takes the part p of the event, and what remains. *)
Write(w, p, next) ==
    /\ file' = Append(file, [part |-> p, event |-> event[w]])
    /\ step' = [step EXCEPT ![w] = next]
    /\ UNCHANGED <<visible, durable, synced, event, fresh, acknowledged>>

WriteWhole(w) == step[w] = "write" /\ Write(w, "whole", "fsync")

WriteSome(w) ==
    step[w] = "write" /\ \E p \in PrefixesOf(event[w]) : Write(w, p, "rest")

WriteRest(w) == step[w] = "rest" /\ Write(w, "tail", "fsync")

EndCall(w) ==
    /\ step' = [step EXCEPT ![w] = "idle"]
    /\ event' = [event EXCEPT ![w] = NoEvent]
    /\ fresh' = [fresh EXCEPT ![w] = FALSE]

Acknowledge(w) == EndCall(w) /\ acknowledged' = acknowledged \union {event[w]}

(* Mutant of SyncFile: the append returns without the fsync. *)
ReturnUnsynced(w) ==
    /\ step[w] = "fsync"
    /\ Acknowledge(w)
    /\ UNCHANGED <<visible, durable, file, synced>>

(* os.fsync(fd); the call returns here unless the path is new. *)
SyncFile(w) ==
    /\ step[w] = "fsync"
    /\ synced' = Len(file)
    /\ \/ fresh[w] /\ step' = [step EXCEPT ![w] = "fsync directory"]
                   /\ UNCHANGED <<event, fresh, acknowledged>>
       \/ ~ fresh[w] /\ Acknowledge(w)
    /\ UNCHANGED <<visible, durable, file>>

(* _fsync_directory(path.parent): the file's entry, not the directory's own. *)
SyncDirectory(w) ==
    /\ step[w] = "fsync directory"
    /\ durable' = durable \union (visible \intersect {"file"})
    /\ Acknowledge(w)
    /\ UNCHANGED <<visible, file, synced>>

(* A system call raises, or the process dies, at any point of the call. *)
Abandon(w) ==
    /\ step[w] # "idle"
    /\ EndCall(w)
    /\ UNCHANGED <<disk, acknowledged>>

(* What may be left of the file when its first n chunks reached the disk:  *)
(* the last one complete or, if it was not yet synced, torn.               *)
Survivors(n) ==
    {SubSeq(file, 1, n)} \union
    (IF n > synced /\ file[n].part # "tail"
     THEN {[SubSeq(file, 1, n) EXCEPT ![n].part = p] : p \in PrefixesOf(file[n].event)}
     ELSE {})

PowerLoss ==
    /\ \E kept \in SUBSET visible :
        /\ durable \subseteq kept
        /\ visible' = IF "directory" \in kept THEN kept ELSE {}
    /\ durable' = visible'
    /\ IF "file" \in visible'
       THEN \E n \in synced..Len(file) : file' \in Survivors(n)
       ELSE file' = <<>>
    /\ synced' = Len(file')
    /\ step' = [w \in Writers |-> "idle"]
    /\ event' = [w \in Writers |-> NoEvent]
    /\ fresh' = [w \in Writers |-> FALSE]
    /\ UNCHANGED acknowledged

AppendStep(w) ==
    \/ FindDirectory(w)
    \/ MakeDirectory(w)
    \/ OpenFile(w)
    \/ WriteWhole(w)
    \/ WriteSome(w)
    \/ WriteRest(w)
    \/ SyncFile(w)
    \/ SyncDirectory(w)

Next ==
    \/ \E w \in Writers, e \in Events : BeginAppend(w, e)
    \/ \E w \in Writers : AppendStep(w)
    \/ \E w \in Writers : Abandon(w)
    \/ PowerLoss

Spec == Init /\ [][Next]_vars

-----------------------------------------------------------------------------
(* Safety with any number of writers. *)

(* No fault and no race puts a finalization record into the file before    *)
(* the complete record of its intent: append_finalization only appends     *)
(* after a load that saw the intent, and a power loss keeps a prefix.      *)
FinalizationAfterIntent ==
    \A i \in 1..Len(file) :
        file[i].event.type = "finalization" =>
            \E j \in 1..(i - 1) : RecordAt(file, j, Intent(file[i].event.attempt))

(* Why it holds: the intent that a finalization was checked against stays  *)
(* recorded until its append ends.                                         *)
FinalizationsBacked ==
    \A w \in Writers :
        step[w] # "idle" /\ event[w].type = "finalization" =>
            Recorded(file, Intent(event[w].attempt))

HistoryInv == FinalizationAfterIntent /\ FinalizationsBacked

(* Nothing locks the file between load and write, so processes may append  *)
(* one event twice; but a call that begins later sees the event and raises *)
(* (append_intent, append_finalization): each process adds at most one     *)
(* record of an event, and a single process never a second one.            *)
RecordedOncePerWriter ==
    \A e \in Events :
        Cardinality({i \in 1..Len(file) : RecordAt(file, i, e)}) <= Cardinality(Writers)

(* Safety with one writer.  With two, both can load before either appends:  *)
(* an event may be recorded twice or glued to a torn record, and load      *)
(* raises from then on.                                                    *)

(* load never raises on a file that the journal itself wrote: a crash can  *)
(* only leave trailing corruption.                                         *)
AlwaysLoads == Loads(file)

(* A torn record is the last one for ever: appends are refused while the   *)
(* final record is incomplete (append_intent, append_finalization), so no  *)
(* later record is ever glued to it.                                       *)
TornRecordIsLast ==
    \A i \in 1..Len(file) :
        file[i].part \in TornParts => i = Len(file) \/ Completes(file, i + 1)

(* Durability of _append_event_durably: an event whose append returned is  *)
(* still there, as a record that load decodes, after any later crash or    *)
(* power loss.                                                             *)
AcknowledgedSurvives ==
    \A e \in acknowledged :
        /\ durable = Entries
        /\ \E i \in 1..synced : RecordAt(file, i, e)

(* Why it holds on an established path: the entries stay durable, and the  *)
(* only writer knows what the last chunk is at every step of its call.     *)
CallInv ==
    \A w \in Writers :
        /\ step[w] \notin {"mkdir", "fsync directory"} /\ ~ fresh[w]
        /\ step[w] \in {"directory", "open", "write"} =>
               file = <<>> \/ EndsLine(file, Len(file))
        /\ step[w] = "rest" =>
               /\ file # <<>> /\ StartsLine(file, Len(file))
               /\ file[Len(file)].part \in TornParts /\ file[Len(file)].event = event[w]
        /\ step[w] = "fsync" => file # <<>> /\ RecordAt(file, Len(file), event[w])
        /\ step[w] \in {"directory", "open", "write", "rest"} => ~ Recorded(file, event[w])

DurableInv == durable = Entries /\ CallInv /\ AcknowledgedSurvives

(* An interrupted attempt is discovered after a crash: an attempt whose    *)
(* intent append returned, and for which no finalization was written, is   *)
(* among the interrupted attempts of the next load.                        *)
InterruptedAttempts(f) ==
    {a \in Attempts : Recorded(f, Intent(a)) /\ ~ Recorded(f, Finalization(a))}

InterruptedIsDiscovered ==
    \A a \in Attempts :
        /\ Intent(a) \in acknowledged
        /\ ~ \E i \in 1..Len(file) : file[i].event = Finalization(a) /\ EndsLine(file, i)
        => Loads(file) /\ a \in InterruptedAttempts(file)

(* What the journal promises to the workflow: see AttemptLedger.           *)
StatusOf(a) ==
    IF Recorded(file, Finalization(a)) THEN 2
    ELSE IF Recorded(file, Intent(a)) THEN 1 ELSE 0

PromiseOf(a) ==
    IF Finalization(a) \in acknowledged THEN 2
    ELSE IF Intent(a) \in acknowledged THEN 1 ELSE 0

Ledger == INSTANCE AttemptLedger WITH
    status <- [a \in Attempts |-> StatusOf(a)],
    promised <- [a \in Attempts |-> PromiseOf(a)]

(* With one writer and an established path, the journal file implements    *)
(* the ledger: load sees an attempt go from absent to open to finalized,   *)
(* and a fault takes back no step that an append has acknowledged.         *)
ImplementsLedger == Ledger!Spec
=============================================================================
