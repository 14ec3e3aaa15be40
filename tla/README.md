# semantic-mail-archivist: a TLA+ verification project

semantic-mail-archivist reads a mailbox through a provider adapter (Gmail),
finds messages whose semantic labels differ from those of their thread, and
reports what it would repair. It is read-only today; the pieces a future write
workflow will stand on (mutation journal, change log, authorization modes) are
in the code already. This directory models the parts of it in which order,
failure, concurrency or a chain of decisions matters. Source paths below are
relative to `src/src/semantic_mail_archivist/`.

## 1. Inventory

| Component | Source | State it keeps | Operations | Modelled in |
|---|---|---|---|---|
| Mutation journal | `mutation_journal.py` | a JSONL file of intents and finalizations | `load`, `append_intent`, `append_finalization`, `reconcile_interrupted_attempt` | `JournalFile`, `MutationJournal`; reconciliation in `ChangeRecord`, `ChangeLog` |
| Change log | `change_log.py` | a JSONL file of finalized audit records | record validation, `append_change_record_jsonl` | `ChangeRecord`, `ChangeLog` |
| Ingestion | `ingestion.py`, `provider.py` | seen ids and tokens, threads read so far | `ingest_provider_mailbox` | `Ingestion` |
| Gmail read adapter | `gmail_provider.py` | attachment cache of the messages listed | `list_*`, `get_message_state`, retrying `_get_json` | `GmailMailbox`, `RetryingTransport`, `ChangeLog` |
| Gmail authorization | `gmail_auth.py` | token file per mode, account-id key file | `authorize`, `reset`, `account_safe_id` | `Authorization` |
| Label repair | `model.py`, `adapters/gmail.py`, `detection.py`, `inference.py`, `reporting.py`, `repair_runtime.py` | none (pure) | gap detection, candidate inference, dry-run decision | `LabelRepair` |
| Mailbox audit | `audit.py`, `audit_runtime.py` | none (pure) | `build_mailbox_audit` | `Audit` |
| Document significance | `documents.py` | none (pure) | `assess_document_significance` | `Documents` |
| Protected domains | `protection.py` | none (pure) | `infer_protected_domains`, the destructive gate | `Protection` |
| Obsolescence | `obsolescence.py` | none (pure) | `assess_message_obsolescence` | `Obsolescence` |
| Operational state | `operational.py` | none (pure) | `assess_operational_state` | `Operational` |
| Command line | `cli.py`, `cli_config.py` | output file | `main`, dispatch, `_write_output`, config loading | `Command` |

How they interact. `cli.main` loads the configuration, builds an invocation and
dispatches it. The audit and repair commands authorize in read mode
(`GmailAuthManager.authorize`), build a `GmailReadAdapter`, run
`ingest_provider_mailbox` over it (many provider calls, each retried by
`_get_json`), and hand the resulting snapshots to pure functions; the rendered
report goes to standard output or replaces a private file. The journal and the
change log are not called by the CLI yet: `docs/mutation-journal.md` fixes the
order a write workflow must use (intent, provider call, change record,
finalization), and the tests exercise it with a synthetic provider.

What is hard:

* *crashes and power loss* in the journal, the change log, the token and the
  output file: each has its own sequence of write, fsync and rename calls;
* *two processes* on one journal, one token file or one account-id key: no file
  is locked anywhere;
* *a mailbox that changes* while ingestion pages through it with offset-like
  tokens, and a provider that answers inconsistently;
* *retry and failure*: `_get_json` retries some errors, the adapter maps others,
  and one failed call must not yield a mailbox that claims to be complete;
* *chains of decisions* where a cautious default must survive every later step
  (ambiguous repairs, protected messages, unknown obsolescence context), with
  confidence thresholds on floating-point sums.

What makes each component correct:

* journal: an acknowledged event is never lost, a crash never makes history
  unreadable, every interrupted attempt is discovered, history stays well formed;
* change log: a record that is accepted agrees with its gates, its result and
  its rollback data; an appended record stays readable;
* ingestion: no thread or message twice, `complete` only if everything the
  provider enumerates was read, a bound is always disclosed, termination;
* Gmail adapter: bounded retries, only retryable errors retried, a read adapter
  never holds write credentials;
* authorization: a token is used only in its own mode and scope, `reset` lasts,
  the account-safe id is stable;
* repair: nothing is recommended for automatic repair that conflicts, or that
  rests on volatile labels or on the owner's own address;
* audit: a protected or insufficiently covered message is never recommended for
  trash; missing metadata lowers coverage;
* CLI: an exit code tells what happened, an output file is replaced atomically
  and only by a report.

## 2. Plan

| Step | Modules | Section |
|---|---|---|
| the journal under crashes and two writers | `JournalFile`, `MutationJournal`, `AttemptLedger`, `MutationJournalProofs` | 3 |
| ingestion from any provider, over Gmail, and the transport | `Ingestion`, `GmailMailbox`, `RetryingTransport`, `IngestionProofs`, `GmailProofs`, `TransportProofs` | 4 |
| what a change record, an intent and a reconciliation are worth together | `ChangeRecord`, `ChangeLog`, `ChangeLogProofs` | 5 |
| processes on one token store, key and report | `Authorization`, `Command`, `CommandProofs` | 6 |
| decisions about messages, audited after every change of the facts | `Facts`, `Scores`, `Documents`, `Protection`, `Obsolescence`, `Operational`, `LabelRepair`, `Audit`, `ScoreProofs`, `AuditProofs` | 7 |

These steps are done. `Command` extends `Authorization`; `Audit` extends the
four assessments and `LabelRepair`, which share `Facts` and `Scores`.

Every invariant and action property that a passing run checks is also stated by a
theorem, for every value of the constants its hypotheses allow. What stays with
the model checker alone is liveness, which is out of the prover's reach
(`Terminates`, `RestingMailboxIsRead`, `CommandEnds`), and the four violations,
which are counterexamples.

## 3. The mutation journal

### Modules

`JournalFile` is the file format: what `load` makes of the bytes. A file is a
sequence of *chunks*, one per `os.write` call, each naming the event it is part
of and which part (`whole`, `head`, `stub`, `tail`; `stub` is a prefix that
cannot be decoded). `Loads`, `TrailingCorruption` and `MayAppend` are the
loader's three errors, its `trailing_corruption` flag and the checks of the two
append methods, as predicates on such a file.

`MutationJournal` is the behaviour. Each writer (process) makes one call at a
time, one system call per step:

| Action | Code |
|---|---|
| `BeginAppend` | `load` and the checks of `append_intent` / `append_finalization` |
| `FindDirectory`, `MakeDirectory` | `_ensure_private_directory` |
| `OpenFile` | `existed = path.exists()` and `os.open` |
| `WriteWhole`, `WriteSome`, `WriteRest` | the `os.write` loop |
| `SyncFile` | `os.fsync(fd)`, and the return when neither path component is new |
| `SyncDirectory` | `_fsync_directory`, and the return |
| `Abandon` | a system call raises, or the process dies, anywhere in the call |
| `PowerLoss` | external: the machine stops; what was fsynced stays |

`visible` and `durable` are the directory entries before and after a power
loss; `file` and `synced` the same for the file's content; `fresh` is the code's
`not existed or parent_created`; `acknowledged` is a history variable, the
events whose append returned. `AttemptLedger` is the promise to a caller: an
attempt goes from absent to open to finalized, and a fault takes back no step
that was acknowledged. `Ledger` in `MutationJournal` is the refinement mapping.

### Runs

All use `MCMutationJournal`. Fault steps are not counted or bounded: a call may
be abandoned and power lost any number of times. The state space is finite
because an event is appended only when it is not recorded, and a torn file
refuses appends.

| Run | Instance | Shows |
|---|---|---|
| `journal_one_writer` | 1 writer, 2 attempts, directory and file durable, ASCII labels | `AlwaysLoads`: no fault makes `load` raise; `TornRecordIsLast`: nothing is ever glued to a torn record; `AcknowledgedSurvives`, `InterruptedIsDiscovered`, `ImplementsLedger` |
| `journal_two_writers` | 2 writers, 1 attempt, a label outside ASCII, nothing exists at first | type invariant; `FinalizationAfterIntent` needs no lock; `RecordedOncePerWriter`: a stale load duplicates an event at most once per process |
| `journal_new_file` | as `one_writer`, but the file does not exist | violated: `AcknowledgedSurvives` |
| `journal_torn_character` | a label outside ASCII | violated: `InterruptedIsDiscovered` |
| `journal_line_boundary` | a label with a Unicode line boundary | violated: `InterruptedIsDiscovered` |

Two attempts are enough for one that was interrupted earlier and one whose
append is torn; two writers with one attempt are enough for both to hold the
same stale load, and for a finalization to race its own intent.

The three violations are the findings of `PROJECT.json`:

* *new file*: the directory is fsynced only by the call that created the file.
  If that call ends between `os.open` and `_fsync_directory`, the next append
  returns without that fsync and its entry can still be lost.
* *torn character*: `ensure_ascii=False` lets a write stop inside a character,
  and `read_text` then raises instead of reporting trailing corruption.
* *line boundary*: `str.splitlines` splits at U+0085, U+2028 and U+2029, which
  `json.dumps(ensure_ascii=False)` writes unescaped.

Two more conditions behind these properties have no run of their own. The entry
of a *created directory*, in its own parent, is never fsynced, so
`AcknowledgedSurvives` also fails from an empty path (`InitialPath <- NoPath`).
With *two writers* the duplicate check of either may use a stale load: both
append, the journal holds the same event twice, and `AlwaysLoads` fails. What is
left without a lock is `RecordedOncePerWriter`: the file never holds more records
of an event than there are writers, because a call that begins later sees the
event and raises.

### Proofs

`MutationJournalProofs` proves, for every set of attempts and every finite set of
writers:

* `TypeCorrect`: `Spec => []TypeOK`.
* `FinalizationFollowsIntent`: any number of writers. `FinalizationAfterIntent`
  is not inductive: a writer that passed the check of `append_finalization`
  still has its append before it, and meanwhile others write and the power may
  fail. `HistoryInv` adds `FinalizationsBacked`: while such a call lasts, the
  intent it saw is still recorded. A power loss ends every call, which is why it
  may drop the intent. The lemmas say that appending a chunk, and cutting the
  file, keep every earlier record.
* `EventsAreRecordedOncePerWriter` (`RecordedOncePerWriter`): any number of writers,
  any path and any labels. `OncePerWriter` adds to the records of an event the
  calls that may still write one, and bounds the sum: a write turns a call into a
  record, a call begins only while there is no record, and a power loss ends every
  call and leaves no record that was not there.
* `AcknowledgedIsDurable` and `JournalImplementsLedger`: under `Setting`, one
  writer, an established path and labels without line boundaries; the runs
  `journal_new_file` and `journal_line_boundary`, and the case of two writers
  above, show that each condition is needed. `CallInv` says what
  the last chunk of the file is at each step of the only call; it gives that a
  record is complete when it is fsynced. For the refinement each action is a
  `Record`, `Promise`, `Forget` or stuttering step of the ledger
  (`StepRefines`).

* `TornStaysLast` (`TornRecordIsLast`): one writer, on any path, with any labels.
  `TornInv` adds what the writer relies on between its checks and its write: the
  file it loaded ends with a complete line, and what it completes in a second
  write is its own piece. A power loss cuts the file and ends the call.
* `FileAlwaysLoads` (`AlwaysLoads`): one writer, on any path, labels in ASCII.
  `TidyInv` says that every complete line is the record of an event recorded
  nowhere else, `DecodableInv` that no piece is cut inside a character; with
  `FinalizationAfterIntent` these are the loader's checks.
* `InterruptedAttemptsAreFound` (`InterruptedIsDiscovered`): from the last one and
  `AcknowledgedIsDurable`, hence one writer, an established path, labels in ASCII.

The runs `journal_torn_character` and `journal_line_boundary`, and the case of two
writers, show that these conditions are needed. Nothing is left to TLC but the
counterexamples.

### What the model leaves out

* After a power loss, the unsynced part of the file is a prefix of what was
  written, its last chunk possibly torn; a file system may also leave zeroed or
  reordered blocks.
* `path.exists()` and `os.open` are one step; the directory entry and the file
  it names appear together. Permissions (`chmod`), symbolic links and the
  branches for systems other than POSIX are left out.
* A call writes its event in one or two pieces; more pieces leave the same kinds
  of prefix. `os.write` returning 0 is `Abandon`.
* A label outside ASCII in a message or attempt identifier is treated like one
  in `target_label`; the fields of an event are otherwise not modelled.
* No liveness is claimed for the journal: a call may be abandoned at any time
  and nothing in the code retries it, so no fairness is assumed.

## 4. Ingestion

### Modules

`Ingestion` is `ingest_provider_mailbox`. The function is sequential and pure
between two provider calls, so a state is the wait for one call and a step
receives its answer, with everything the code does before the next call:

| Action | Code |
|---|---|
| `ReceiveLabels` | the catalog, and its duplicate check |
| `ReceiveThreadPage` | a thread page is received; `Advance` asks for the messages of its first thread, for the next page, or ends |
| `ReceiveMessagePage` | the checks of each message, its label and attachment gaps, the continuation; with the last page `EndThread` appends the thread and tests `max_threads` |
| `ProviderFails` | the awaited call raises |

`Advance` stands for the `for` and `while` heads; the test of `max_threads` at
the head of the thread loop (line 258) cannot be true, because the test after
each thread (line 394) stops first: the proof of `AdvanceEnumerates` rests on
this. `list_attachments` is answered together with the page of its message,
since nothing changes between the two. A provider's answer is any value that
the types of `provider.py` allow: identifiers and tokens may repeat, flags may
contradict attachments, pages may be empty.

`GmailMailbox` puts the Gmail adapter in the place of that provider. The mailbox
is external: newest thread first, changed by other clients and arriving mail
between any two calls (`Arrive`, `Remove`, `CreateLabel`). Gmail's continuation
tokens are opaque; the model reads them as positions in the list, which is what
makes a changing mailbox hard. The list shifts when a thread moves to the top.
`Translated` is the adapter's view of a letter: a MIME structure beyond the
traversal depth counts as an attachment without metadata.

`RetryingTransport` is `_get_json` with `_safe_error_for_http`: one read, its
retries, and the error that is raised.

### Runs

| Run | Instance | Shows |
|---|---|---|
| `ingestion` | 2 threads, 2 messages in 5 versions, 2 tokens, pages of up to 2, `max_threads` none, 1 or 2 | type invariant; `ReadOnce`, `NothingSkipped`, `CompleteIsHonest`, `GapsDisclosed`, `Terminates` |
| `mailbox` | 4 threads, 6 letters, pages of 2, `max_threads` none or 3, at most 3 changes | `RestingMailboxIsReadExactly`, `RestingMailboxIsRead`, `ArrivalsAreNotMissed`, `ImplementsIngestion` |
| `transport` | 3 attempts (the default policy), 12 kinds of status, 3 kinds of body | type invariant; `RetriesAreJustified`, `GivesUpLate` |

Two threads on pages of two let a duplicate fall within a page or across pages,
and let `max_threads` be reached inside a page, at the end of one that
continues, and at the end of the enumeration. Two tokens let one repeat at once
or after another. In `mailbox`, four threads on pages of two leave a change room
before, between and after the pages; three changes let a thread that was read
come back, and two threads move while one page is being read.

`MaxPage` and `MaxChanges` are bounds of the model. `Terminates` holds because
the set of tokens is finite: the code ends a loop when a token repeats and has no
other bound, so a provider that invents tokens for ever is never left.

Fairness: `FairSpec` and `FairGmailSpec` assume that an awaited call is
answered. `_get_json` makes a bounded number of requests, each with a timeout,
and then raises (`transport`). Nothing obliges the mailbox to change or the
network to fail.

What is *not* claimed: when a thread is removed while its page has been read and
later ones have not, positions shift the other way, a thread is on neither page
and the result says `complete`. Nothing in the answers reveals this, so
`ArrivalsAreNotMissed` excludes removals.

### Proofs

`IngestionProofs` proves for every provider, that is for every set of threads,
messages and tokens, every page length and every `max_threads`:

* `IngestionTypeCorrect`: `Spec => []TypeOK`.
* `EnumerationHasNoGap` and `ResultIsHonest`: `NothingSkipped` and
  `CompleteIsHonest`. Neither is inductive. `EnumerationInv` adds `Between`:
  while the loop runs it holds fewer than `max_threads` threads, and no thread
  of the page is left when the next page is asked for. The lemmas follow the
  code: `AdvanceEnumerates` for the loop heads, `EndThreadEnumerates` for the
  end of a thread, and `MoveHead`, that moving the head of the page to the end
  of the threads read leaves their concatenation as it was.

* `NothingIsReadTwice` (`ReadOnce`): `OnceInv` adds that the thread whose messages
  are awaited was not read before. The identifiers of the messages of one thread,
  and of all threads before it, are one set that only grows.
* `EveryGapIsDisclosed` (`GapsDisclosed`): `DisclosureInv` says it of every message
  from the moment it is received; a limitation is never taken back.

`GmailProofs` proves for every mailbox, every page length and any changes by other
clients:

* `GmailTypeCorrect`, and from it `GmailImplementsIngestion`: each step of the
  ingestion over Gmail is a step of `Ingestion`, and what other clients do is a
  stuttering one. All that is proved of `Ingestion` therefore holds over Gmail.
* `CompleteMissesNoArrival` (`ArrivalsAreNotMissed`). The argument is a count:
  `PagingInv` says that the position asked for is the number of threads listed so
  far, and `ArrivalsInv` that, without removals, each of these is still in the
  mailbox. When the last page is listed there are as many as the mailbox holds,
  so that without a repetition they are all of them; and with one, the ingestion
  has failed (`ReadOnce`).
* `RestingMailboxIsExact` (`RestingMailboxIsReadExactly`): `RestInv` says that what is
  listed is the beginning of the mailbox; so no identifier comes twice and no
  check fails.

They assume `LettersAssumption`, `MailboxAssumption` (a message identifier belongs
to one place of one thread, and a listed thread has a letter) and
`AdapterAssumption` (finitely many threads and labels, a token for each position,
pages within `MaxPage`).

`TransportProofs` proves for any number of attempts and any delay `GivesUpOnlyLate`
(`GivesUpLate`), `TransportTypeCorrect` and `RetriesJustified`. `TransportInv` says
that there is one answer for each attempt and that all but the last may go away;
`ErrorCodeFacts` that the code of an error tells which do. The last two theorems
also speak of the time slept, which doubles: they take two laws of the powers of
two as a hypothesis (`PowersOfTwo`: 2^n is a natural number, and 2^(n + 1) is twice
2^n), since the provers know none.

Left to TLC: `Terminates` and `RestingMailboxIsRead`, which are liveness.

### What the model leaves out

* The names of labels, subjects and correspondents, attachment contents, the
  descriptor and the limitations the adapter records about itself.
* A malformed Gmail payload (wrong type, missing identifier, wrong thread) is
  `RequestFails`: each raises the same kind of error.
* A change between the two requests that read one thread (metadata, then the
  structure of each message): a thread is read in one step.
* Errors of the OAuth library while the session refreshes its token: they are
  not `RequestException`, so `_get_json` does not map them.

## 5. Change records

### Modules

`ChangeRecord` holds the rules: `ValidRecord` is the checks of
`ChangeAuditRecord` and of the types it is made of that relate its action, states,
gates, mode, result, rollback data and proposed label; `ValidIntent` is those of `MutationAttemptIntent`, `Reconcile` is
`reconcile_interrupted_attempt`. A record has the snapshots of three states
(previous, requested, resulting); a *placement* is `in`, `out` or, where the
provider does not report it, `unknown`.

`ChangeLog` puts these rules between a caller, a provider and a file. The write
workflow is not in the repository, so the caller is external and may ask for
anything: it reads the message (`get_message_state`), makes an intent of any
action and any requested state its constructor takes (`Intend`), the provider
does all of it or the first half (`Call`) or nothing, and the caller fills in a
record as it likes, except for the states it has read (`RecordAttempt`). Another
client may change the message at any time (`ForeignChange`). The caller may die
between any two steps: it keeps nothing that is not in the journal.

The file is a sequence of lines, each the pieces written to it. An append is
atomic (`AppendRecord`) or ends early (`AppendTorn`: an `OSError`, the end of
the process, a power loss) and then leaves a piece without line feed.

### Runs

| Run | Instance | Shows |
|---|---|---|
| `change_log` | 1 user label, 1 provider label, a provider that reports both placements and one that hides the Inbox, intents that differ in at most one label or the placement, 2 records, 1 torn append, 1 foreign change | type invariant; `VerdictIsTrue`, `UndoIsRecordable`, `RecordsTellTheOutcome`, `LossIsBounded` |

One user label and one of the provider are enough for the two kinds to be
confused; an action touches at most one label or the placement, so intents that
differ in more add only further nonsense. The second record is the one that a
torn piece swallows.

### What the properties say

`OutcomeIsUnique`, which is proved and has no run, looks at the checks of
`result` together: for an attempt whose states fit its action, every state the
message may be in afterwards fits exactly one of succeeded, failed and partial
failure. `VerdictIsTrue` and `RecordsTellTheOutcome` relate the checks to what
the provider did (history variable `effect`), as long as no other client
interfered (`touched`), for intents whose states fit their action (`Sensible`).
`UndoIsRecordable` says that the rollback data of a success describe a change
the log would take itself. `LossIsBounded` bounds what torn appends cost.

What is *not* claimed, because the code does not do it:

* an intent may differ from the state before in the revision alone, and
  reconciliation ignores the revision: its verdict then says nothing;
* a move to Trash on a provider that hides the Inbox can never be recorded as a
  success, because the requested state must say that the message is out of it;
* the undo of a restoration from Trash is not recordable if the Inbox placement
  was unknown, and one that moves to Trash must itself be done in cleanup mode;
* a caller that dies between the change record and the finalization finds the
  attempt interrupted, and may record it a second time.

### Proofs

`ChangeLogProofs` proves every property of the run and `OutcomeIsUnique`, for all labels, all
providers and any number of records, torn appends and foreign changes:

* `ChangeLogTypeCorrect`: the type invariant.
* `OutcomesAreUnique` rests on `TransitionsChange`: what an action requests
  differs from what was, so the rules for the results divide the states.
* `UndoingIsRecordable`: the invariant is `LastIsValid`, that the last record
  passed every check. `LabelsComeBack` and `PlacesComeBack` show for each action
  that its rollback leads back; restoring from Trash is where a message in Trash
  must be known not to be in the Inbox.
* `LossesAreBounded`: `LossIsBounded` is not inductive. `TearsCover` counts an
  open line as a loss to come, and `OpenLineIsTorn` says that such a line holds
  no readable record, so that what is written to it costs at most its own.
* `VerdictsAreTrue` and `RecordsAreTruthful`: the invariant is `EffectShows`,
  which says how the effect of the call shows in the message. `LabelsAreCarried`,
  `PlaceIsCarried` and `HalfWayIsNeither` prove it for the call, action by
  action.

### What the model leaves out

Identifiers, timestamps, evidence and confidence, and how records are rendered.
Of the dry-run reference the proposed label is kept; the checks that it belongs to
the same message and plans an `ADD_LABEL` of class M1 are not. The directory entry of a new file is not
fsynced here either, as in the journal; the model starts with a file that
exists. An `OSError` after the record is complete but before the append returns
is a torn append here, though the record can be read: this only adds losses.

## 6. Authorization and the command line

### Modules

`Authorization` is `gmail_auth.py`: processes on one local store, at the grain
of one look at the file system, one rename or one call to the OAuth library.

| Action | Code |
|---|---|
| `Look`, `LoadFails`, `Load` | `authorize`: `exists()`, `load_token`, the scope check |
| `RefreshFails`, `Refresh`, `ConsentFails`, `Consent` | the refresh, and the flow in the browser |
| `PersistFails`, `Persist` | `_persist`: `_atomic_private_write` |
| `LookForKey`, `ReadKey`, `CreateKey`, `CreateKeyFails` | `_load_or_create_key` |
| `ResetLook`, `Unlink`, `UnlinkFails` | `reset` |
| `PowerLoss` | external: no directory is fsynced, so each path keeps its file or has the one from when the machine started |

A credential is its scope and its *grant*: the consent it stems from, which a
refresh keeps. Scopes are what the token file or the server says they are.

`Command` is `main`, from `argparse` to the exit code, on top of that store:
`Start`, `Configure`, `Dispatch`, then the steps above, `ReadProfile`,
`ReadMailbox` (all of section 4 in one step, which may fail in every way that
ends it), and the output. `_atomic_private_output_write` is `WriteTemporary`,
`ReplaceReport` and `Finish`, each of which may fail (`OutputFails`). A process
may be killed between any two steps. `reset` is asked for by another program: the
command line offers none. A repair dry run goes the same way as an audit.

### Runs

| Run | Instance | Shows |
|---|---|---|
| `command` | 2 processes with any command line, 3 tokens, 2 keys, 4 configurations, 1 power loss | type invariant; `ReportsAreWhole`, `ExitTellsTheReport`, `SessionIsAuthorized`, `ForgottenTokensReturnOnlyByRefresh`, `NamesDifferOnlyAfterRace`, `CommandEnds` |
| `account_name` | the same without a power loss | violated: `StableAccountName` |

Two processes are enough for a refresh to overtake a reset, for both to find no
key, and for both to replace the report. One power loss is enough to bring back
what was reset: after it, the surviving files are the durable ones.

`SessionIsAuthorized` has two parts. `ReadOnlySession`: the mailbox is only read with
credentials of exactly the read-only scope. `ConsentOnlyWithoutToken` is about the
look and the load of a token, two steps with room for a reset between them: a
session that found a token (history variable `found`) uses it or fails, and only
one that found none rests on a consent of its own.

The violation is a finding: two first runs at the same time each find no key and
each make one. `NamesDifferOnlyAfterRace` shows that this is the only way to two
names without a power loss.

Fairness: `FairSpec` assumes that a process that can go on goes on, except in the
browser: `run_local_server` waits without limit, and `CommandEnds` excepts
exactly that. Reading the mailbox ends because transport and ingestion are
bounded (section 4). Nothing obliges a process to start, to be killed or the
power to fail.

### Proofs

`CommandProofs`, for any number of processes, any configurations and destinations,
with kills, resets and power losses at any moment:

* `CommandTypeCorrect`, `ReportsStayWhole`, `ExitCodesTell` and `SessionsAreReadOnly`
  follow from `CommandInv`: `Stored` says of the files, both as the processes see
  them and as they survive a power loss, that each report is whole and the
  authorization to write untouched; `Prepared`, `Told` and `Tells` say for each
  process what its next step presupposes: credentials of the read-only scope from
  the first step that may use them, a destination where one is written, a report
  replaced before the last chmod.
* `NamesDifferOnlyByRace` (`NamesDifferOnlyAfterRace`): `OneKey` says that every name
  in use is the key in place, and that a process that is about to create a key
  is alone and finds none. It holds until two processes find no key at once or
  power is lost.
* `ForgottenTokensStayForgotten` (`ForgottenTokensReturnOnlyByRefresh`): `NotForgotten`
  says that neither the token file nor a process on its way to write it holds a
  token that stems from a forgotten consent, and that a process which may still
  be given consent is not in any token yet (`Unused`).

* `NoUnwantedConsent` (`ConsentOnlyWithoutToken`; with `SessionsAreReadOnly` it is
  `SessionsAreAuthorized`): `ConsentInv` says that no
  credential and no token file, present or durable, stems from a process that
  still stands before its consent or that found a token. Every step but the look,
  the load and the consent only moves grants about (`NoNewGrant`).

Processes are looked at one at a time: most steps move one process and touch at
most one file (`OneMoves`, `StoredReplaced`), so that each action has a short lemma.
The proofs assume `AuthorizationAssumption` and `ConfigurationAssumption`, which say
that the special values are no processes, credentials or exit codes, and what kind
of files there are at first.

Left to TLC: `CommandEnds`, which is liveness, and the violation.

### What the model leaves out

* The contents of tokens beyond scope and grant, the calculation of paths,
  permissions and symbolic links, and the client configuration file.
* Temporary files: a process that is killed while it writes one leaves it behind
  with a whole credential, and `reset` does not remove it. Nothing reads them.
* The checks of single configuration keys: the file is usable, absent or
  invalid. A destination `-` in it means standard output; on the command line it
  is a file name.
* What the report says, and the text an error is printed with.

## 7. Audit and assessments

### Modules

`Audit` is `build_mailbox_audit` over one thread, run again after every change
of the facts it reads: the user adds and removes labels, follows an eligible
repair (`ApplyRepair`) or an operational proposal (`AcceptState`); the collectors
learn about attachments, context and coverage. The audit itself changes nothing;
what is checked is what its chain of decisions makes of facts that come and go.

| Module | Code |
|---|---|
| `Facts` | the keyword tables, snapshots, attachments and contexts |
| `Scores` | the arithmetic of confidence scores, ranking and bands |
| `Documents` | `assess_document_significance` |
| `Protection` | `infer_protected_domains`, `evaluate_destructive_protection_gate` |
| `Obsolescence` | `assess_message_obsolescence` |
| `Operational` | `assess_operational_state` with the default configuration, or disabled |
| `LabelRepair` | detection, inference and decision of the dry run |
| `Audit` | `build_mailbox_audit`, and the user and collectors around it |

A text is a value, and of what it says only the keywords it contains are kept
(`WordsOf`), one or two for each row of the tables. Confidence scores are sums of
decimal weights in double precision compared with decimal thresholds, and the
rounding decides cases: 0.50 + 0.20 + 0.20 is below 0.90, and a lead of 0.10 on
paper may be less. `Scores` therefore computes with doubles exactly: a double
near t thousandths is the pair of t and its distance from that decimal, and sums
round to the nearest, ties to even. Repair scores are rounded to three decimals
by the code and are whole thousandths.

### Runs

| Run | Instance | Shows |
|---|---|---|
| `audit` | 4 messages, 20 starts, 5 sets of attachments, 5 contexts, 2 labels to add and remove, 2 labels of other threads | type invariant; `TrashIsHarmless`, `EligibleRepairsAreCorroborated`, `LabelsNeverUncoverTrash`, `RepairsNeverCompete`, `ProposalsSettle` |

Two messages carry the label of the thread and two do not, so that a repair can
make a witness for the other one; in one start both witnesses come first. One message is watched: the texts, attachments
and contexts for it include every document verdict, every protection status, two
competing classes of documents and of obsolescence, and contexts that lack one
answer each. The user's classifier does not know one of the operational labels, and the mailbox
has an equivalent of another, which is proposed instead of the preferred one.

What the properties say: `TrashIsHarmless` goes back through every stage from
the recommendation to the facts. `LabelsNeverUncoverTrash` compares two audits.
`RepairsNeverCompete` and `ProposalsSettle` say that following the report
converges. Four limits found on the way are part of their statements:

* two competing classes of a document (a contract of insurance) make its
  significance unknown and take away its hints of protected domains. With complete
  coverage the protection gate then passes, and only the conflict
  `document_significance_unknown` retains the message. Likewise a keyword such
  as "logo" in the name of an image hides its other words;
* a repaired message with another subject or other correspondents may demote the
  repair of its neighbour from eligible to review;
* a repaired message counts as a witness, and may put a gap that had witnesses on
  one side only between them: its neighbour may then be offered the same label,
  which it was not before, or become eligible itself;
* the label proposed for an operational state is the preferred one even if the
  user's classifier does not call it operational; once created, it counts as
  semantic. `ProposalsSettle` is about the others.

In every case checked, rounding only retains: a score that falls short of its
decimal threshold means a weaker recommendation.

### Proofs

`AuditProofs`, for every thread, classifier and vocabulary, whatever the user
relabels and the collectors learn. The invariant (`FactsStayTyped`) is the typing
of the facts together with `ReportIsCurrent`: the report is the audit of the facts
of the moment, which turns every statement about a report into one about the
assessments. From it:

* `RepairsAreCorroborated` (`EligibleRepairsAreCorroborated`). One witness adds up
  to at most 0.85: the target cannot lie between witnesses, so the bonus for that
  is out of reach (`OneWitnessFallsShort`);
* `RepairsConverge` (`RepairsNeverCompete`). A repaired message is one more
  witness: that never takes the bonuses for depth and position away, and costs an
  eligible repair at most 0.10 for the subject and 0.10 for the correspondents
  (`PointsAfterRepair`), so that its label stays proposed;
* `AuditTypeCorrect`: the type invariant. It takes that the sum of any weights is a
  number of the model (`SumType`), and that a highest class exists;
* `TrashCandidatesAreHarmless` (`TrashIsHarmless`). Its part about the facts
  (`HarmlessByFacts`) is `CandidatesAreHarmless`, which does not depend on how
  scores round. A candidate has no conflicts, so every stage before must
  have passed (`CandidateIsClean`); what is generic is decorative or of a
  worthless type (`GenericIsWorthless`). The other part (`StandsOut`) is that
  rounding did not decide the class: a sum in double precision stands for the
  same number of thousandths as the sum on paper, so that the class of a candidate
  has all its points on paper too, and leads by a tenth or more
  (`CandidateStandsOut`);
* `AcceptedProposalsSettle` (`ProposalsSettle`). Detection and inference look at the
  semantic labels of the messages only (`RepairsSkipOtherLabels`), and the label
  of an accepted state is not one if the classifier knows it;
* `LabelsOnlyProtect` (`LabelsNeverUncoverTrash`). Whoever is a candidate with a
  label was one without it: labels only add cues for documents and domains, the
  verdicts on generic attachments do not change (`GenericWithoutLabels`), and the
  class does not look at labels.

They assume `FactsAssumption`, `AuditAssumption` and `OperationalAssumption`: finitely
many labels, a thread in which no message occurs twice, and a label for each
operational state.

`ScoreProofs` holds what is proved of the scores whatever is summed: `RoundedType`,
`PlusType` and `SumType` type the arithmetic, `StrongestExists` finds a highest
score among finitely many. Both need induction over the natural numbers. The
library's induction theorems take an operator as a parameter, which the provers
cannot instantiate; `Induction` states the principle for a set of numbers instead
and derives it from the well-foundedness of the strict subset ordering.

Nothing of the audit is left to TLC alone.

### What the model leaves out

* Which words a text contains, when a keyword phrase spans two texts that the
  code joins: each text has its own words.
* A label that a snapshot lists twice: labels are sets here, and the code counts
  such a label twice as support (`detection.py:49`).
* The threads beside the one audited: only their labels matter to it, as those a
  proposal may reuse, and `AvailableLabels` stands for these and for the caller's
  `available_labels`. They do not change.
* Duplicate counts, evidence texts, warnings, summary counts and rendering, and
  the errors for duplicate identifiers, which the provider side excludes.
* Operational scores: every cue and every significant document is by itself over
  the threshold of a proposal.
* The command line supplies neither contexts nor coverage, so that its audits
  never name a candidate for the trash; the model supplies them as a caller of
  `build_mailbox_audit` may.
* A report that is older than the facts: the report is made anew at every change.

## 8. Not modelled

Wording and layout of reports and JSON, the OAuth library and the Gmail HTTP
service (external, seen through the answers they give), header and MIME parsing,
`__init__.py` and `__main__.py` (re-exports and the entry point).

The write workflow that `docs/mutation-journal.md` describes is not in the
repository: `ChangeLog` models its caller as one that may do anything.
