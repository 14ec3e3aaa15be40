------------------------------ MODULE Command ------------------------------
(***************************************************************************)
(* The command line (cli.py, cli_config.py): processes that each run one   *)
(* command, share the authorization store, and may write their report to   *)
(* the same destination.  A reset is asked for by another program of the   *)
(* user: the command line offers none.  Reading the mailbox is one step    *)
(* here, with every way Ingestion may end.  A process may be killed        *)
(* between any two steps.                                                  *)
(***************************************************************************)
EXTENDS Authorization

CONSTANTS
    Configurations   \* what the configuration file may hold: see ConfigurationAssumption

Commands == {"audit", "repair --apply", "reset"}

(* The command line: --output and --max-threads, where the command looks   *)
(* at them.  repair --dry-run goes the same way as audit.                  *)
Arguments ==
    {a \in [command : Commands, output : Destinations \union {None}, bounded : BOOLEAN] :
        /\ a.bounded => a.command = "audit"
        /\ a.output # None => a.command # "reset"}

ExitCodes == {0, 2, 3, 5, 6, 70}

(* "absent" and "invalid" stand for the four ways of load_cli_config to    *)
(* fail; output.destination "-" and none at all are the same.              *)
ASSUME ConfigurationAssumption ==
    /\ Configurations \subseteq [state : {"usable", "absent", "invalid"},
          provider : {"gmail", "unknown"}, destination : Destinations \union {None}]
    /\ None \notin Destinations /\ None \notin ExitCodes
    /\ Destinations \intersect (Modes \union {"key"}) = {}

VARIABLES
    config,     \* the configuration file
    arguments,  \* per process: its command line, None before it starts
    target,     \* per process: invocation.output_destination
    exit,       \* per process: the exit code, None while it runs
    published,  \* history: processes whose report replaced the destination
    chmodFailed \* history: processes whose last chmod failed

cliVars == <<config, arguments, target, exit, published, chmodFailed>>
vars == <<authVars, cliVars>>

(* A report is told by the process that made it. *)
Report(p, whole) == [by |-> p, whole |-> whole]
Reports == [by : Processes \union {Before}, whole : BOOLEAN]

Steps == {"start", "config", "dispatch", "look", "load", "refresh", "consent", "persist",
          "authorized", "name", "read key", "create key", "named", "temporary", "replace",
          "chmod", "reset", "unlink", "reset done", "failed", "exited", "dead"}

(* What the paths may hold. *)
FilesOK(f) ==
    /\ DOMAIN f = Paths
    /\ \A m \in Modes : f[m] \in Credentials \union {Absent, Unreadable}
    /\ f["key"] \in Processes \union {Before, Absent, Unreadable}
    /\ \A d \in Destinations : f[d] \in Reports \union {Absent}

TypeOK ==
    /\ FilesOK(files) /\ FilesOK(settled)
    /\ pc \in [Processes -> Steps]
    /\ mode \in [Processes -> Modes]
    /\ cred \in [Processes -> Credentials \union {None}]
    /\ name \in [Processes -> Processes \union {Before, None}]
    /\ error \in [Processes -> ErrorCodes \union {None}]
    /\ forgotten \subseteq Processes \union {Before}
    /\ overtaken \in BOOLEAN /\ raced \in BOOLEAN /\ found \subseteq Processes
    /\ losses \in 0..MaxPowerLosses
    /\ config \in Configurations
    /\ arguments \in [Processes -> Arguments \union {None}]
    /\ target \in [Processes -> Destinations \union {None}]
    /\ exit \in [Processes -> ExitCodes \union {None}]
    /\ published \subseteq Processes /\ chmodFailed \subseteq Processes

Init ==
    /\ \E tokens \in InitialTokens, key \in InitialKeys :
          files = [path \in Paths |->
              CASE path = "read_only" -> tokens
                [] path = "m1_write" -> [scope |-> "m1_write", grant |-> Before]
                [] path = "key" -> key
                [] OTHER -> Report(Before, TRUE)]
    /\ settled = files
    /\ pc = [p \in Processes |-> "start"]
    /\ mode = [p \in Processes |-> "read_only"]
    /\ cred = [p \in Processes |-> None]
    /\ name = [p \in Processes |-> None]
    /\ error = [p \in Processes |-> None]
    /\ forgotten = {} /\ overtaken = FALSE /\ raced = FALSE /\ found = {} /\ losses = 0
    /\ config \in Configurations
    /\ arguments = [p \in Processes |-> None]
    /\ target = [p \in Processes |-> None]
    /\ exit = [p \in Processes |-> None]
    /\ published = {} /\ chmodFailed = {}

-----------------------------------------------------------------------------
(* What the shell never changes itself. *)
untouched == <<settled, mode, name, history, config>>

(* With the process its credentials and its exception are gone. *)
Exit(p, code) ==
    /\ exit' = [exit EXCEPT ![p] = code]
    /\ cred' = [cred EXCEPT ![p] = None]
    /\ error' = [error EXCEPT ![p] = None]
    /\ Go(p, "exited")

Continue(p, step) == Go(p, step) /\ UNCHANGED <<exit, cred, error>>

(* argparse takes the command line, or exits. *)
Start(p, args) ==
    /\ pc[p] = "start"
    /\ arguments' = [arguments EXCEPT ![p] = args]
    /\ \/ Continue(p, IF args.command = "reset" THEN "reset" ELSE "config")
       \/ args.command # "reset" /\ Exit(p, 2)
    /\ UNCHANGED <<untouched, files, target, published, chmodFailed>>

(* _invocation_from: the argument wins over the file. *)
Destination(args) == IF args.output # None THEN args.output ELSE config.destination

(* load_cli_config, then the invocation. *)
Configure(p) ==
    /\ pc[p] = "config"
    /\ IF config.state # "usable"
       THEN Exit(p, 3) /\ UNCHANGED target
       ELSE /\ target' = [target EXCEPT ![p] = Destination(arguments[p])]
            /\ Continue(p, "dispatch")
    /\ UNCHANGED <<untouched, files, arguments, published, chmodFailed>>

(* There is a result: it goes to the destination, or to stdout at once,    *)
(* which may fail; that only main catches.                                 *)
(* Mutant: an exit code nothing documents. *)
CodeOfItsOwn(p) == IF arguments[p].command = "repair --apply" THEN 4 ELSE 0

CodeOf(p) == IF arguments[p].command = "repair --apply" THEN 5 ELSE 0

Output(p) ==
    IF target[p] # None THEN Continue(p, "temporary")
    ELSE \E code \in {CodeOf(p), 70} : Exit(p, code)

(* repair --apply is refused by a result, which is written like a report.  *)
RefuseWrite(p) ==
    /\ pc[p] = "dispatch" /\ arguments[p].command = "repair --apply"
    /\ Output(p)
    /\ UNCHANGED <<untouched, files, arguments, target, published, chmodFailed>>

(* Mutant: no destination is needed. *)
DispatchAnyway(p) ==
    /\ pc[p] = "dispatch" /\ arguments[p].command # "repair --apply"
    /\ IF config.provider # "gmail" THEN Exit(p, 6) ELSE Continue(p, "look")
    /\ UNCHANGED <<untouched, files, arguments, target, published, chmodFailed>>

NeedsDestination(p) == ~arguments[p].bounded /\ target[p] = None

(* The other commands need a destination, unless they are bounded, and a   *)
(* provider this program has; its factory asks for READ_ONLY.              *)
Dispatch(p) ==
    /\ pc[p] = "dispatch" /\ arguments[p].command # "repair --apply"
    /\ IF NeedsDestination(p) THEN Exit(p, 3)
       ELSE IF config.provider # "gmail" THEN Exit(p, 6)
       ELSE Continue(p, "look")
    /\ UNCHANGED <<untouched, files, arguments, target, published, chmodFailed>>

(* GmailAuthError becomes one exit code; reset is not a command.           *)
ReportError(p) ==
    /\ pc[p] = "failed" /\ arguments[p].command # "reset"
    /\ Exit(p, 6)
    /\ UNCHANGED <<untouched, files, arguments, target, published, chmodFailed>>

(* A call to Gmail or the translation of what it answers fails: as a       *)
(* ProviderOperationError, a ValueError or an ImportError, or as anything  *)
(* else, which only main catches.                                          *)
ReadFails(p) ==
    /\ pc[p] \in {"authorized", "named"}
    /\ \E code \in {6, 70} : Exit(p, code)
    /\ UNCHANGED <<untouched, files, arguments, target, published, chmodFailed>>

(* from_auth_manager asks for the profile, then for the account identifier.*)
ReadProfile(p) ==
    /\ pc[p] = "authorized"
    /\ Continue(p, "name")
    /\ UNCHANGED <<untouched, files, arguments, target, published, chmodFailed>>

(* Mutant: the session saves its credentials when it ends. *)
ReadMailboxAndPersist(p) ==
    /\ pc[p] = "named"
    /\ files' = [files EXCEPT ![mode[p]] = cred[p]]
    /\ Output(p)
    /\ UNCHANGED <<untouched, arguments, target, published, chmodFailed>>

(* The mailbox is read, to its end or not, and the report is rendered.     *)
ReadMailbox(p) ==
    /\ pc[p] = "named"
    /\ Output(p)
    /\ UNCHANGED <<untouched, files, arguments, target, published, chmodFailed>>

-----------------------------------------------------------------------------
(* _atomic_private_output_write; the name of the temporary file is its own.*)

(* Every OSError has one exit code; a report that is not valid text fails  *)
(* when it is written, otherwise.                                          *)
OutputFails(p) ==
    /\ pc[p] \in {"temporary", "replace", "chmod"}
    /\ chmodFailed' = IF pc[p] = "chmod" THEN chmodFailed \union {p} ELSE chmodFailed
    /\ \E code \in IF pc[p] = "temporary" THEN {3, 70} ELSE {3} : Exit(p, code)
    /\ UNCHANGED <<untouched, files, arguments, target, published>>

(* Mutant: the report is written in place. *)
WriteInPlace(p) ==
    /\ pc[p] = "temporary"
    /\ files' = [files EXCEPT ![target[p]] = Report(p, FALSE)]
    /\ Continue(p, "replace")
    /\ UNCHANGED <<untouched, arguments, target, published, chmodFailed>>

WriteTemporary(p) ==
    /\ pc[p] = "temporary"
    /\ Continue(p, "replace")
    /\ UNCHANGED <<untouched, files, arguments, target, published, chmodFailed>>

ReplaceReport(p) ==
    /\ pc[p] = "replace"
    /\ Replace(target[p], Report(p, TRUE))
    /\ published' = published \union {p}
    /\ Continue(p, "chmod")
    /\ UNCHANGED <<untouched, arguments, target, chmodFailed>>

Finish(p) ==
    /\ pc[p] = "chmod"
    /\ Exit(p, CodeOf(p))
    /\ UNCHANGED <<untouched, files, arguments, target, published, chmodFailed>>

-----------------------------------------------------------------------------
(* The steps a running process takes of itself. *)
Proceed(p) ==
    \/ Configure(p) \/ RefuseWrite(p) \/ Dispatch(p) \/ ReportError(p)
    \/ ReadFails(p) \/ ReadProfile(p)
    \/ ReadMailbox(p) \/ OutputFails(p) \/ WriteTemporary(p) \/ ReplaceReport(p) \/ Finish(p)

StoreStep(p) == (Authorize(p) \/ AccountSafeId(p) \/ Reset(p)) /\ UNCHANGED cliVars

Kill(p) ==
    /\ pc[p] \notin {"start", "exited", "reset done", "dead"}
    /\ Go(p, "dead")
    /\ cred' = [cred EXCEPT ![p] = None] /\ error' = [error EXCEPT ![p] = None]
    /\ UNCHANGED <<untouched, files, arguments, target, exit, published, chmodFailed>>

Environment ==
    \/ \E p \in Processes, args \in Arguments : Start(p, args)
    \/ \E p \in Processes : Kill(p)
    \/ (\E kept \in SUBSET Paths : PowerLoss(kept)) /\ UNCHANGED cliVars

Next == (\E p \in Processes : Proceed(p) \/ StoreStep(p)) \/ Environment

Spec == Init /\ [][Next]_vars

(* A process goes on unless it waits for the user's consent in the         *)
(* browser: run_local_server has no time limit.  Every call to Gmail ends: *)
(* the transport and the ingestion loop are bounded.                       *)
FairSpec ==
    /\ Spec
    /\ \A p \in Processes : WF_vars((Proceed(p) \/ StoreStep(p)) /\ pc[p] # "consent")

-----------------------------------------------------------------------------
(* The report at a destination is always one that some process wrote       *)
(* completely, or the one from before, even with two processes at work and *)
(* kills and power losses at any moment.                                   *)
ReportsAreWhole == \A d \in Destinations : files[d].whole

(* What the exit code says of the report: success with a destination means *)
(* that this process's report got there, and without one that the run was  *)
(* bounded.  Any other exit leaves the report of earlier runs alone, with  *)
(* two exceptions: repair --apply replaces it by its refusal, and the last *)
(* chmod may fail after the replacement.                                   *)
ExitTellsTheReport ==
    \A p \in Processes :
        /\ exit[p] = 0 => IF target[p] # None THEN p \in published ELSE arguments[p].bounded
        /\ exit[p] \in ExitCodes \ {0} /\ p \in published =>
              arguments[p].command = "repair --apply" \/ p \in chmodFailed

(* A mailbox is only read with credentials of exactly the read-only scope, *)
(* whatever the token file held and whatever scopes the server granted;    *)
(* and no command touches the authorization to write.                      *)
ReadOnlySession ==
    /\ \A p \in Processes :
          pc[p] \in {"authorized", "name", "read key", "create key", "named"} =>
              cred[p].scope = "read_only"
    /\ files["m1_write"] = [scope |-> "m1_write", grant |-> Before]

(* A session rests on a consent of its own exactly when it found no token  *)
(* (authorize): a token that is reset, unusable or refused between the     *)
(* look and the load ends the session, and asks the user for nothing.      *)
ConsentOnlyWithoutToken ==
    \A p \in Processes :
        cred[p] # None => (cred[p].grant = p <=> p \notin found)

(* What a session rests on (authorize): credentials of the scope it asked  *)
(* for, from the token it found or else from the consent it was given.     *)
SessionIsAuthorized == ReadOnlySession /\ ConsentOnlyWithoutToken

(* A token that a reset removed comes back only by a process that was      *)
(* refreshing it meanwhile, or by a power loss.                            *)
ForgottenTokensReturnOnlyByRefresh ==
    \A c \in Credentials :
        files["read_only"] = c /\ c.grant \in forgotten => overtaken \/ losses > 0

(* Two processes give the account different names only if both looked for  *)
(* the key when there was none, or a power loss took the key away.         *)
NamesDifferOnlyAfterRace ==
    \A p, q \in Processes :
        name[p] # None /\ name[q] # None /\ name[p] # name[q] => raced \/ losses > 0

(* "Derive a stable local pseudonymous account identifier": all processes  *)
(* name the account alike.                                                 *)
StableAccountName ==
    \A p, q \in Processes : name[p] # None /\ name[q] # None => name[p] = name[q]

(* A command that was started exits, unless it dies or waits for the       *)
(* user's consent.                                                         *)
CommandEnds ==
    \A p \in Processes :
        pc[p] # "start" ~>
            pc[p] \in {"exited", "dead", "reset done", "consent"} \/ error[p] # None
=============================================================================
