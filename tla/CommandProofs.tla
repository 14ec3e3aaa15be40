--------------------------- MODULE CommandProofs ---------------------------
(***************************************************************************)
(* Proofs about Command, for any set of processes and any configuration:   *)
(* what the runs check on two processes and one destination.               *)
(***************************************************************************)
EXTENDS Command, TLAPS

-----------------------------------------------------------------------------
(* Where each process stands: what the step it takes next presupposes.     *)

(* From the token it loaded to the report it renders. *)
Holding == {"refresh", "persist", "authorized", "name", "read key", "create key", "named"}

Session == {"look", "load", "consent"} \union Holding

Writing == {"temporary", "replace", "chmod"}

Ended == {"exited", "dead"}

(* A process has a command line once it has started, asks for READ_ONLY,   *)
(* holds credentials of that scope from the moment it has any to use, and  *)
(* needs no destination that it lacks.                                     *)
Prepared(p) ==
    /\ mode[p] = "read_only"
    /\ pc[p] # "start" => arguments[p] \in Arguments
    /\ pc[p] \in Holding => cred[p] \in Credentials /\ cred[p].scope = "read_only"
    /\ pc[p] \in Session => ~NeedsDestination(p)

(* A report is written to a destination, replaced before the last chmod    *)
(* and never before, and an exit code is given once.                       *)
Told(p) ==
    /\ pc[p] \in Writing => target[p] \in Destinations
    /\ pc[p] = "chmod" => p \in published
    /\ p \in published => pc[p] \in {"chmod"} \union Ended
    /\ exit[p] # None => pc[p] \in Ended

(* ExitTellsTheReport, process by process. *)
Tells(p) ==
    /\ exit[p] = 0 => IF target[p] # None THEN p \in published ELSE arguments[p].bounded
    /\ exit[p] \in ExitCodes \ {0} /\ p \in published =>
          arguments[p].command = "repair --apply" \/ p \in chmodFailed

(* Neither the reports nor the token to write are ever in a state between. *)
Stored(f) ==
    /\ f["m1_write"] = [scope |-> "m1_write", grant |-> Before]
    /\ \A d \in Destinations : f[d] \in Reports /\ f[d].whole

CommandInv ==
    /\ TypeOK
    /\ Stored(files) /\ Stored(settled)
    /\ \A p \in Processes : Prepared(p) /\ Told(p) /\ Tells(p)

-----------------------------------------------------------------------------
(* What a reset must not meet while no refresh overtook it and the machine *)
(* has not lost power: the process that has not yet been given consent is  *)
(* in no token, and no token at hand stems from a forgotten one.           *)

(* The steps before a process may be given consent of its own. *)
Early == {"start", "config", "dispatch", "look", "consent"}

Unused(p) ==
    /\ p \notin forgotten
    /\ files["read_only"] \in Credentials => files["read_only"].grant # p
    /\ \A q \in Processes : pc[q] \in Holding => cred[q].grant # p

NotForgotten ==
    /\ files["read_only"] \in Credentials => files["read_only"].grant \notin forgotten
    /\ \A p \in Processes :
          /\ pc[p] \in {"refresh", "persist"} => cred[p].grant \notin forgotten
          /\ pc[p] \in Early => Unused(p)

ForgottenInv == overtaken \/ losses > 0 \/ NotForgotten

-----------------------------------------------------------------------------
(* While no two processes made a key at once and power was never lost, the *)
(* name that any process uses is the key in place, and the one process     *)
(* that makes a key finds none.                                            *)
OneKey ==
    /\ \A p \in Processes : name[p] # None => files["key"] = name[p]
    /\ \A p \in Processes : pc[p] = "create key" =>
          /\ files["key"] = Absent
          /\ \A q \in Processes : pc[q] = "create key" => q = p

NamesInv == raced \/ losses > 0 \/ OneKey

-----------------------------------------------------------------------------
(* No credential and no token stems from a process that has not been given *)
(* consent: one that still stands before it, or that found a token.        *)

InToken(token, p) == token \in Credentials /\ token.grant = p

GrantsNothing(p) ==
    /\ ~ InToken(files["read_only"], p) /\ ~ InToken(settled["read_only"], p)
    /\ \A q \in Processes : cred[q] # None => cred[q].grant # p

ConsentInv ==
    \A p \in Processes :
        /\ pc[p] \in Early => p \notin found
        /\ pc[p] = "load" => p \in found
        /\ pc[p] \in Early \union {"load"} => cred[p] = None
        /\ pc[p] \in Early \/ p \in found => GrantsNothing(p)
        /\ cred[p] # None /\ p \notin found => cred[p].grant = p

-----------------------------------------------------------------------------
LEMMA InitEstablishes == Init => CommandInv
<1> SUFFICES ASSUME Init PROVE CommandInv
  OBVIOUS
<1>1. PICK tokens \in InitialTokens, key \in InitialKeys :
          files = [path \in Paths |->
              CASE path = "read_only" -> tokens
                [] path = "m1_write" -> [scope |-> "m1_write", grant |-> Before]
                [] path = "key" -> key
                [] OTHER -> Report(Before, TRUE)]
  BY Zenon DEF Init
<1>2. DOMAIN files = Paths
  BY <1>1, Zenon
<1>3. files["read_only"] = tokens
  <2>1. "read_only" \in Paths
    BY DEF Paths, Modes
  <2> QED
    BY <1>1, <2>1, Zenon
<1>4. files["m1_write"] = [scope |-> "m1_write", grant |-> Before]
  <2>1. "m1_write" \in Paths /\ "m1_write" # "read_only"
    BY DEF Paths, Modes
  <2> QED
    BY <1>1, <2>1, Zenon
<1>5. files["key"] = key
  <2>1. "key" \in Paths /\ "key" # "read_only" /\ "key" # "m1_write"
    BY DEF Paths, Modes
  <2> QED
    BY <1>1, <2>1, Zenon
<1>6. ASSUME NEW d \in Destinations PROVE files[d] = Report(Before, TRUE)
  <2>1. d \in Paths /\ d # "read_only" /\ d # "m1_write" /\ d # "key"
    BY ConfigurationAssumption DEF Paths, Modes
  <2> QED
    BY <1>1, <2>1, Zenon
<1>. HIDE <1>1
<1>7. FilesOK(files)
  <2>1. tokens \in Credentials \union {Absent, Unreadable}
    BY AuthorizationAssumption DEF Credentials
  <2>2. [scope |-> "m1_write", grant |-> Before] \in Credentials
    BY DEF Credentials, Scopes, Modes
  <2>3. key \in {Before, Absent, Unreadable}
    BY AuthorizationAssumption
  <2>4. Report(Before, TRUE) \in Reports
    BY DEF Report, Reports
  <2> QED
    BY <1>2, <1>3, <1>4, <1>5, <1>6, <2>1, <2>2, <2>3, <2>4 DEF FilesOK, Modes
<1>8. TypeOK
  <2>1. FilesOK(settled)
    BY <1>7 DEF Init
  <2>2. losses \in 0..MaxPowerLosses
    BY AuthorizationAssumption DEF Init
  <2> QED
    BY <1>7, <2>1, <2>2 DEF Init, TypeOK, Modes, Steps
<1>9. Stored(files) /\ Stored(settled)
  <2>1. Stored(files)
    <3>1. Report(Before, TRUE) \in Reports /\ Report(Before, TRUE).whole
      BY DEF Reports, Report
    <3> QED
      BY <1>4, <1>6, <3>1 DEF Stored
  <2> QED
    BY <2>1 DEF Init
<1>10. \A p \in Processes : Prepared(p) /\ Told(p)
  BY DEF Init, Prepared, Told, Holding, Session, Writing, Ended
<1>11. \A p \in Processes : Tells(p)
  BY ConfigurationAssumption DEF Init, Tells, ExitCodes
<1> QED
  BY <1>8, <1>9, <1>10, <1>11 DEF CommandInv

-----------------------------------------------------------------------------
(* A step of another process leaves one as it was. *)
Stays(q) ==
    /\ pc'[q] = pc[q] /\ mode'[q] = mode[q] /\ cred'[q] = cred[q]
    /\ arguments'[q] = arguments[q] /\ target'[q] = target[q] /\ exit'[q] = exit[q]
    /\ (q \in published' <=> q \in published) /\ (q \in chmodFailed' <=> q \in chmodFailed)

LEMMA StaysKeeps ==
  ASSUME NEW q \in Processes, Stays(q), Prepared(q), Told(q), Tells(q)
  PROVE  Prepared(q)' /\ Told(q)' /\ Tells(q)'
BY DEF Stays, Prepared, Told, Tells, NeedsDestination

LEMMA OneMoves ==
  ASSUME CommandInv, NEW p \in Processes,
         TypeOK', Stored(files)', Stored(settled)',
         \A q \in Processes \ {p} : Stays(q),
         Prepared(p)', Told(p)', Tells(p)'
  PROVE  CommandInv'
BY StaysKeeps DEF CommandInv

(* What a step of the authorization store leaves alone. *)
LEMMA StoredUntouched ==
  ASSUME CommandInv, UNCHANGED files, UNCHANGED settled
  PROVE  Stored(files)' /\ Stored(settled)'
BY DEF CommandInv, Stored

LEMMA StoredReplaced ==
  ASSUME CommandInv, NEW path \in {"read_only", "key"}, NEW content, Replace(path, content)
  PROVE  Stored(files)' /\ Stored(settled)'
BY ConfigurationAssumption DEF CommandInv, TypeOK, FilesOK, Stored, Replace, Modes, Paths

(* A step that ends the process with an exit code. *)
LEMMA Exits ==
  ASSUME CommandInv, NEW p \in Processes, pc[p] \notin {"start"} \union Ended,
         NEW code \in ExitCodes, Exit(p, code),
         UNCHANGED <<untouched, files, arguments, target, published>>,
         chmodFailed' \in {chmodFailed, chmodFailed \union {p}},
         code = 0 => IF target[p] # None THEN p \in published ELSE arguments[p].bounded,
         code # 0 /\ p \in published => arguments[p].command = "repair --apply" \/ p \in chmodFailed'
  PROVE  CommandInv'
<1> USE DEF Exit, Go, untouched, history
<1>1. TypeOK'
  BY DEF CommandInv, TypeOK, Steps
<1>2. \A q \in Processes \ {p} : Stays(q)
  BY DEF CommandInv, TypeOK, Stays
<1>3. pc'[p] = "exited" /\ exit'[p] = code
  BY DEF CommandInv, TypeOK
<1>4. Prepared(p)'
  BY <1>3 DEF CommandInv, Prepared, Holding, Session, Ended
<1>5. Told(p)'
  BY <1>3 DEF Told, Writing, Ended
<1>6. Tells(p)'
  BY <1>3 DEF Tells
<1> QED
  BY <1>1, <1>2, <1>4, <1>5, <1>6, OneMoves, StoredUntouched

LEMMA FailureExits ==
  ASSUME CommandInv, NEW p \in Processes, pc[p] \notin {"start"} \union Ended,
         NEW code \in ExitCodes \ {0}, Exit(p, code), p \notin published,
         UNCHANGED <<untouched, files, arguments, target, published, chmodFailed>>
  PROVE  CommandInv'
BY Exits

LEMMA Failures == {2, 3, 5, 6, 70} \subseteq ExitCodes \ {0}
BY DEF ExitCodes

LEMMA NoneIsNoCode == None # 0 /\ None \notin ExitCodes
BY ConfigurationAssumption DEF ExitCodes

(* A step of the command line that only goes on. *)
LEMMA GoesOn ==
  ASSUME CommandInv, NEW p \in Processes, pc[p] \notin {"chmod"} \union Ended,
         NEW step \in Steps \ ({"chmod"} \union Ended), Continue(p, step),
         UNCHANGED <<untouched, files, arguments, target, published, chmodFailed>>,
         pc[p] # "start",
         step \in Holding => pc[p] \in Holding,
         step \in Session => ~NeedsDestination(p),
         step \in Writing => target[p] \in Destinations
  PROVE  CommandInv'
<1> USE DEF Continue, Go, untouched, history
<1>1. TypeOK'
  BY DEF CommandInv, TypeOK
<1>2. \A q \in Processes \ {p} : Stays(q)
  BY DEF CommandInv, TypeOK, Stays
<1>3. pc'[p] = step
  BY DEF CommandInv, TypeOK
<1>4. Prepared(p)'
  BY <1>3 DEF CommandInv, Prepared, NeedsDestination
<1>5. Told(p)' /\ Tells(p)'
  BY <1>3 DEF CommandInv, Told, Tells, Ended
<1> QED
  BY <1>1, <1>2, <1>4, <1>5, OneMoves, StoredUntouched

(* A step of the store that changes no file and no credentials. *)
LEMMA Moves ==
  ASSUME CommandInv, NEW p \in Processes,
         NEW step \in Steps \ ({"start"} \union Writing \union Ended),
         pc[p] \notin {"start"} \union Writing \union Ended,
         Go(p, step), UNCHANGED <<store, mode, cred, forgotten, overtaken, losses, cliVars>>,
         name' \in [Processes -> Processes \union {Before, None}],
         error' \in [Processes -> ErrorCodes \union {None}],
         raced' \in BOOLEAN, found' \subseteq Processes,
         step \in Holding => pc[p] \in Holding,
         step \in Session => pc[p] \in Session
  PROVE  CommandInv'
<1> USE DEF Go, store, cliVars
<1>1. TypeOK'
  BY DEF CommandInv, TypeOK
<1>2. \A q \in Processes \ {p} : Stays(q)
  BY DEF CommandInv, TypeOK, Stays
<1>3. pc'[p] = step
  BY DEF CommandInv, TypeOK
<1>4. Prepared(p)'
  BY <1>3 DEF CommandInv, Prepared, NeedsDestination
<1>5. Told(p)' /\ Tells(p)'
  BY <1>3 DEF CommandInv, Told, Tells, Ended, Writing
<1> QED
  BY <1>1, <1>2, <1>4, <1>5, OneMoves, StoredUntouched

LEMMA RaiseMoves ==
  ASSUME CommandInv, NEW p \in Processes, NEW code \in ErrorCodes, Raise(p, code),
         pc[p] \notin {"start"} \union Writing \union Ended,
         UNCHANGED <<store, mode, cred, name, history, cliVars>>
  PROVE  CommandInv'
<1>1. error' \in [Processes -> ErrorCodes \union {None}]
  BY DEF Raise, CommandInv, TypeOK
<1>2. /\ "failed" \in Steps \ ({"start"} \union Writing \union Ended)
      /\ "failed" \notin Holding /\ "failed" \notin Session
  BY DEF Steps, Writing, Ended, Holding, Session
<1>3. /\ name' \in [Processes -> Processes \union {Before, None}]
      /\ raced' \in BOOLEAN /\ found' \subseteq Processes
  BY DEF history, CommandInv, TypeOK
<1> QED
  BY <1>1, <1>2, <1>3, Moves DEF Raise, history

LEMMA GoMoves ==
  ASSUME CommandInv, NEW p \in Processes,
         NEW step \in Steps \ ({"start"} \union Writing \union Ended), Go(p, step),
         pc[p] \notin {"start"} \union Writing \union Ended,
         UNCHANGED <<store, mode, cred, name, error, forgotten, overtaken, losses, cliVars>>,
         raced' \in BOOLEAN, found' \subseteq Processes,
         step \in Holding => pc[p] \in Holding,
         step \in Session => pc[p] \in Session
  PROVE  CommandInv'
<1>1. /\ name' \in [Processes -> Processes \union {Before, None}]
      /\ error' \in [Processes -> ErrorCodes \union {None}]
  BY DEF CommandInv, TypeOK
<1> QED
  BY <1>1, Moves

-----------------------------------------------------------------------------
(* The steps of the authorization store. *)

LEMMA LookKeeps ==
  ASSUME CommandInv, NEW p \in Processes, Look(p), UNCHANGED cliVars
  PROVE  CommandInv'
<1>1. raced' \in BOOLEAN /\ found' \subseteq Processes
  BY DEF Look, CommandInv, TypeOK
<1>2. PICK step \in {"load", "consent"} : Go(p, step)
  BY DEF Look
<1> QED
  BY <1>1, <1>2, GoMoves DEF Look, Steps, Writing, Ended, Holding, Session

LEMMA FailuresKeep ==
  ASSUME CommandInv, NEW p \in Processes, UNCHANGED cliVars,
         \/ LoadFails(p) \/ RefreshFails(p) \/ ConsentFails(p)
         \/ PersistFails(p) \/ CreateKeyFails(p) \/ UnlinkFails(p)
  PROVE  CommandInv'
<1> USE RaiseMoves DEF Writing, Ended, ErrorCodes, StorageFailure
<1>1. CASE LoadFails(p)
  BY <1>1 DEF LoadFails
<1>2. CASE RefreshFails(p)
  BY <1>2 DEF RefreshFails
<1>3. CASE ConsentFails(p)
  BY <1>3 DEF ConsentFails
<1>4. CASE PersistFails(p)
  BY <1>4 DEF PersistFails
<1>5. CASE CreateKeyFails(p)
  BY <1>5 DEF CreateKeyFails
<1>6. CASE UnlinkFails(p)
  BY <1>6 DEF UnlinkFails
<1> QED
  BY <1>1, <1>2, <1>3, <1>4, <1>5, <1>6

LEMMA LoadKeeps ==
  ASSUME CommandInv, NEW p \in Processes, Load(p), UNCHANGED cliVars
  PROVE  CommandInv'
<1> USE DEF Load, Raise, Go, store, history, cliVars, ScopesFit
<1>1. pc[p] = "load" /\ mode[p] = "read_only"
  BY DEF CommandInv, Prepared
<1>2. files[mode[p]] \in Credentials
  BY <1>1 DEF CommandInv, TypeOK, FilesOK, Modes
<1>3. cred'[p] = files[mode[p]]
  BY DEF CommandInv, TypeOK
<1>4. /\ pc'[p] \in {"failed", "authorized", "refresh"}
      /\ pc'[p] \in Holding => cred'[p].scope = "read_only"
  BY <1>1 DEF CommandInv, TypeOK, Holding
<1>5. TypeOK'
  BY <1>2 DEF CommandInv, TypeOK, Steps, ErrorCodes
<1>6. \A q \in Processes \ {p} : Stays(q)
  BY DEF CommandInv, TypeOK, Stays
<1>7. Prepared(p)'
  BY <1>1, <1>2, <1>3, <1>4 DEF CommandInv, Prepared, NeedsDestination, Session
<1>8. Told(p)' /\ Tells(p)'
  BY <1>4 DEF CommandInv, Told, Tells, Writing, Ended
<1> QED
  BY <1>5, <1>6, <1>7, <1>8, OneMoves, StoredUntouched

(* Refresh and Consent end alike: with credentials of some scope, which    *)
(* are used only when it is the one asked for.                             *)
LEMMA GrantedKeeps ==
  ASSUME CommandInv, NEW p \in Processes, NEW c \in Credentials,
         pc[p] \in {"refresh", "consent"},
         cred' = [cred EXCEPT ![p] = c],
         IF ScopesFit(c, mode[p]) THEN Go(p, "persist") /\ UNCHANGED error
                                  ELSE Raise(p, "token_scope_mismatch"),
         UNCHANGED <<store, mode, name, history, cliVars>>
  PROVE  CommandInv'
<1> USE DEF Raise, Go, store, history, cliVars, ScopesFit
<1>1. cred'[p] = c /\ mode[p] = "read_only"
  BY DEF CommandInv, TypeOK, Prepared
<1>2. /\ pc'[p] \in {"failed", "persist"}
      /\ pc'[p] = "persist" => c.scope = "read_only"
  BY <1>1 DEF CommandInv, TypeOK
<1>3. TypeOK'
  BY DEF CommandInv, TypeOK, Steps, ErrorCodes
<1>4. \A q \in Processes \ {p} : Stays(q)
  BY DEF CommandInv, TypeOK, Stays
<1>5. Prepared(p)'
  BY <1>1, <1>2 DEF CommandInv, Prepared, NeedsDestination, Session, Holding
<1>6. Told(p)' /\ Tells(p)'
  BY <1>2 DEF CommandInv, Told, Tells, Writing, Ended
<1> QED
  BY <1>3, <1>4, <1>5, <1>6, OneMoves, StoredUntouched

LEMMA RefreshKeeps ==
  ASSUME CommandInv, NEW p \in Processes, NEW scope \in Scopes, Refresh(p, scope),
         UNCHANGED cliVars
  PROVE  CommandInv'
<1>1. cred[p] \in Credentials
  BY DEF Refresh, CommandInv, Prepared, Holding
<1> DEFINE c == [cred[p] EXCEPT !.scope = scope]
<1>2. c \in Credentials
  BY <1>1 DEF Credentials
<1>3. cred' = [cred EXCEPT ![p] = c] /\ cred'[p] = c
  BY DEF Refresh, CommandInv, TypeOK
<1> QED
  <2> HIDE DEF c
  <2> QED
    BY <1>2, <1>3, GrantedKeeps DEF Refresh

LEMMA ConsentKeeps ==
  ASSUME CommandInv, NEW p \in Processes, NEW scope \in Scopes, Consent(p, scope),
         UNCHANGED cliVars
  PROVE  CommandInv'
<1> DEFINE c == [scope |-> scope, grant |-> p]
<1>1. c \in Credentials
  BY DEF Credentials
<1>2. cred' = [cred EXCEPT ![p] = c] /\ cred'[p] = c
  BY DEF Consent, CommandInv, TypeOK
<1> QED
  <2> HIDE DEF c
  <2> QED
    BY <1>1, <1>2, GrantedKeeps DEF Consent

(* Replacing one of the two files of the store by a legal content. *)
LEMMA FilesReplaced ==
  ASSUME FilesOK(files), NEW path \in {"read_only", "key"}, NEW content,
         path = "read_only" => content \in Credentials \union {Absent, Unreadable},
         path = "key" => content \in Processes \union {Before, Absent, Unreadable},
         Replace(path, content)
  PROVE  FilesOK(files)'
BY ConfigurationAssumption DEF FilesOK, Replace, Modes, Paths

LEMMA PersistKeeps ==
  ASSUME CommandInv, NEW p \in Processes, Persist(p), UNCHANGED cliVars
  PROVE  CommandInv'
<1>1. mode[p] = "read_only" /\ cred[p] \in Credentials /\ cred[p].scope = "read_only"
  BY DEF CommandInv, Prepared, Persist, Holding
<1>2. FilesOK(files)'
  BY <1>1, FilesReplaced DEF CommandInv, TypeOK, Persist
<1>3. Stored(files)' /\ Stored(settled)'
  BY <1>1, StoredReplaced DEF Persist
<1> USE DEF Persist, Raise, StorageFailure, Go, Replace, history, cliVars
<1>4. TypeOK'
  BY <1>2 DEF CommandInv, TypeOK, Steps, ErrorCodes
<1>5. \A q \in Processes \ {p} : Stays(q)
  BY DEF CommandInv, TypeOK, Stays
<1>6. Prepared(p)'
  BY DEF CommandInv, TypeOK, Prepared, NeedsDestination, Holding, Session
<1>7. Told(p)' /\ Tells(p)'
  BY DEF CommandInv, TypeOK, Told, Tells, Writing, Ended
<1> QED
  BY <1>3, <1>4, <1>5, <1>6, <1>7, OneMoves

LEMMA LookForKeyKeeps ==
  ASSUME CommandInv, NEW p \in Processes, LookForKey(p), UNCHANGED cliVars
  PROVE  CommandInv'
<1>1. raced' \in BOOLEAN /\ found' \subseteq Processes
  BY Zenon DEF LookForKey, CommandInv, TypeOK
<1> QED
  BY <1>1, GoMoves DEF LookForKey, Steps, Writing, Ended, Holding, Session

LEMMA ReadKeyKeeps ==
  ASSUME CommandInv, NEW p \in Processes, ReadKey(p), UNCHANGED cliVars
  PROVE  CommandInv'
<1>1. CASE files["key"] \in {Absent, Unreadable}
  BY <1>1, RaiseMoves DEF ReadKey, ErrorCodes, Writing, Ended
<1>2. CASE files["key"] \notin {Absent, Unreadable}
  <2>1. files["key"] \in Processes \union {Before}
    BY <1>2 DEF CommandInv, TypeOK, FilesOK
  <2>2. /\ name' \in [Processes -> Processes \union {Before, None}]
        /\ error' \in [Processes -> ErrorCodes \union {None}]
        /\ raced' \in BOOLEAN /\ found' \subseteq Processes
    BY <1>2, <2>1 DEF ReadKey, history, CommandInv, TypeOK
  <2> QED
    BY <1>2, <2>2, Moves DEF ReadKey, history, Steps, Writing, Ended, Holding, Session
<1> QED
  BY <1>1, <1>2

LEMMA CreateKeyKeeps ==
  ASSUME CommandInv, NEW p \in Processes, CreateKey(p), UNCHANGED cliVars
  PROVE  CommandInv'
<1>1. FilesOK(files)'
  BY FilesReplaced DEF CommandInv, TypeOK, CreateKey
<1>2. Stored(files)' /\ Stored(settled)'
  BY StoredReplaced DEF CreateKey
<1> USE DEF CreateKey, Raise, StorageFailure, Go, Replace, history, cliVars
<1>3. TypeOK'
  <2>1. name' \in [Processes -> Processes \union {Before, None}]
    BY DEF CommandInv, TypeOK
  <2>2. /\ pc' \in [Processes -> Steps]
        /\ error' \in [Processes -> ErrorCodes \union {None}]
    BY DEF CommandInv, TypeOK, Steps, ErrorCodes
  <2> QED
    BY <1>1, <2>1, <2>2 DEF CommandInv, TypeOK
<1>4. \A q \in Processes \ {p} : Stays(q)
  BY DEF CommandInv, TypeOK, Stays
<1>5. Prepared(p)'
  BY DEF CommandInv, TypeOK, Prepared, NeedsDestination, Holding, Session
<1>6. Told(p)' /\ Tells(p)'
  BY DEF CommandInv, TypeOK, Told, Tells, Writing, Ended
<1> QED
  BY <1>2, <1>3, <1>4, <1>5, <1>6, OneMoves

LEMMA ResetLookKeeps ==
  ASSUME CommandInv, NEW p \in Processes, ResetLook(p), UNCHANGED cliVars
  PROVE  CommandInv'
<1>1. raced' \in BOOLEAN /\ found' \subseteq Processes
  BY DEF ResetLook, history, CommandInv, TypeOK
<1> QED
  BY <1>1, GoMoves DEF ResetLook, history, Steps, Writing, Ended, Holding, Session

LEMMA UnlinkKeeps ==
  ASSUME CommandInv, NEW p \in Processes, Unlink(p), UNCHANGED cliVars
  PROVE  CommandInv'
<1>1. mode[p] = "read_only"
  BY DEF CommandInv, Prepared
<1>2. FilesOK(files)' /\ Stored(files)' /\ Stored(settled)'
  <2>1. CASE files[mode[p]] = Absent
    <3>1. UNCHANGED files /\ UNCHANGED settled
      BY <2>1 DEF Unlink, store
    <3> QED
      BY <3>1, StoredUntouched DEF CommandInv, TypeOK, FilesOK
  <2>2. CASE files[mode[p]] # Absent
    BY <1>1, <2>2, FilesReplaced, StoredReplaced DEF Unlink, CommandInv, TypeOK
  <2> QED
    BY <2>1, <2>2
<1> USE DEF Unlink, Raise, StorageFailure, Go, Replace, store, cliVars
<1>3. TypeOK'
  <2>1. forgotten' \subseteq Processes \union {Before}
    BY DEF CommandInv, TypeOK
  <2>2. overtaken' \in BOOLEAN /\ raced' \in BOOLEAN
    BY Zenon DEF CommandInv, TypeOK
  <2>3. FilesOK(settled)'
    BY DEF CommandInv, TypeOK
  <2>4. /\ pc' \in [Processes -> Steps]
        /\ error' \in [Processes -> ErrorCodes \union {None}]
    BY DEF CommandInv, TypeOK, Steps, ErrorCodes
  <2> QED
    BY <1>2, <2>1, <2>2, <2>3, <2>4 DEF CommandInv, TypeOK
<1>4. \A q \in Processes \ {p} : Stays(q)
  BY DEF CommandInv, TypeOK, Stays
<1>5. Prepared(p)'
  BY DEF CommandInv, TypeOK, Prepared, NeedsDestination, Holding, Session
<1>6. Told(p)' /\ Tells(p)'
  BY DEF CommandInv, TypeOK, Told, Tells, Writing, Ended
<1> QED
  BY <1>2, <1>3, <1>4, <1>5, <1>6, OneMoves

-----------------------------------------------------------------------------
(* The steps of the command line. *)

LEMMA StartKeeps ==
  ASSUME CommandInv, NEW p \in Processes, NEW args \in Arguments, Start(p, args)
  PROVE  CommandInv'
<1> USE DEF Start, Continue, Exit, Go, untouched, history
<1>1. /\ pc'[p] \in {"reset", "config", "exited"} /\ arguments'[p] = args
      /\ exit'[p] # exit[p] => exit'[p] = 2 /\ pc'[p] = "exited"
  BY DEF CommandInv, TypeOK
<1>2. TypeOK'
  <2>1. /\ pc' \in [Processes -> Steps]
        /\ exit' \in [Processes -> ExitCodes \union {None}]
        /\ cred' \in [Processes -> Credentials \union {None}]
        /\ error' \in [Processes -> ErrorCodes \union {None}]
    BY DEF CommandInv, TypeOK, Steps, ExitCodes
  <2>2. arguments' \in [Processes -> Arguments \union {None}]
    BY DEF CommandInv, TypeOK
  <2> QED
    BY <2>1, <2>2 DEF CommandInv, TypeOK
<1>3. \A q \in Processes \ {p} : Stays(q)
  BY DEF CommandInv, TypeOK, Stays
<1>4. Prepared(p)'
  BY <1>1 DEF CommandInv, Prepared, Holding, Session
<1>5. Told(p)'
  BY <1>1 DEF CommandInv, Told, Writing, Ended
<1>6. Tells(p)'
  <2>1. exit[p] = None /\ p \notin published
    BY DEF CommandInv, Told, Ended
  <2>2. exit'[p] # 0
    BY <1>1, <2>1, NoneIsNoCode
  <2>3. p \notin published'
    BY <2>1
  <2> QED
    BY <2>2, <2>3 DEF Tells
<1> QED
  BY <1>2, <1>3, <1>4, <1>5, <1>6, OneMoves, StoredUntouched

LEMMA ConfigureKeeps ==
  ASSUME CommandInv, NEW p \in Processes, Configure(p)
  PROVE  CommandInv'
<1>1. p \notin published /\ exit[p] = None
  BY DEF CommandInv, Told, Configure, Ended
<1>2. CASE config.state # "usable"
  BY <1>1, <1>2, FailureExits, Failures DEF Configure, Ended
<1>3. CASE config.state = "usable"
  <2> DEFINE d == Destination(arguments[p])
  <2>1. arguments[p] \in Arguments
    BY DEF CommandInv, Prepared, Configure
  <2>2. d \in Destinations \union {None}
    BY <2>1, ConfigurationAssumption DEF CommandInv, TypeOK, Destination, Arguments
  <2> HIDE DEF d
  <2>3. target' = [target EXCEPT ![p] = d]
    BY <1>3 DEF Configure, d
  <2> USE <1>3 DEF Configure, Continue, Go, untouched, history
  <2>4. TypeOK'
    BY <2>2, <2>3 DEF CommandInv, TypeOK, Steps
  <2>5. \A q \in Processes \ {p} : Stays(q)
    BY <2>3 DEF CommandInv, TypeOK, Stays
  <2>6. pc'[p] = "dispatch"
    BY DEF CommandInv, TypeOK
  <2>7. Prepared(p)'
    BY <2>6 DEF CommandInv, Prepared, Holding, Session
  <2>8. Told(p)' /\ Tells(p)'
    <3>1. exit'[p] = None /\ p \notin published'
      BY <1>1
    <3> QED
      BY <3>1, <2>6, ConfigurationAssumption DEF Told, Tells, Writing, Ended, ExitCodes
  <2> QED
    BY <2>4, <2>5, <2>7, <2>8, OneMoves, StoredUntouched
<1> QED
  BY <1>2, <1>3

(* What is to be printed without a destination is printed by a process     *)
(* that is bounded, or refuses to write, which has a code of its own.      *)
LEMMA OutputKeeps ==
  ASSUME CommandInv, NEW p \in Processes, pc[p] \in {"dispatch", "named"}, Output(p),
         pc[p] = "dispatch" => arguments[p].command = "repair --apply",
         UNCHANGED <<untouched, files, arguments, target, published, chmodFailed>>
  PROVE  CommandInv'
<1>1. p \notin published
  BY DEF CommandInv, Told, Ended
<1>2. CASE target[p] # None
  <2>1. target[p] \in Destinations
    BY <1>2 DEF CommandInv, TypeOK
  <2> QED
    BY <1>2, <2>1, GoesOn DEF Output, Steps, Ended, Holding, Session
<1>3. CASE target[p] = None
  <2>1. PICK code \in {CodeOf(p), 70} : Exit(p, code)
    BY <1>3 DEF Output
  <2>2. CASE arguments[p].command = "repair --apply" \/ code = 70
    <3>1. CodeOf(p) \in {0, 5} /\ (arguments[p].command = "repair --apply" => CodeOf(p) = 5)
      BY DEF CodeOf
    <3>2. code \in {5, 70}
      BY <2>2, <3>1
    <3>3. code \in ExitCodes \ {0}
      BY <3>2, Failures
    <3> QED
      BY <1>1, <2>1, <3>3, FailureExits DEF Ended
  <2>3. CASE arguments[p].command # "repair --apply" /\ code # 70
    <3>1. code = 0 /\ code \in ExitCodes
      BY <2>3 DEF CodeOf, ExitCodes
    <3>2. pc[p] = "named" /\ ~NeedsDestination(p)
      BY <2>3 DEF CommandInv, Prepared, Session, Holding
    <3>3. arguments[p].bounded
      BY <1>3, <3>2 DEF NeedsDestination
    <3> QED
      BY <1>1, <1>3, <2>1, <3>1, <3>3, Exits DEF Ended
  <2> QED
    BY <2>2, <2>3
<1> QED
  BY <1>2, <1>3

LEMMA DispatchKeeps ==
  ASSUME CommandInv, NEW p \in Processes, Dispatch(p)
  PROVE  CommandInv'
<1>1. p \notin published
  BY DEF CommandInv, Told, Ended, Dispatch
<1>2. CASE NeedsDestination(p)
  BY <1>1, <1>2, FailureExits, Failures DEF Dispatch, Ended
<1>3. CASE ~NeedsDestination(p) /\ config.provider # "gmail"
  BY <1>1, <1>3, FailureExits, Failures DEF Dispatch, Ended
<1>4. CASE ~NeedsDestination(p) /\ config.provider = "gmail"
  BY <1>4, GoesOn DEF Dispatch, Steps, Ended, Holding, Writing
<1> QED
  BY <1>2, <1>3, <1>4

LEMMA ErrorsKeep ==
  ASSUME CommandInv, NEW p \in Processes, ReportError(p) \/ ReadFails(p)
  PROVE  CommandInv'
<1>1. p \notin published /\ pc[p] \notin {"start"} \union Ended
  BY DEF CommandInv, Told, Ended, ReportError, ReadFails
<1>2. CASE ReportError(p)
  BY <1>1, <1>2, FailureExits, Failures DEF ReportError
<1>3. CASE ReadFails(p)
  <2>1. PICK code \in {6, 70} : Exit(p, code)
    BY <1>3 DEF ReadFails
  <2>2. code \in ExitCodes \ {0}
    BY Failures
  <2> QED
    BY <1>1, <1>3, <2>1, <2>2, FailureExits DEF ReadFails
<1> QED
  BY <1>2, <1>3

LEMMA ReadProfileKeeps ==
  ASSUME CommandInv, NEW p \in Processes, ReadProfile(p)
  PROVE  CommandInv'
<1>1. ~NeedsDestination(p)
  BY DEF CommandInv, Prepared, Session, Holding, ReadProfile
<1> QED
  BY <1>1, GoesOn DEF ReadProfile, Steps, Ended, Holding, Writing

LEMMA WriteTemporaryKeeps ==
  ASSUME CommandInv, NEW p \in Processes, WriteTemporary(p)
  PROVE  CommandInv'
<1>1. target[p] \in Destinations
  BY DEF CommandInv, Told, Writing, WriteTemporary
<1> QED
  BY <1>1, GoesOn DEF WriteTemporary, Steps, Ended, Holding, Session

LEMMA OutputFailsKeeps ==
  ASSUME CommandInv, NEW p \in Processes, OutputFails(p)
  PROVE  CommandInv'
<1>1. p \in published => pc[p] = "chmod"
  BY DEF CommandInv, Told, Ended, OutputFails
<1>2. PICK code \in {3, 70} : Exit(p, code)
  BY DEF OutputFails
<1>3. /\ chmodFailed' \in {chmodFailed, chmodFailed \union {p}}
      /\ p \in published => p \in chmodFailed'
  BY <1>1 DEF OutputFails
<1>4. code \in ExitCodes /\ code # 0
  BY Failures
<1> QED
  BY <1>2, <1>3, <1>4, Exits DEF OutputFails, Ended

LEMMA FinishKeeps ==
  ASSUME CommandInv, NEW p \in Processes, Finish(p)
  PROVE  CommandInv'
<1>1. p \in published
  BY DEF CommandInv, Told, Finish
<1>2. target[p] # None
  BY ConfigurationAssumption DEF CommandInv, Told, Writing, Finish
<1>3. CodeOf(p) \in ExitCodes /\ (CodeOf(p) # 0 => arguments[p].command = "repair --apply")
  BY DEF CodeOf, ExitCodes
<1> QED
  BY <1>1, <1>2, <1>3, Exits DEF Finish, Ended

LEMMA ReplaceReportKeeps ==
  ASSUME CommandInv, NEW p \in Processes, ReplaceReport(p)
  PROVE  CommandInv'
<1> DEFINE d == target[p]
           r == Report(p, TRUE)
<1>1. d \in Destinations /\ d \notin Modes /\ d # "key" /\ d \in Paths
  BY ConfigurationAssumption DEF CommandInv, Told, Writing, ReplaceReport, Paths
<1>2. r \in Reports /\ r.whole
  BY DEF Report, Reports
<1>3. files' = [files EXCEPT ![d] = r] /\ UNCHANGED settled
  BY DEF ReplaceReport, Replace
<1> HIDE DEF d, r
<1>4. FilesOK(files)' /\ Stored(files)' /\ Stored(settled)'
  BY <1>1, <1>2, <1>3 DEF CommandInv, TypeOK, FilesOK, Stored, Modes
<1> USE DEF ReplaceReport, Continue, Go, untouched, history
<1>5. TypeOK'
  BY <1>3, <1>4 DEF CommandInv, TypeOK, Steps
<1>6. \A q \in Processes \ {p} : Stays(q)
  BY DEF CommandInv, TypeOK, Stays
<1>7. pc'[p] = "chmod" /\ p \in published' /\ target'[p] \in Destinations
  BY <1>1 DEF CommandInv, TypeOK, d
<1>8. exit'[p] = None
  BY DEF CommandInv, Told, Ended
<1>9. Prepared(p)'
  BY <1>7 DEF CommandInv, Prepared, Holding, Session
<1>10. Told(p)' /\ Tells(p)'
  BY <1>7, <1>8, ConfigurationAssumption DEF Told, Tells, ExitCodes
<1> QED
  BY <1>4, <1>5, <1>6, <1>9, <1>10, OneMoves

-----------------------------------------------------------------------------
(* The environment. *)

LEMMA KillKeeps ==
  ASSUME CommandInv, NEW p \in Processes, Kill(p)
  PROVE  CommandInv'
<1> USE DEF Kill, Go, untouched, history
<1>1. TypeOK'
  BY DEF CommandInv, TypeOK, Steps
<1>2. \A q \in Processes \ {p} : Stays(q)
  BY DEF CommandInv, TypeOK, Stays
<1>3. pc'[p] = "dead"
  BY DEF CommandInv, TypeOK
<1>4. Prepared(p)'
  BY <1>3 DEF CommandInv, Prepared, Holding, Session
<1>5. Told(p)'
  BY <1>3 DEF Told, Writing, Ended
<1>6. Tells(p)'
  BY DEF CommandInv, Tells
<1> QED
  BY <1>1, <1>2, <1>4, <1>5, <1>6, OneMoves, StoredUntouched

LEMMA PowerLossKeeps ==
  ASSUME CommandInv, NEW kept \in SUBSET Paths, PowerLoss(kept), UNCHANGED cliVars
  PROVE  CommandInv'
<1>1. /\ FilesOK(files)' /\ FilesOK(settled)' /\ Stored(files)' /\ Stored(settled)'
  BY DEF CommandInv, TypeOK, FilesOK, Stored, PowerLoss, Paths, Modes
<1>2. TypeOK'
  <2>1. losses' \in 0..MaxPowerLosses
    BY AuthorizationAssumption DEF CommandInv, TypeOK, PowerLoss
  <2>2. pc' \in [Processes -> Steps]
    BY DEF PowerLoss, Steps
  <2> QED
    BY <1>1, <2>1, <2>2 DEF CommandInv, TypeOK, PowerLoss, cliVars
<1>3. ASSUME NEW p \in Processes PROVE Prepared(p)' /\ Told(p)' /\ Tells(p)'
  <2>1. pc'[p] \in {"start", "dead"} /\ (pc'[p] = "start" <=> pc[p] = "start")
    BY DEF PowerLoss, Started
  <2> QED
    BY <2>1 DEF CommandInv, Prepared, Told, Tells, Holding, Session, Writing, Ended, PowerLoss,
                cliVars
<1> QED
  BY <1>1, <1>2, <1>3 DEF CommandInv

-----------------------------------------------------------------------------
LEMMA NextKeeps ==
  ASSUME CommandInv, [Next]_vars
  PROVE  CommandInv'
<1>1. ASSUME NEW p \in Processes, Proceed(p) PROVE CommandInv'
  BY <1>1, ConfigureKeeps, OutputKeeps, DispatchKeeps, ErrorsKeep, ReadProfileKeeps,
     OutputFailsKeeps, WriteTemporaryKeeps, ReplaceReportKeeps, FinishKeeps
  DEF Proceed, RefuseWrite, ReadMailbox
<1>2. ASSUME NEW p \in Processes, StoreStep(p) PROVE CommandInv'
  BY <1>2, LookKeeps, FailuresKeep, LoadKeeps, RefreshKeeps, ConsentKeeps, PersistKeeps,
     LookForKeyKeeps, ReadKeyKeeps, CreateKeyKeeps, ResetLookKeeps, UnlinkKeeps
  DEF StoreStep, Authorize, AccountSafeId, Reset
<1>3. CASE Environment
  BY <1>3, StartKeeps, KillKeeps, PowerLossKeeps DEF Environment
<1>4. CASE UNCHANGED vars
  BY <1>4 DEF vars, authVars, cliVars, history, CommandInv, TypeOK, Stored, Prepared, Told,
              Tells, NeedsDestination
<1> QED
  BY <1>1, <1>2, <1>3, <1>4 DEF Next

LEMMA CommandInvariant == Spec => []CommandInv
BY InitEstablishes, NextKeeps, PTL DEF Spec

(* What is read, printed and shared has the types TypeOK states, whatever  *)
(* the configuration and however the processes interleave.                 *)
THEOREM CommandTypeCorrect == Spec => []TypeOK
BY CommandInvariant, PTL DEF CommandInv

(* _atomic_private_output_write: the report at a destination is at all     *)
(* times one that a process wrote completely, or the one from before.      *)
THEOREM ReportsStayWhole == Spec => []ReportsAreWhole
<1>1. CommandInv => ReportsAreWhole
  BY DEF CommandInv, Stored, ReportsAreWhole
<1> QED
  BY <1>1, CommandInvariant, PTL

(* The exit code tells what became of the report (main, _write_output).    *)
THEOREM ExitCodesTell == Spec => []ExitTellsTheReport
<1>1. CommandInv => ExitTellsTheReport
  BY DEF CommandInv, Tells, ExitTellsTheReport
<1> QED
  BY <1>1, CommandInvariant, PTL

(* No command reads the mailbox with anything but credentials of exactly   *)
(* the read-only scope, or touches the authorization to write.             *)
THEOREM SessionsAreReadOnly == Spec => []ReadOnlySession
<1>1. CommandInv => ReadOnlySession
  BY DEF CommandInv, Prepared, Holding, Stored, ReadOnlySession
<1> QED
  BY <1>1, CommandInvariant, PTL

-----------------------------------------------------------------------------
(* The two files of the store, step by step: which steps can disturb what  *)
(* is said of the account key, and which what is said of the token.        *)

KeyUntouched ==
    /\ UNCHANGED <<name, raced, losses>> /\ files'["key"] = files["key"]
    /\ \A q \in Processes : pc'[q] = "create key" => pc[q] = "create key"

TokenUntouched ==
    /\ UNCHANGED <<forgotten, overtaken, losses>> /\ files'["read_only"] = files["read_only"]
    /\ \A q \in Processes :
          /\ pc'[q] \in {"refresh", "persist"} => pc[q] \in {"refresh", "persist"}
          /\ pc'[q] \in Holding => pc[q] \in Holding /\ cred'[q].grant = cred[q].grant
          /\ pc'[q] \in Early => pc[q] \in Early

LEMMA KeyUntouchedKeeps ==
  ASSUME NamesInv, KeyUntouched
  PROVE  NamesInv'
BY DEF NamesInv, OneKey, KeyUntouched

LEMMA TokenUntouchedKeeps ==
  ASSUME ForgottenInv, TokenUntouched
  PROVE  ForgottenInv'
BY DEF ForgottenInv, NotForgotten, Unused, TokenUntouched, Holding

LEMMA ShellTouchesNeither ==
  ASSUME CommandInv, NEW p \in Processes,
         Proceed(p) \/ Kill(p) \/ \E args \in Arguments : Start(p, args)
  PROVE  KeyUntouched /\ TokenUntouched
<1>1. /\ UNCHANGED <<name, history>>
      /\ files'["key"] = files["key"] /\ files'["read_only"] = files["read_only"]
  <2>1. ASSUME ReplaceReport(p) PROVE files'["key"] = files["key"] /\ files'["read_only"] = files["read_only"]
    BY <2>1, ConfigurationAssumption
    DEF ReplaceReport, Replace, CommandInv, TypeOK, FilesOK, Told, Writing, Modes, Paths
  <2>2. ReplaceReport(p) \/ UNCHANGED files
    BY DEF Proceed, Configure, RefuseWrite, Dispatch, ReportError, ReadFails, ReadProfile,
           ReadMailbox, OutputFails, WriteTemporary, Finish, Kill, Start
  <2>3. UNCHANGED <<name, history>>
    BY DEF Proceed, Configure, RefuseWrite, Dispatch, ReportError, ReadFails, ReadProfile,
           ReadMailbox, OutputFails, WriteTemporary, ReplaceReport, Finish, Kill, Start, untouched
  <2> QED
    BY <2>1, <2>2, <2>3
<1>2. \A q \in Processes \ {p} : pc'[q] = pc[q] /\ cred'[q] = cred[q]
  BY DEF Proceed, Configure, RefuseWrite, Dispatch, ReportError, ReadFails, ReadProfile,
         ReadMailbox, OutputFails, WriteTemporary, ReplaceReport, Finish, Kill, Start,
         Output, Continue, Exit, Go, CommandInv, TypeOK
<1>3. /\ pc'[p] \notin {"create key", "refresh", "persist", "consent", "start"}
      /\ pc'[p] \in Holding => pc[p] \in Holding /\ cred'[p] = cred[p]
      /\ pc'[p] \in Early => pc[p] \in Early
  BY DEF Proceed, Configure, RefuseWrite, Dispatch, ReportError, ReadFails, ReadProfile,
         ReadMailbox, OutputFails, WriteTemporary, ReplaceReport, Finish, Kill, Start,
         Output, Continue, Exit, Go, CommandInv, TypeOK, Holding, Early
<1> QED
  BY <1>1, <1>2, <1>3 DEF KeyUntouched, TokenUntouched, history

-----------------------------------------------------------------------------
(* The account key. *)

LEMMA AbsentIsNothing == Absent \notin Processes \union {Before} /\ Absent \notin Credentials
BY AuthorizationAssumption

LEMMA LookForKeyNames ==
  ASSUME CommandInv, NamesInv, NEW p \in Processes, LookForKey(p)
  PROVE  NamesInv'
<1>1. UNCHANGED <<files, name, losses>>
  BY DEF LookForKey, store
<1>2. raced => raced'
  BY DEF LookForKey
<1>3. SUFFICES ASSUME ~raced', OneKey PROVE OneKey'
  BY <1>1, <1>2 DEF NamesInv
<1>4. \A q \in Processes \ {p} : pc'[q] = pc[q]
  BY DEF LookForKey, Go, CommandInv, TypeOK
<1>5. pc'[p] = "create key" =>
          files["key"] = Absent /\ \A q \in Processes : pc[q] # "create key"
  BY <1>3 DEF LookForKey, Go, CommandInv, TypeOK
<1> QED
  BY <1>1, <1>3, <1>4, <1>5 DEF OneKey

LEMMA ReadKeyNames ==
  ASSUME CommandInv, NamesInv, NEW p \in Processes, ReadKey(p)
  PROVE  NamesInv'
<1>1. UNCHANGED <<files, losses, raced>>
  BY DEF ReadKey, store, history
<1>2. \A q \in Processes : pc'[q] = "create key" => pc[q] = "create key"
  BY DEF ReadKey, Raise, Go, CommandInv, TypeOK
<1>3. \A q \in Processes : name'[q] = name[q] \/ name'[q] = files["key"]
  BY DEF ReadKey, CommandInv, TypeOK
<1> QED
  BY <1>1, <1>2, <1>3 DEF NamesInv, OneKey

LEMMA CreateKeyNames ==
  ASSUME CommandInv, NamesInv, NEW p \in Processes, CreateKey(p)
  PROVE  NamesInv'
<1>1. UNCHANGED <<losses, raced>> /\ files'["key"] = p
  BY DEF CreateKey, Replace, history, CommandInv, TypeOK, FilesOK, Paths
<1>2. SUFFICES ASSUME OneKey PROVE OneKey'
  BY <1>1 DEF NamesInv
<1>3. \A q \in Processes : name[q] = None
  <2>1. files["key"] = Absent
    BY <1>2 DEF OneKey, CreateKey
  <2>2. ASSUME NEW q \in Processes, name[q] # None PROVE FALSE
    <3>1. name[q] \in Processes \union {Before}
      BY <2>2 DEF CommandInv, TypeOK
    <3>2. name[q] = Absent
      BY <1>2, <2>1, <2>2 DEF OneKey
    <3> QED
      BY <3>1, <3>2, AbsentIsNothing
  <2> QED
    BY <2>2
<1>4. \A q \in Processes : name'[q] # None => name'[q] = p
  BY <1>3 DEF CreateKey, CommandInv, TypeOK
<1>5. \A q \in Processes : pc'[q] # "create key"
  BY <1>2 DEF OneKey, CreateKey, StorageFailure, Raise, Go, CommandInv, TypeOK
<1> QED
  BY <1>1, <1>4, <1>5 DEF OneKey

(* No other step of the store makes a key, a name or an attempt at one. *)
LEMMA OthersLeaveTheKey ==
  ASSUME CommandInv, NEW p \in Processes, Authorize(p) \/ CreateKeyFails(p) \/ Reset(p)
  PROVE  KeyUntouched
<1>1. UNCHANGED <<name, raced, losses>>
  BY DEF Authorize, Look, LoadFails, Load, RefreshFails, Refresh, ConsentFails, Consent,
         PersistFails, Persist, CreateKeyFails, Reset, ResetLook, Unlink, UnlinkFails, history
<1>2. files'["key"] = files["key"]
  <2>1. mode[p] = "read_only"
    BY DEF CommandInv, Prepared
  <2>2. UNCHANGED files \/ Persist(p) \/ Unlink(p)
    BY DEF Authorize, Look, LoadFails, Load, RefreshFails, Refresh, ConsentFails, Consent,
           PersistFails, CreateKeyFails, Reset, ResetLook, UnlinkFails, store
  <2>3. UNCHANGED files \/ \E content : Replace("read_only", content)
    BY <2>1, <2>2 DEF Persist, Unlink, store
  <2> QED
    BY <2>3 DEF Replace, CommandInv, TypeOK, FilesOK, Paths
<1>3. \A q \in Processes : pc'[q] = "create key" => pc[q] = "create key"
  BY DEF Authorize, Look, LoadFails, Load, RefreshFails, Refresh, ConsentFails, Consent,
         PersistFails, Persist, CreateKeyFails, Reset, ResetLook, Unlink, UnlinkFails,
         StorageFailure, Raise, Go, CommandInv, TypeOK
<1> QED
  BY <1>1, <1>2, <1>3 DEF KeyUntouched

LEMMA PowerLossCounts ==
  ASSUME CommandInv, NEW kept \in SUBSET Paths, PowerLoss(kept)
  PROVE  losses' > 0
BY AuthorizationAssumption DEF PowerLoss, CommandInv, TypeOK

LEMMA NextKeepsNames ==
  ASSUME CommandInv, NamesInv, [Next]_vars
  PROVE  NamesInv'
<1>1. ASSUME NEW p \in Processes, Proceed(p) \/ Kill(p) \/ \E args \in Arguments : Start(p, args)
      PROVE  NamesInv'
  BY <1>1, ShellTouchesNeither, KeyUntouchedKeeps
<1>2. ASSUME NEW p \in Processes, StoreStep(p) PROVE NamesInv'
  BY <1>2, LookForKeyNames, ReadKeyNames, CreateKeyNames, OthersLeaveTheKey, KeyUntouchedKeeps
  DEF StoreStep, AccountSafeId
<1>3. ASSUME NEW kept \in SUBSET Paths, PowerLoss(kept) PROVE NamesInv'
  BY <1>3, PowerLossCounts DEF NamesInv
<1>4. CASE UNCHANGED vars
  BY <1>4 DEF vars, authVars, history, NamesInv, OneKey
<1> QED
  BY <1>1, <1>2, <1>3, <1>4 DEF Next, Environment

LEMMA NamesInvariant == Spec => []NamesInv
<1>1. Init => NamesInv
  BY DEF Init, NamesInv, OneKey
<1> QED
  BY <1>1, CommandInvariant, NextKeepsNames, PTL DEF Spec

(* account_safe_id: two processes give the account different names only    *)
(* when both found no key at once, or a power loss took the key away.      *)
THEOREM NamesDifferOnlyByRace == Spec => []NamesDifferOnlyAfterRace
<1>1. NamesInv => NamesDifferOnlyAfterRace
  BY DEF NamesInv, OneKey, NamesDifferOnlyAfterRace
<1> QED
  BY <1>1, NamesInvariant, PTL

-----------------------------------------------------------------------------
(* The token. *)

LEMMA LoadForgets ==
  ASSUME CommandInv, ForgottenInv, NEW p \in Processes, Load(p)
  PROVE  ForgottenInv'
<1>1. UNCHANGED <<files, forgotten, overtaken, losses>>
  BY DEF Load, store, history
<1>2. SUFFICES ASSUME NotForgotten PROVE NotForgotten'
  BY <1>1 DEF ForgottenInv
<1>3. files["read_only"] \in Credentials /\ cred'[p] = files["read_only"]
  BY DEF Load, CommandInv, Prepared, TypeOK, FilesOK, Modes
<1>4. \A q \in Processes \ {p} : pc'[q] = pc[q] /\ cred'[q] = cred[q]
  BY DEF Load, Raise, Go, CommandInv, TypeOK
<1>5. pc'[p] \notin Early
  BY DEF Load, Raise, Go, CommandInv, TypeOK, Early
<1> QED
  BY <1>1, <1>2, <1>3, <1>4, <1>5 DEF NotForgotten, Unused

LEMMA ConsentForgets ==
  ASSUME CommandInv, ForgottenInv, NEW p \in Processes, NEW scope \in Scopes, Consent(p, scope)
  PROVE  ForgottenInv'
<1>1. UNCHANGED <<files, forgotten, overtaken, losses>>
  BY DEF Consent, store, history
<1>2. SUFFICES ASSUME NotForgotten PROVE NotForgotten'
  BY <1>1 DEF ForgottenInv
<1>3. cred'[p].grant = p
  BY DEF Consent, CommandInv, TypeOK
<1>4. \A q \in Processes \ {p} : pc'[q] = pc[q] /\ cred'[q] = cred[q]
  BY DEF Consent, Raise, Go, CommandInv, TypeOK
<1>5. pc'[p] \notin Early /\ p \notin forgotten
  BY <1>2 DEF Consent, Raise, Go, CommandInv, TypeOK, Early, NotForgotten, Unused
<1> QED
  BY <1>1, <1>2, <1>3, <1>4, <1>5 DEF NotForgotten, Unused

LEMMA PersistForgets ==
  ASSUME CommandInv, ForgottenInv, NEW p \in Processes, Persist(p)
  PROVE  ForgottenInv'
<1>1. UNCHANGED <<cred, forgotten, overtaken, losses>>
  BY DEF Persist, history
<1>2. SUFFICES ASSUME NotForgotten PROVE NotForgotten'
  BY <1>1 DEF ForgottenInv
<1>3. files'["read_only"] = cred[p]
  BY DEF Persist, Replace, CommandInv, Prepared, TypeOK, FilesOK, Paths, Modes
<1>4. \A q \in Processes \ {p} : pc'[q] = pc[q]
  BY DEF Persist, StorageFailure, Raise, Go, CommandInv, TypeOK
<1>5. pc[p] = "persist" /\ pc'[p] \in {"authorized", "failed"}
  BY DEF Persist, StorageFailure, Raise, Go, CommandInv, TypeOK
<1> QED
  BY <1>1, <1>2, <1>3, <1>4, <1>5 DEF NotForgotten, Unused, Holding, Early

LEMMA UnlinkForgets ==
  ASSUME CommandInv, ForgottenInv, NEW p \in Processes, Unlink(p)
  PROVE  ForgottenInv'
<1>1. UNCHANGED <<cred, losses>> /\ mode[p] = "read_only"
  BY DEF Unlink, CommandInv, Prepared
<1>2. /\ \A q \in Processes \ {p} : pc'[q] = pc[q]
      /\ pc'[p] \in {"reset done", "failed"}
  BY DEF Unlink, StorageFailure, Raise, Go, CommandInv, TypeOK
<1>3. CASE files["read_only"] = Absent
  <2>1. TokenUntouched
    BY <1>1, <1>2, <1>3 DEF TokenUntouched, Unlink, store, Holding, Early
  <2> QED
    BY <2>1, TokenUntouchedKeeps
<1>4. CASE files["read_only"] # Absent
  <2>1. overtaken => overtaken'
    BY <1>1, <1>4 DEF Unlink
  <2>2. SUFFICES ASSUME ~overtaken', NotForgotten PROVE NotForgotten'
    BY <1>1, <2>1 DEF ForgottenInv
  <2>3. \A q \in Processes : pc[q] \notin {"refresh", "persist"}
    BY <1>1, <1>4, <2>2 DEF Unlink, Refreshing, CommandInv, Prepared
  <2>4. files'["read_only"] = Absent /\ Absent \notin Credentials
    BY <1>1, <1>4, AbsentIsNothing
    DEF Unlink, Replace, CommandInv, TypeOK, FilesOK, Paths, Modes
  <2>5. \A q \in Processes : q \in forgotten' =>
            \/ q \in forgotten
            \/ files["read_only"] \in Credentials /\ files["read_only"].grant = q
    BY <1>1, <1>4 DEF Unlink
  <2> QED
    BY <1>1, <1>2, <2>2, <2>3, <2>4, <2>5 DEF NotForgotten, Unused, Holding, Early
<1> QED
  BY <1>3, <1>4

(* No other step of the store changes the token or what is held of it. *)
LEMMA OthersLeaveTheToken ==
  ASSUME CommandInv, NEW p \in Processes,
         \/ Look(p) \/ LoadFails(p) \/ RefreshFails(p) \/ \E scope \in Scopes : Refresh(p, scope)
         \/ ConsentFails(p) \/ PersistFails(p) \/ AccountSafeId(p)
         \/ ResetLook(p) \/ UnlinkFails(p)
  PROVE  TokenUntouched
<1>1. UNCHANGED <<forgotten, overtaken, losses>>
  BY DEF Look, LoadFails, RefreshFails, Refresh, ConsentFails, PersistFails, AccountSafeId,
         LookForKey, ReadKey, CreateKey, CreateKeyFails, ResetLook, UnlinkFails, history
<1>2. files'["read_only"] = files["read_only"]
  <2>1. UNCHANGED files \/ Replace("key", p)
    BY DEF Look, LoadFails, RefreshFails, Refresh, ConsentFails, PersistFails, AccountSafeId,
           LookForKey, ReadKey, CreateKey, CreateKeyFails, ResetLook, UnlinkFails, store
  <2> QED
    BY <2>1 DEF Replace, CommandInv, TypeOK, FilesOK, Paths, Modes
<1>3. \A q \in Processes \ {p} : pc'[q] = pc[q] /\ cred'[q] = cred[q]
  BY DEF Look, LoadFails, RefreshFails, Refresh, ConsentFails, PersistFails, AccountSafeId,
         LookForKey, ReadKey, CreateKey, CreateKeyFails, ResetLook, UnlinkFails,
         StorageFailure, Raise, Go, CommandInv, TypeOK
<1>4. /\ pc'[p] \in {"refresh", "persist"} => pc[p] \in {"refresh", "persist"}
      /\ pc'[p] \in Holding => pc[p] \in Holding
      /\ pc'[p] \in Early => pc[p] \in Early
  BY DEF Look, LoadFails, RefreshFails, Refresh, ConsentFails, PersistFails, AccountSafeId,
         LookForKey, ReadKey, CreateKey, CreateKeyFails, ResetLook, UnlinkFails,
         StorageFailure, Raise, Go, CommandInv, TypeOK, Holding, Early
<1>5. pc[p] \in Holding => cred'[p].grant = cred[p].grant
  <2>1. ASSUME NEW scope \in Scopes, Refresh(p, scope) PROVE cred'[p].grant = cred[p].grant
    <3>1. cred[p] \in Credentials
      BY <2>1 DEF Refresh, CommandInv, Prepared, Holding
    <3>2. cred'[p] = [cred[p] EXCEPT !.scope = scope]
      BY <2>1 DEF Refresh, CommandInv, TypeOK
    <3> QED
      BY <3>1, <3>2 DEF Credentials
  <2>2. UNCHANGED cred \/ \E scope \in Scopes : Refresh(p, scope)
    BY DEF Look, LoadFails, RefreshFails, ConsentFails, PersistFails, AccountSafeId,
           LookForKey, ReadKey, CreateKey, CreateKeyFails, ResetLook, UnlinkFails
  <2> QED
    BY <2>1, <2>2
<1> QED
  BY <1>1, <1>2, <1>3, <1>4, <1>5 DEF TokenUntouched

LEMMA NextKeepsForgotten ==
  ASSUME CommandInv, ForgottenInv, [Next]_vars
  PROVE  ForgottenInv'
<1>1. ASSUME NEW p \in Processes, Proceed(p) \/ Kill(p) \/ \E args \in Arguments : Start(p, args)
      PROVE  ForgottenInv'
  BY <1>1, ShellTouchesNeither, TokenUntouchedKeeps
<1>2. ASSUME NEW p \in Processes, StoreStep(p) PROVE ForgottenInv'
  BY <1>2, LoadForgets, ConsentForgets, PersistForgets, UnlinkForgets, OthersLeaveTheToken,
     TokenUntouchedKeeps
  DEF StoreStep, Authorize, Reset
<1>3. ASSUME NEW kept \in SUBSET Paths, PowerLoss(kept) PROVE ForgottenInv'
  BY <1>3, PowerLossCounts DEF ForgottenInv
<1>4. CASE UNCHANGED vars
  BY <1>4 DEF vars, authVars, history, ForgottenInv, NotForgotten, Unused
<1> QED
  BY <1>1, <1>2, <1>3, <1>4 DEF Next, Environment

LEMMA ForgottenInvariant == Spec => []ForgottenInv
<1>1. Init => ForgottenInv
  <2> SUFFICES ASSUME Init PROVE NotForgotten
    BY DEF ForgottenInv
  <2>1. files["read_only"] \in Credentials => files["read_only"].grant = Before
    <3>1. files["read_only"] \in InitialTokens
      <4>1. "read_only" \in Paths
        BY DEF Paths, Modes
      <4> QED
        BY <4>1, Zenon DEF Init
    <3> QED
      BY <3>1, AuthorizationAssumption
  <2>2. \A p \in Processes : p # Before
    BY AuthorizationAssumption
  <2> QED
    BY <2>1, <2>2 DEF Init, NotForgotten, Unused, Holding
<1> QED
  BY <1>1, CommandInvariant, NextKeepsForgotten, PTL DEF Spec

(* reset: a token it removed comes back only by a process that was         *)
(* refreshing it meanwhile, or by a power loss.                            *)
THEOREM ForgottenTokensStayForgotten == Spec => []ForgottenTokensReturnOnlyByRefresh
<1>1. ForgottenInv => ForgottenTokensReturnOnlyByRefresh
  BY DEF ForgottenInv, NotForgotten, ForgottenTokensReturnOnlyByRefresh
<1> QED
  BY <1>1, ForgottenInvariant, PTL

-----------------------------------------------------------------------------
(* The consent. *)

(* A step that moves grants about and adds none. *)
NoNewGrant ==
    /\ UNCHANGED found
    /\ \A token \in {files'["read_only"], settled'["read_only"]} :
          \/ token \notin Credentials
          \/ token \in {files["read_only"], settled["read_only"]}
          \/ \E q \in Processes : token = cred[q] /\ cred[q] # None
    /\ \A q \in Processes :
          /\ cred'[q] # None => cred[q] # None /\ cred'[q].grant = cred[q].grant
          /\ pc'[q] \in Early => pc[q] \in Early
          /\ pc'[q] = "load" => pc[q] = "load"

LEMMA NoNewGrantKeeps ==
  ASSUME ConsentInv, NoNewGrant
  PROVE  ConsentInv'
<1> SUFFICES ASSUME NEW p \in Processes
             PROVE  /\ pc'[p] \in Early => p \notin found'
                    /\ pc'[p] = "load" => p \in found'
                    /\ pc'[p] \in Early \union {"load"} => cred'[p] = None
                    /\ pc'[p] \in Early \/ p \in found' => GrantsNothing(p)'
                    /\ cred'[p] # None /\ p \notin found' => cred'[p].grant = p
  BY DEF ConsentInv
<1>1. GrantsNothing(p) => GrantsNothing(p)'
  BY DEF GrantsNothing, InToken, NoNewGrant
<1> QED
  BY <1>1 DEF ConsentInv, NoNewGrant

LEMMA NoneIsNoCredential == None \notin Credentials
BY AuthorizationAssumption

LEMMA LookConsents ==
  ASSUME CommandInv, ConsentInv, NEW p \in Processes, Look(p)
  PROVE  ConsentInv'
<1>1. UNCHANGED <<files, settled, cred>>
  BY DEF Look, store
<1>2. PICK step \in {"load", "consent"} :
          /\ Go(p, step)
          /\ found' = IF step = "load" THEN found \union {p} ELSE found
  BY DEF Look
<1>3. pc'[p] = step /\ \A q \in Processes \ {p} : pc'[q] = pc[q]
  BY <1>2 DEF Go, CommandInv, TypeOK
<1>4. pc[p] \in Early /\ "consent" \in Early /\ "load" \notin Early
  BY DEF Look, Early
<1>5. \A q \in Processes : GrantsNothing(q)' = GrantsNothing(q)
  BY <1>1 DEF GrantsNothing, InToken
<1> QED
  BY <1>1, <1>2, <1>3, <1>4, <1>5 DEF ConsentInv

LEMMA LoadConsents ==
  ASSUME CommandInv, ConsentInv, NEW p \in Processes, Load(p)
  PROVE  ConsentInv'
<1>1. UNCHANGED <<files, settled, found>>
  BY DEF Load, store, history
<1>2. files["read_only"] \in Credentials /\ cred'[p] = files["read_only"]
  BY DEF Load, CommandInv, Prepared, TypeOK, FilesOK, Modes
<1>3. /\ \A q \in Processes \ {p} : pc'[q] = pc[q] /\ cred'[q] = cred[q]
      /\ pc'[p] \notin Early \union {"load"} /\ pc[p] = "load"
  BY DEF Load, Raise, Go, CommandInv, TypeOK, Early
<1>4. p \in found
  BY <1>3 DEF ConsentInv
<1>5. \A q \in Processes : GrantsNothing(q) => GrantsNothing(q)'
  BY <1>1, <1>2, <1>3 DEF GrantsNothing, InToken
<1> QED
  BY <1>1, <1>3, <1>4, <1>5 DEF ConsentInv

LEMMA ConsentConsents ==
  ASSUME CommandInv, ConsentInv, NEW p \in Processes, NEW scope \in Scopes, Consent(p, scope)
  PROVE  ConsentInv'
<1>1. UNCHANGED <<files, settled, found>>
  BY DEF Consent, store, history
<1>2. cred'[p].grant = p
  BY DEF Consent, CommandInv, TypeOK
<1>3. /\ \A q \in Processes \ {p} : pc'[q] = pc[q] /\ cred'[q] = cred[q]
      /\ pc'[p] \notin Early \union {"load"} /\ pc[p] \in Early
  BY DEF Consent, Raise, Go, CommandInv, TypeOK, Early
<1>4. p \notin found
  BY <1>3 DEF ConsentInv
<1>5. \A q \in Processes \ {p} : GrantsNothing(q) => GrantsNothing(q)'
  BY <1>1, <1>2, <1>3 DEF GrantsNothing, InToken
<1> QED
  BY <1>1, <1>2, <1>3, <1>4, <1>5 DEF ConsentInv

LEMMA PersistGrantsNothingNew ==
  ASSUME CommandInv, NEW p \in Processes, Persist(p)
  PROVE  NoNewGrant
<1>1. UNCHANGED <<cred, settled, found>>
  BY DEF Persist, Replace, history
<1>2. files'["read_only"] = cred[p] /\ cred[p] # None
  BY NoneIsNoCredential
  DEF Persist, Replace, CommandInv, Prepared, Holding, TypeOK, FilesOK, Paths, Modes
<1>3. /\ \A q \in Processes \ {p} : pc'[q] = pc[q]
      /\ pc'[p] \notin Early \union {"load"}
  BY DEF Persist, StorageFailure, Raise, Go, CommandInv, TypeOK, Early
<1> QED
  BY <1>1, <1>2, <1>3 DEF NoNewGrant

LEMMA UnlinkGrantsNothingNew ==
  ASSUME CommandInv, NEW p \in Processes, Unlink(p)
  PROVE  NoNewGrant
<1>1. UNCHANGED <<cred, settled, found>>
  BY DEF Unlink, Replace, store
<1>2. files'["read_only"] \in {files["read_only"], Absent}
  BY DEF Unlink, Replace, store, CommandInv, Prepared, TypeOK, FilesOK, Paths, Modes
<1>3. /\ \A q \in Processes \ {p} : pc'[q] = pc[q]
      /\ pc'[p] \notin Early \union {"load"}
  BY DEF Unlink, StorageFailure, Raise, Go, CommandInv, TypeOK, Early
<1> QED
  BY <1>1, <1>2, <1>3, AbsentIsNothing DEF NoNewGrant

LEMMA PowerLossGrantsNothingNew ==
  ASSUME CommandInv, NEW kept \in SUBSET Paths, PowerLoss(kept)
  PROVE  NoNewGrant
<1>1. UNCHANGED found /\ \A q \in Processes : cred'[q] = None
  BY DEF PowerLoss
<1>2. /\ files'["read_only"] \in {files["read_only"], settled["read_only"]}
      /\ settled' = files'
  BY DEF PowerLoss, Paths, Modes
<1>3. \A q \in Processes : pc'[q] = "dead" \/ (pc'[q] = "start" /\ pc[q] = "start")
  BY DEF PowerLoss, Started
<1> QED
  BY <1>1, <1>2, <1>3 DEF NoNewGrant, Early

(* No other step of the store adds to what is granted. *)
LEMMA OthersGrantNothingNew ==
  ASSUME CommandInv, NEW p \in Processes,
         \/ LoadFails(p) \/ RefreshFails(p) \/ \E scope \in Scopes : Refresh(p, scope)
         \/ ConsentFails(p) \/ PersistFails(p) \/ AccountSafeId(p)
         \/ ResetLook(p) \/ UnlinkFails(p)
  PROVE  NoNewGrant
<1>1. UNCHANGED <<settled, found>>
  BY DEF LoadFails, RefreshFails, Refresh, ConsentFails, PersistFails, AccountSafeId,
         LookForKey, ReadKey, CreateKey, CreateKeyFails, ResetLook, UnlinkFails, history, store,
         Replace
<1>2. files'["read_only"] = files["read_only"] /\ TokenUntouched
  BY OthersLeaveTheToken DEF TokenUntouched
<1>3. \A q \in Processes \ {p} : pc'[q] = pc[q] /\ cred'[q] = cred[q]
  BY DEF LoadFails, RefreshFails, Refresh, ConsentFails, PersistFails, AccountSafeId,
         LookForKey, ReadKey, CreateKey, CreateKeyFails, ResetLook, UnlinkFails,
         StorageFailure, Raise, Go, CommandInv, TypeOK
<1>4. pc'[p] \notin Early \union {"load"}
  BY DEF LoadFails, RefreshFails, Refresh, ConsentFails, PersistFails, AccountSafeId,
         LookForKey, ReadKey, CreateKey, CreateKeyFails, ResetLook, UnlinkFails,
         StorageFailure, Raise, Go, CommandInv, TypeOK, Early
<1>5. cred'[p] # None => cred[p] # None /\ cred'[p].grant = cred[p].grant
  <2>1. ASSUME NEW scope \in Scopes, Refresh(p, scope)
        PROVE  cred[p] # None /\ cred'[p].grant = cred[p].grant
    <3>1. cred[p] \in Credentials
      BY <2>1 DEF Refresh, CommandInv, Prepared, Holding
    <3>2. cred'[p] = [cred[p] EXCEPT !.scope = scope]
      BY <2>1 DEF Refresh, CommandInv, TypeOK
    <3> QED
      BY <3>1, <3>2, NoneIsNoCredential DEF Credentials
  <2>2. UNCHANGED cred \/ \E scope \in Scopes : Refresh(p, scope)
    BY DEF LoadFails, RefreshFails, ConsentFails, PersistFails, AccountSafeId,
           LookForKey, ReadKey, CreateKey, CreateKeyFails, ResetLook, UnlinkFails
  <2> QED
    BY <2>1, <2>2
<1> QED
  BY <1>1, <1>2, <1>3, <1>4, <1>5 DEF NoNewGrant

LEMMA ShellGrantsNothingNew ==
  ASSUME CommandInv, NEW p \in Processes,
         Proceed(p) \/ Kill(p) \/ \E args \in Arguments : Start(p, args)
  PROVE  NoNewGrant
<1>1. files'["read_only"] = files["read_only"] /\ UNCHANGED <<settled, found>>
  <2>1. UNCHANGED untouched \/ ReplaceReport(p)
    BY DEF Proceed, Configure, RefuseWrite, Dispatch, ReportError, ReadFails, ReadProfile,
           ReadMailbox, OutputFails, WriteTemporary, Finish, Kill, Start
  <2>2. UNCHANGED <<settled, found>>
    BY <2>1 DEF untouched, history, ReplaceReport
  <2> QED
    BY <2>2, ShellTouchesNeither DEF TokenUntouched
<1>2. \A q \in Processes : cred'[q] \in {None, cred[q]}
  BY DEF Proceed, Configure, RefuseWrite, Dispatch, ReportError, ReadFails, ReadProfile,
         ReadMailbox, OutputFails, WriteTemporary, ReplaceReport, Finish, Kill, Start,
         Output, Continue, Exit, CommandInv, TypeOK
<1>3. \A q \in Processes : pc'[q] # pc[q] => q = p /\ pc'[q] # "load"
  BY DEF Proceed, Configure, RefuseWrite, Dispatch, ReportError, ReadFails, ReadProfile,
         ReadMailbox, OutputFails, WriteTemporary, ReplaceReport, Finish, Kill, Start,
         Output, Continue, Exit, Go, CommandInv, TypeOK
<1>4. \A q \in Processes : pc'[q] \in Early => pc[q] \in Early
  BY ShellTouchesNeither DEF TokenUntouched
<1> QED
  BY <1>1, <1>2, <1>3, <1>4 DEF NoNewGrant

LEMMA NextKeepsConsent ==
  ASSUME CommandInv, ConsentInv, [Next]_vars
  PROVE  ConsentInv'
<1>1. ASSUME NEW p \in Processes, Proceed(p) \/ Kill(p) \/ \E args \in Arguments : Start(p, args)
      PROVE  ConsentInv'
  BY <1>1, ShellGrantsNothingNew, NoNewGrantKeeps
<1>2. ASSUME NEW p \in Processes, StoreStep(p) PROVE ConsentInv'
  BY <1>2, LookConsents, LoadConsents, ConsentConsents, PersistGrantsNothingNew,
     UnlinkGrantsNothingNew, OthersGrantNothingNew, NoNewGrantKeeps
  DEF StoreStep, Authorize, Reset
<1>3. ASSUME NEW kept \in SUBSET Paths, PowerLoss(kept) PROVE ConsentInv'
  BY <1>3, PowerLossGrantsNothingNew, NoNewGrantKeeps
<1>4. CASE UNCHANGED vars
  BY <1>4 DEF vars, authVars, history, ConsentInv, GrantsNothing, InToken
<1> QED
  BY <1>1, <1>2, <1>3, <1>4 DEF Next, Environment

(* authorize: a session rests on a consent of its own exactly when it      *)
(* found no token, whatever other processes and power losses do to the     *)
(* file between the look and the load.                                     *)
THEOREM NoUnwantedConsent == Spec => []ConsentOnlyWithoutToken
<1>1. Init => ConsentInv
  <2> SUFFICES ASSUME Init, NEW p \in Processes
               PROVE  p \notin found /\ pc[p] = "start" /\ cred[p] = None /\ GrantsNothing(p)
    BY DEF ConsentInv
  <2>1. ~ InToken(files["read_only"], p)
    <3>1. files["read_only"] \in InitialTokens
      <4>1. "read_only" \in Paths
        BY DEF Paths, Modes
      <4> QED
        BY <4>1, Zenon DEF Init
    <3> QED
      BY <3>1, AuthorizationAssumption DEF InToken
  <2> QED
    BY <2>1 DEF Init, GrantsNothing
<1>2. CommandInv /\ ConsentInv => ConsentOnlyWithoutToken
  BY DEF ConsentInv, GrantsNothing, ConsentOnlyWithoutToken
<1> QED
  BY <1>1, <1>2, CommandInvariant, NextKeepsConsent, PTL DEF Spec

(* authorize, in every command: the scope and the origin of what a session *)
(* rests on are right whatever other processes do to the token meanwhile.  *)
THEOREM SessionsAreAuthorized == Spec => []SessionIsAuthorized
<1>1. ReadOnlySession /\ ConsentOnlyWithoutToken => SessionIsAuthorized
  BY DEF SessionIsAuthorized
<1> QED
  BY <1>1, SessionsAreReadOnly, NoUnwantedConsent, PTL

=============================================================================
