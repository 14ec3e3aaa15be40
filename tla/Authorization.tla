--------------------------- MODULE Authorization ---------------------------
(***************************************************************************)
(* GmailAuthManager and GmailAccountSafeId (gmail_auth.py): processes that *)
(* share the token files and the account key of one local store.  Nothing  *)
(* locks the store.  A file is written to a temporary file, fsynced and    *)
(* renamed over the old one; the directory is not fsynced, so a power loss *)
(* may bring the old file back.  Time is abstracted: whether a credential  *)
(* has expired is settled when it is looked at.                            *)
(***************************************************************************)
EXTENDS Integers, FiniteSets

CONSTANTS
    Processes,
    Absent,         \* no such file
    Unreadable,     \* a file that cannot be used
    None,           \* no session, no name, no error
    Destinations,   \* paths of reports: see Command
    InitialTokens,  \* what the token files may hold at first
    InitialKeys,    \* what the key file may hold at first
    MaxPowerLosses  \* bound

Modes == {"read_only", "m1_write"}
Scopes == Modes \union {"other"}

(* The interactive consent a credential stems from: that of a process, or  *)
(* the one from before.                                                    *)
Before == "before"
Credentials == [scope : Scopes, grant : Processes \union {Before}]

Paths == Modes \union {"key"} \union Destinations

ASSUME AuthorizationAssumption ==
    /\ InitialTokens \subseteq [scope : Scopes, grant : {Before}] \union {Absent, Unreadable}
    /\ InitialKeys \subseteq {Before, Absent, Unreadable}
    /\ \A none \in {Absent, Unreadable, None} :
          none \notin Credentials /\ none \notin Processes \union {Before}
    /\ Before \notin Processes
    /\ MaxPowerLosses \in Nat

ErrorCodes == {"missing_client_config", "authorization_required", "token_load_failed",
               "token_scope_mismatch", "token_refresh_failed", "token_invalid",
               "oauth_flow_failed", "storage_failure", "account_id_key_invalid"}

VARIABLES
    files,       \* what each path holds, as the running system sees it
    settled,     \* what each path held when the machine started
    pc,          \* per process: the step it takes next
    mode,        \* per process: the authorization mode it asks for
    cred,        \* per process: credentials, None before they are loaded
    name,        \* per process: the key its account identifier is made with
    error,       \* per process: the code of the GmailAuthError raised
    forgotten,   \* history: the grants whose token a reset removed
    overtaken,   \* history: a process was refreshing when that happened
    raced,       \* history: a process found no key while another made one
    found,       \* history: the processes that found a token
    losses       \* history: power losses

store == <<files, settled>>
history == <<forgotten, overtaken, raced, found, losses>>
authVars == <<files, settled, pc, mode, cred, name, error, history>>

Go(p, step) == pc' = [pc EXCEPT ![p] = step]

Raise(p, code) ==
    /\ error' = [error EXCEPT ![p] = code]
    /\ Go(p, "failed")

-----------------------------------------------------------------------------
(* _atomic_private_write: the whole content goes to a temporary file; then *)
(* it replaces the old file in one step, and one more system call follows. *)
Replace(path, content) ==
    /\ files' = [files EXCEPT ![path] = content]
    /\ UNCHANGED settled

StorageFailure(p) == Raise(p, "storage_failure")

-----------------------------------------------------------------------------
(* authorize *)

Look(p) ==
    /\ pc[p] = "look"
    /\ IF files[mode[p]] # Absent
       THEN Go(p, "load") /\ found' = found \union {p}
       ELSE Go(p, "consent") /\ UNCHANGED found
    /\ UNCHANGED <<store, mode, cred, name, error, forgotten, overtaken, raced, losses>>

(* Mutant of LoadFails: a token that has gone leads to a new consent. *)
LoadOrConsent(p) ==
    /\ pc[p] = "load" /\ files[mode[p]] \in {Absent, Unreadable}
    /\ IF files[mode[p]] = Absent
       THEN Go(p, "consent") /\ UNCHANGED error
       ELSE Raise(p, "token_load_failed")
    /\ UNCHANGED <<store, mode, cred, name, history>>

(* load_token raises when the file has gone in the meantime. *)
LoadFails(p) ==
    /\ pc[p] = "load" /\ files[mode[p]] \in {Absent, Unreadable}
    /\ Raise(p, "token_load_failed")
    /\ UNCHANGED <<store, mode, cred, name, history>>

(* Mutant: any scope this program knows will do. *)
ScopesKnown(c, m) == c.scope \in Modes

ScopesFit(c, m) == c.scope = m

(* The credentials are valid, expired but refreshable, or neither. *)
Load(p) ==
    /\ pc[p] = "load" /\ files[mode[p]] \notin {Absent, Unreadable}
    /\ cred' = [cred EXCEPT ![p] = files[mode[p]]]
    /\ \/ /\ ~ScopesFit(cred'[p], mode[p])
          /\ Raise(p, "token_scope_mismatch")
       \/ /\ ScopesFit(cred'[p], mode[p])
          /\ \/ Go(p, "authorized") /\ UNCHANGED error
             \/ Go(p, "refresh") /\ UNCHANGED error
             \/ Raise(p, "token_invalid")
    /\ UNCHANGED <<store, mode, name, history>>

(* Mutant: a refresh that fails starts over. *)
RefreshAgain(p) ==
    /\ pc[p] = "refresh"
    /\ Go(p, "look")
    /\ UNCHANGED <<store, mode, cred, name, error, history>>

RefreshFails(p) ==
    /\ pc[p] = "refresh"
    /\ \E code \in {"token_refresh_failed", "token_invalid"} : Raise(p, code)
    /\ UNCHANGED <<store, mode, cred, name, history>>

(* The refreshed credentials keep their grant and get the scopes the       *)
(* server states.                                                          *)
Refresh(p, scope) ==
    /\ pc[p] = "refresh"
    /\ cred' = [cred EXCEPT ![p].scope = scope]
    /\ IF ScopesFit(cred'[p], mode[p])
       THEN Go(p, "persist") /\ UNCHANGED error
       ELSE Raise(p, "token_scope_mismatch")
    /\ UNCHANGED <<store, mode, name, history>>

(* Without a token file: the client configuration, then the browser.       *)
ConsentFails(p) ==
    /\ pc[p] = "consent"
    /\ \E code \in {"authorization_required", "missing_client_config", "storage_failure",
                    "oauth_flow_failed", "token_invalid"} : Raise(p, code)
    /\ UNCHANGED <<store, mode, cred, name, history>>

Consent(p, scope) ==
    /\ pc[p] = "consent"
    /\ cred' = [cred EXCEPT ![p] = [scope |-> scope, grant |-> p]]
    /\ IF ScopesFit(cred'[p], mode[p])
       THEN Go(p, "persist") /\ UNCHANGED error
       ELSE Raise(p, "token_scope_mismatch")
    /\ UNCHANGED <<store, mode, name, history>>

PersistFails(p) ==
    /\ pc[p] = "persist"
    /\ StorageFailure(p)
    /\ UNCHANGED <<store, mode, cred, name, history>>

(* The session is made from the credentials at hand, whatever the file     *)
(* holds by then; the last chmod may fail when the file is in place.       *)
Persist(p) ==
    /\ pc[p] = "persist"
    /\ Replace(mode[p], cred[p])
    /\ \/ Go(p, "authorized") /\ UNCHANGED error
       \/ StorageFailure(p)
    /\ UNCHANGED <<mode, cred, name, history>>

Authorize(p) ==
    \/ Look(p) \/ LoadFails(p) \/ Load(p)
    \/ RefreshFails(p) \/ \E scope \in Scopes : Refresh(p, scope)
    \/ ConsentFails(p) \/ \E scope \in Scopes : Consent(p, scope)
    \/ PersistFails(p) \/ Persist(p)

-----------------------------------------------------------------------------
(* account_safe_id: load the key or create it *)

(* Mutant: every process makes a key. *)
LookForNoKey(p) ==
    /\ pc[p] = "name"
    /\ Go(p, "create key")
    /\ UNCHANGED <<store, mode, cred, name, error, history>>

LookForKey(p) ==
    /\ pc[p] = "name"
    /\ Go(p, IF files["key"] # Absent THEN "read key" ELSE "create key")
    /\ raced' = (raced \/ (files["key"] = Absent /\ \E q \in Processes : pc[q] = "create key"))
    /\ UNCHANGED <<store, mode, cred, name, error, forgotten, overtaken, found, losses>>

ReadKey(p) ==
    /\ pc[p] = "read key"
    /\ IF files["key"] \in {Absent, Unreadable}
       THEN Raise(p, "account_id_key_invalid") /\ UNCHANGED name
       ELSE /\ name' = [name EXCEPT ![p] = files["key"]]
            /\ Go(p, "named") /\ UNCHANGED error
    /\ UNCHANGED <<store, mode, cred, history>>

(* The key a process makes is named after it. *)
CreateKey(p) ==
    /\ pc[p] = "create key"
    /\ Replace("key", p)
    /\ \/ Go(p, "named") /\ name' = [name EXCEPT ![p] = p] /\ UNCHANGED error
       \/ StorageFailure(p) /\ UNCHANGED name
    /\ UNCHANGED <<mode, cred, history>>

CreateKeyFails(p) ==
    /\ pc[p] = "create key"
    /\ StorageFailure(p)
    /\ UNCHANGED <<store, mode, cred, name, history>>

AccountSafeId(p) == LookForKey(p) \/ ReadKey(p) \/ CreateKey(p) \/ CreateKeyFails(p)

-----------------------------------------------------------------------------
(* reset: look, then unlink, which raises when the file has gone.          *)

ResetLook(p) ==
    /\ pc[p] = "reset"
    /\ Go(p, IF files[mode[p]] = Absent THEN "reset done" ELSE "unlink")
    /\ UNCHANGED <<store, mode, cred, name, error, history>>

Refreshing(p, path) == mode[p] = path /\ pc[p] \in {"refresh", "persist"}

Unlink(p) ==
    /\ pc[p] = "unlink"
    /\ IF files[mode[p]] = Absent
       THEN StorageFailure(p) /\ UNCHANGED <<store, forgotten, overtaken>>
       ELSE /\ Replace(mode[p], Absent)
            /\ forgotten' = forgotten \union
                   {g \in Processes \union {Before} : \E c \in Credentials :
                        c = files[mode[p]] /\ c.grant = g}
            /\ overtaken' = (overtaken \/ \E q \in Processes : Refreshing(q, mode[p]))
            /\ Go(p, "reset done") /\ UNCHANGED error
    /\ UNCHANGED <<mode, cred, name, raced, found, losses>>

UnlinkFails(p) ==
    /\ pc[p] = "unlink"
    /\ StorageFailure(p)
    /\ UNCHANGED <<store, mode, cred, name, history>>

Reset(p) == ResetLook(p) \/ Unlink(p) \/ UnlinkFails(p)

-----------------------------------------------------------------------------
(* The machine *)

Started == {p \in Processes : pc[p] # "start"}

(* No directory is ever fsynced: each file is kept or is again what it was *)
(* when the machine started.                                               *)
PowerLoss(kept) ==
    /\ losses < MaxPowerLosses
    /\ files' = [path \in Paths |-> IF path \in kept THEN files[path] ELSE settled[path]]
    /\ settled' = files'
    /\ pc' = [p \in Processes |-> IF p \in Started THEN "dead" ELSE "start"]
    /\ cred' = [p \in Processes |-> None] /\ error' = [p \in Processes |-> None]
    /\ losses' = losses + 1
    /\ UNCHANGED <<mode, name, forgotten, overtaken, raced, found>>
=============================================================================
