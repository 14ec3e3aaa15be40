------------------------- MODULE RetryingTransport -------------------------
(***************************************************************************)
(* GoogleGmailReadTransport._get_json (gmail_provider.py): one read with   *)
(* its retries.  The server is external: it answers a request with any of  *)
(* Responses; status 0 stands for a request that raised a network error.   *)
(***************************************************************************)
EXTENDS Integers, Sequences

CONSTANTS
    MaxAttempts,   \* GmailReadRetryPolicy.max_attempts
    BaseDelay      \* base_delay_seconds, in an integer unit

ASSUME RetryPolicy == MaxAttempts \in Nat \ {0} /\ BaseDelay \in Nat

(* 418 stands for every status without a case of its own; the body is a    *)
(* JSON object, one that names a rate-limit reason, or something else.     *)
Responses ==
    [status : {0, 200, 400, 401, 403, 404, 418, 429, 500, 502, 503, 504},
     body : {"object", "rate limit", "other"}]

VARIABLES
    attempt,     \* the loop variable
    phase,       \* the step of the attempt, or how the call ended
    lastError,   \* last_error
    received,    \* history: what the requests came back with
    slept        \* history: the time spent in _sleep

vars == <<attempt, phase, lastError, received, slept>>

Error(code) ==
    [code |-> code,
     retryable |-> code \in {"rate limited", "retryable provider failure"}]

NoError == Error("none")

Codes ==
    {"none", "authentication required", "authorization insufficient", "rate limited",
     "not found", "retryable provider failure", "invalid provider response",
     "unknown provider failure"}

TypeOK ==
    /\ attempt \in 0..(MaxAttempts - 1)
    /\ phase \in {"request", "sleep", "returned", "raised"}
    /\ lastError \in {Error(c) : c \in Codes}
    /\ received \in Seq(Responses)
    /\ slept \in Nat

Init ==
    /\ attempt = 0
    /\ phase = "request"
    /\ lastError = NoError
    /\ received = <<>>
    /\ slept = 0

-----------------------------------------------------------------------------

(* Mutant of ErrorCode: a 403 is never a rate limit. *)
CodeByStatus(r) ==
    CASE r.status = 0 -> "retryable provider failure"
      [] r.status = 401 -> "authentication required"
      [] r.status = 403 -> "authorization insufficient"
      [] r.status = 404 -> "not found"
      [] r.status = 429 -> "rate limited"
      [] r.status \in {500, 502, 503, 504} -> "retryable provider failure"
      [] r.status = 400 -> "invalid provider response"
      [] OTHER -> "unknown provider failure"

(* _safe_error_for_http, and the error of a failed request. *)
ErrorCode(r) ==
    CASE r.status = 0 -> "retryable provider failure"
      [] r.status = 401 -> "authentication required"
      [] r.status = 403 /\ r.body # "rate limit" -> "authorization insufficient"
      [] r.status = 403 /\ r.body = "rate limit" -> "rate limited"
      [] r.status = 404 -> "not found"
      [] r.status = 429 -> "rate limited"
      [] r.status \in {500, 502, 503, 504} -> "retryable provider failure"
      [] r.status = 400 -> "invalid provider response"
      [] OTHER -> "unknown provider failure"

SafeErrorForHttp(r) == Error(ErrorCode(r))

(* A request that succeeds: the payload is returned if it is an object. *)
Succeed(r) ==
    /\ phase = "request"
    /\ r.status = 200
    /\ received' = Append(received, r)
    /\ \/ r.body # "other" /\ phase' = "returned" /\ UNCHANGED lastError
       \/ /\ r.body = "other" /\ phase' = "raised"
          /\ lastError' = Error("invalid provider response")
    /\ UNCHANGED <<attempt, slept>>

(* Mutants of Retries: the retryable flag is ignored; the last attempt too *)
(* is followed by a sleep.                                                 *)
RetriesAnything(error) == attempt + 1 < MaxAttempts
RetriesOnceMore(error) == error.retryable /\ attempt < MaxAttempts

Retries(error) == error.retryable /\ attempt + 1 < MaxAttempts

(* A request that fails. *)
GetFails(r) ==
    /\ phase = "request"
    /\ r.status # 200
    /\ received' = Append(received, r)
    /\ lastError' = SafeErrorForHttp(r)
    /\ phase' = IF Retries(lastError') THEN "sleep" ELSE "raised"
    /\ UNCHANGED <<attempt, slept>>

Sleep ==
    /\ phase = "sleep"
    /\ slept' = slept + BaseDelay * 2^attempt
    /\ attempt' = attempt + 1
    /\ phase' = "request"
    /\ UNCHANGED <<lastError, received>>

Next == (\E r \in Responses : Succeed(r) \/ GetFails(r)) \/ Sleep

Spec == Init /\ [][Next]_vars

-----------------------------------------------------------------------------

(* A failure that may go away: the network, a rate limit, the server. *)
Transient(r) ==
    \/ r.status \in {0, 429, 500, 502, 503, 504}
    \/ r.status = 403 /\ r.body = "rate limit"

(* A request is repeated only after a failure that may go away; a read     *)
(* makes at most max_attempts requests, waits before each one but the      *)
(* first, twice as long each time, and never waits in vain.                *)
RetriesAreJustified ==
    /\ Len(received) <= MaxAttempts
    /\ \A i \in 1..(Len(received) - 1) : Transient(received[i])
    /\ phase \in {"returned", "raised"} => slept = BaseDelay * (2^(Len(received) - 1) - 1)

(* A read gives up only when it must, and the error it raises is retryable *)
(* exactly when the last failure may go away.                              *)
GivesUpLate ==
    phase = "raised" =>
        LET last == received[Len(received)] IN
        /\ lastError # NoError
        /\ lastError.retryable <=> Transient(last)
        /\ Transient(last) => Len(received) = MaxAttempts
=============================================================================
