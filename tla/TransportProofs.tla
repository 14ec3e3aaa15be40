-------------------------- MODULE TransportProofs --------------------------
(***************************************************************************)
(* Proofs about RetryingTransport, for any number of attempts and any base *)
(* delay.                                                                  *)
(***************************************************************************)
EXTENDS RetryingTransport, TLAPS

-----------------------------------------------------------------------------
(* One request has come back for each attempt made, and every one but the  *)
(* last, before a sleep the last too, failed in a way that may go away.    *)
TransportInv ==
    /\ attempt \in 0..(MaxAttempts - 1)
    /\ phase \in {"request", "sleep", "returned", "raised"}
    /\ lastError \in {Error(c) : c \in Codes}
    /\ received \in Seq(Responses)
    /\ Len(received) = IF phase = "request" THEN attempt ELSE attempt + 1
    /\ \A i \in 1..Len(received) :
          i <= attempt \/ phase = "sleep" => Transient(received[i])
    /\ phase = "sleep" => attempt + 1 < MaxAttempts
    /\ GivesUpLate

(* What is slept is the sum of the delays of the attempts before: with the *)
(* two laws of powers that it takes, which the provers do not know.        *)
PowersOfTwo == \A n \in Nat : 2^n \in Nat /\ 2^(n + 1) = 2 * 2^n

Waited == slept \in Nat /\ slept = BaseDelay * (2^attempt - 1)

-----------------------------------------------------------------------------
(* The code _safe_error_for_http gives a request that failed, which is     *)
(* retryable exactly when the failure may go away.                         *)
LEMMA ErrorCodeFacts ==
  ASSUME NEW r \in Responses, r.status # 200
  PROVE  /\ ErrorCode(r) \in Codes \ {"none"}
         /\ ErrorCode(r) \in {"rate limited", "retryable provider failure"} <=> Transient(r)
<1> DEFINE Right ==
             /\ ErrorCode(r) \in Codes \ {"none"}
             /\ ErrorCode(r) \in {"rate limited", "retryable provider failure"} <=> Transient(r)
<1> SUFFICES Right
  OBVIOUS
<1>1. \/ r.status = 0 \/ r.status = 401 \/ r.status = 403 \/ r.status = 404 \/ r.status = 429
      \/ r.status \in {500, 502, 503, 504} \/ r.status = 400 \/ r.status = 418
  <2>1. r.status \in {0, 200, 400, 401, 403, 404, 418, 429, 500, 502, 503, 504}
    BY DEF Responses
  <2> QED
    BY <2>1
<1>2. CASE r.status = 0
  <2>1. /\ r.status # 401 /\ r.status # 403 /\ r.status # 404 /\ r.status # 429 /\ r.status # 400
        /\ r.status \notin {500, 502, 503, 504}
    BY <1>2
  <2>2. ErrorCode(r) = "retryable provider failure"
    BY <1>2, <2>1, ZenonT(60) DEF ErrorCode
  <2> QED
    BY <1>2, <2>1, <2>2 DEF Codes, Transient
<1>3. CASE r.status = 401
  <2>1. /\ r.status # 0 /\ r.status # 403 /\ r.status # 404 /\ r.status # 429 /\ r.status # 400
        /\ r.status \notin {500, 502, 503, 504}
    BY <1>3
  <2>2. ErrorCode(r) = "authentication required"
    BY <1>3, <2>1, Zenon DEF ErrorCode
  <2> QED
    BY <1>3, <2>1, <2>2 DEF Codes, Transient
<1>4. CASE r.status = 403
  <2>1. /\ r.status # 0 /\ r.status # 401 /\ r.status # 404 /\ r.status # 429 /\ r.status # 400
        /\ r.status \notin {500, 502, 503, 504}
    BY <1>4
  <2>2. IF r.body = "rate limit" THEN ErrorCode(r) = "rate limited"
                             ELSE ErrorCode(r) = "authorization insufficient"
    BY <1>4, <2>1, Zenon DEF ErrorCode
  <2>3. Transient(r) <=> r.body = "rate limit"
    BY <1>4 DEF Transient
  <2> QED
    BY <2>2, <2>3 DEF Codes
<1>5. CASE r.status = 404
  <2>1. /\ r.status # 0 /\ r.status # 401 /\ r.status # 403 /\ r.status # 429 /\ r.status # 400
        /\ r.status \notin {500, 502, 503, 504}
    BY <1>5
  <2>2. ErrorCode(r) = "not found"
    BY <1>5, <2>1, Zenon DEF ErrorCode
  <2> QED
    BY <1>5, <2>1, <2>2 DEF Codes, Transient
<1>6. CASE r.status = 429
  <2>1. /\ r.status # 0 /\ r.status # 401 /\ r.status # 403 /\ r.status # 404 /\ r.status # 400
        /\ r.status \notin {500, 502, 503, 504}
    BY <1>6
  <2>2. ErrorCode(r) = "rate limited"
    BY <1>6, <2>1, Zenon DEF ErrorCode
  <2> QED
    BY <1>6, <2>1, <2>2 DEF Codes, Transient
<1>7. CASE r.status \in {500, 502, 503, 504}
  <2>1. r.status # 0 /\ r.status # 401 /\ r.status # 403 /\ r.status # 404 /\ r.status # 429 /\ r.status # 400
    BY <1>7
  <2>2. ErrorCode(r) = "retryable provider failure"
    BY <1>7, <2>1, Zenon DEF ErrorCode
  <2>3. Transient(r)
    BY <1>7 DEF Transient
  <2> QED
    BY <2>2, <2>3 DEF Codes
<1>8. CASE r.status = 400
  <2>1. /\ r.status # 0 /\ r.status # 401 /\ r.status # 403 /\ r.status # 404 /\ r.status # 429
        /\ r.status \notin {500, 502, 503, 504}
    BY <1>8
  <2>2. ErrorCode(r) = "invalid provider response"
    BY <1>8, <2>1, Zenon DEF ErrorCode
  <2> QED
    BY <1>8, <2>1, <2>2 DEF Codes, Transient
<1>9. CASE r.status = 418
  <2>1. /\ r.status # 0 /\ r.status # 401 /\ r.status # 403 /\ r.status # 404 /\ r.status # 429 /\ r.status # 400
        /\ r.status \notin {500, 502, 503, 504}
    BY <1>9
  <2>2. ErrorCode(r) = "unknown provider failure"
    BY <1>9, <2>1, Zenon DEF ErrorCode
  <2> QED
    BY <1>9, <2>1, <2>2 DEF Codes, Transient
<1> HIDE DEF Right
<1> QED
  BY <1>1, <1>2, <1>3, <1>4, <1>5, <1>6, <1>7, <1>8, <1>9

LEMMA SafeErrorFacts ==
  ASSUME NEW r \in Responses, r.status # 200
  PROVE  /\ SafeErrorForHttp(r) \in {Error(c) : c \in Codes \ {"none"}}
         /\ SafeErrorForHttp(r) # NoError
         /\ SafeErrorForHttp(r).retryable <=> Transient(r)
<1>1. /\ SafeErrorForHttp(r).code = ErrorCode(r)
      /\ SafeErrorForHttp(r).retryable
              <=> ErrorCode(r) \in {"rate limited", "retryable provider failure"}
  BY Zenon DEF SafeErrorForHttp, Error
<1>2. NoError.code = "none"
  BY DEF NoError, Error
<1> QED
  BY <1>1, <1>2, ErrorCodeFacts DEF SafeErrorForHttp

LEMMA AppendFacts ==
  ASSUME NEW s \in Seq(Responses), NEW r \in Responses
  PROVE  /\ Append(s, r) \in Seq(Responses)
         /\ Len(s) \in Nat /\ Len(Append(s, r)) = Len(s) + 1
         /\ Append(s, r)[Len(s) + 1] = r
         /\ \A i \in 1..Len(s) : Append(s, r)[i] = s[i]
OBVIOUS

-----------------------------------------------------------------------------
LEMMA InitTransport == Init => TransportInv
<1> SUFFICES ASSUME Init PROVE TransportInv
  OBVIOUS
<1>1. NoError \in {Error(c) : c \in Codes}
  BY DEF NoError, Codes
<1>2. received \in Seq(Responses) /\ Len(received) = 0
  BY DEF Init
<1> QED
  BY <1>1, <1>2, RetryPolicy DEF Init, TransportInv, GivesUpLate

LEMMA SucceedKeeps ==
  ASSUME TransportInv, NEW r \in Responses, Succeed(r)
  PROVE  TransportInv'
<1>1. PICK s : s = Append(received, r)
  OBVIOUS
<1>2. /\ s \in Seq(Responses) /\ attempt \in Nat /\ Len(received) = attempt
      /\ Len(s) = attempt + 1 /\ s[Len(s)] = r
      /\ \A i \in 1..attempt : s[i] = received[i]
  <2>1. phase = "request"
    BY DEF Succeed
  <2>2. received \in Seq(Responses) /\ attempt \in Nat /\ Len(received) = attempt
    BY <2>1, RetryPolicy DEF TransportInv
  <2> QED
    BY <1>1, <2>2, AppendFacts
<1>3. received' = s /\ attempt' = attempt /\ phase' \in {"returned", "raised"}
  BY <1>1 DEF Succeed
<1>4. \A i \in 1..Len(s) : i <= attempt => Transient(s[i])
  BY <1>2 DEF TransportInv
<1>5. /\ lastError' \in {Error(c) : c \in Codes}
      /\ phase' = "raised" => lastError' = Error("invalid provider response")
  BY DEF Succeed, TransportInv, Codes
<1>6. ~Transient(r)
  <2>1. r.status = 200
    BY DEF Succeed
  <2> QED
    BY <2>1 DEF Transient
<1>7. GivesUpLate'
  <2> SUFFICES ASSUME phase' = "raised"
               PROVE  /\ lastError' # NoError
                      /\ ~lastError'.retryable
    BY <1>2, <1>3, <1>6 DEF GivesUpLate
  <2>1. lastError' = Error("invalid provider response")
    BY <1>5
  <2>2. Error("invalid provider response").code # NoError.code
    BY Zenon DEF Error, NoError
  <2>3. ~Error("invalid provider response").retryable
    BY Zenon DEF Error
  <2> QED
    BY <2>1, <2>2, <2>3
<1> QED
  BY <1>2, <1>3, <1>4, <1>5, <1>7 DEF TransportInv

LEMMA GetFailsKeeps ==
  ASSUME TransportInv, NEW r \in Responses, GetFails(r)
  PROVE  TransportInv'
<1>1. PICK s : s = Append(received, r)
  OBVIOUS
<1>2. /\ s \in Seq(Responses) /\ attempt \in Nat /\ Len(received) = attempt
      /\ Len(s) = attempt + 1 /\ s[Len(s)] = r
      /\ \A i \in 1..attempt : s[i] = received[i]
  BY <1>1, AppendFacts, RetryPolicy DEF TransportInv, GetFails
<1>3. received' = s /\ attempt' = attempt
  BY <1>1 DEF GetFails
<1>4. /\ lastError' \in {Error(c) : c \in Codes \ {"none"}}
      /\ lastError' # NoError
      /\ lastError'.retryable <=> Transient(r)
  BY SafeErrorFacts DEF GetFails
<1>5. phase' = IF Transient(r) /\ attempt + 1 < MaxAttempts THEN "sleep" ELSE "raised"
  BY <1>4 DEF GetFails, Retries
<1>6. \A i \in 1..Len(s) : i <= attempt => Transient(s[i])
  BY <1>2 DEF TransportInv
<1>7. phase' = "sleep" => \A i \in 1..Len(s) : Transient(s[i])
  BY <1>2, <1>5, <1>6
<1>8. GivesUpLate'
  <2> SUFFICES ASSUME phase' = "raised"
               PROVE  /\ lastError' # NoError
                      /\ Transient(r) => attempt + 1 = MaxAttempts
    BY <1>2, <1>3, <1>4 DEF GivesUpLate
  <2> QED
    BY <1>4, <1>5, RetryPolicy DEF TransportInv
<1>9. lastError' \in {Error(c) : c \in Codes}
  BY <1>4
<1> QED
  BY <1>2, <1>3, <1>5, <1>6, <1>7, <1>8, <1>9 DEF TransportInv

LEMMA SleepKeeps ==
  ASSUME TransportInv, Sleep
  PROVE  TransportInv'
BY RetryPolicy DEF TransportInv, Sleep, GivesUpLate

LEMMA TransportInvariant == Spec => []TransportInv
<1>1. TransportInv /\ [Next]_vars => TransportInv'
  BY SucceedKeeps, GetFailsKeeps, SleepKeeps DEF Next, vars, TransportInv, GivesUpLate
<1> QED
  BY <1>1, InitTransport, PTL DEF Spec

(* _get_json: the error it raises is retryable exactly when the last       *)
(* failure may go away, and then every attempt has been made.              *)
THEOREM GivesUpOnlyLate == Spec => []GivesUpLate
BY TransportInvariant, PTL DEF TransportInv

-----------------------------------------------------------------------------
LEMMA WaitedInvariant ==
  ASSUME PowersOfTwo
  PROVE  Spec => []Waited
<1>1. Init => Waited
  BY RetryPolicy DEF Init, Waited
<1>2. TransportInv /\ Waited /\ [Next]_vars => Waited'
  <2>1. ASSUME TransportInv, Waited, Sleep PROVE Waited'
    <3>1. PICK w \in Nat : w = 2^attempt /\ 2^(attempt + 1) = 2 * w
      BY <2>1, RetryPolicy DEF PowersOfTwo, TransportInv
    <3>2. slept' = slept + BaseDelay * w /\ attempt' = attempt + 1
      BY <2>1, <3>1 DEF Sleep
    <3>3. slept = BaseDelay * (w - 1) /\ slept \in Nat
      BY <2>1, <3>1 DEF Waited
    <3>4. BaseDelay * w \in Nat /\ BaseDelay * (w - 1) + BaseDelay * w = BaseDelay * (2 * w - 1)
      BY RetryPolicy
    <3> QED
      BY <3>1, <3>2, <3>3, <3>4 DEF Waited
  <2>2. ASSUME Waited, UNCHANGED <<attempt, slept>> PROVE Waited'
    BY <2>2 DEF Waited
  <2> QED
    BY <2>1, <2>2 DEF Next, Succeed, GetFails, vars
<1> QED
  BY <1>1, <1>2, TransportInvariant, PTL DEF Spec

(* The loop variable, the error at hand and the time slept have the types  *)
(* TypeOK states.                                                          *)
THEOREM TransportTypeCorrect ==
  ASSUME PowersOfTwo
  PROVE  Spec => []TypeOK
<1>1. TransportInv /\ Waited => TypeOK
  BY DEF TransportInv, Waited, TypeOK
<1> QED
  BY <1>1, TransportInvariant, WaitedInvariant, PTL

(* _get_json: a request is repeated only after a failure that may go away, *)
(* max_attempts is never exceeded, and the waits double.                   *)
THEOREM RetriesJustified ==
  ASSUME PowersOfTwo
  PROVE  Spec => []RetriesAreJustified
<1>1. TransportInv /\ Waited => RetriesAreJustified
  <2> SUFFICES ASSUME TransportInv, Waited PROVE RetriesAreJustified
    OBVIOUS
  <2>1. Len(received) \in Nat /\ attempt \in Nat /\ attempt < MaxAttempts
    BY RetryPolicy DEF TransportInv
  <2>2. phase \in {"returned", "raised"} => Len(received) - 1 = attempt
    BY <2>1 DEF TransportInv
  <2>3. Len(received) <= MaxAttempts
    BY <2>1, RetryPolicy DEF TransportInv
  <2>4. \A i \in 1..(Len(received) - 1) : i <= attempt
    BY <2>1 DEF TransportInv
  <2> QED
    BY <2>1, <2>2, <2>3, <2>4 DEF TransportInv, Waited, RetriesAreJustified
<1> QED
  BY <1>1, TransportInvariant, WaitedInvariant, PTL
=============================================================================
