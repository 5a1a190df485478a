------------------------------ MODULE HttpFetch ------------------------------
(***************************************************************************)
(* AuditProcessor.process on one worker slot, job after job: httpFetch     *)
(* with its attempts, back-off and abort timer, and the audit result made  *)
(* of its outcome. The target is the environment: it answers, breaks the   *)
(* connection or does nothing at all, at any moment.                       *)
(*                                                                         *)
(* Time is counted in ticks. A page is abstracted to its status.           *)
(***************************************************************************)
EXTENDS Integers

CONSTANTS
    Timeout,     \* timeoutMs: REQUEST_TIMEOUT, in ticks
    MaxRetries,  \* maxRetries: REQUEST_MAX_RETRIES
    BaseDelay,   \* retryBaseDelayMs: REQUEST_RETRY_BASE_DELAY, in ticks
    Statuses     \* statuses a target answers with

ASSUME HttpFetchAssumption ==
    /\ Timeout \in Nat \ {0}
    /\ MaxRetries \in Nat
    /\ BaseDelay \in Nat \ {0}
    /\ Statuses \subseteq 200..599

(* What 2^n is, for the exponents of the back-off: the provers do not know  *)
(* it.                                                                      *)
ASSUME PowersOfTwo ==
    /\ 2^0 = 1
    /\ \A n \in 0..MaxRetries : 2^(n + 1) = 2 * 2^n

VARIABLES
    pc,        \* where process and httpFetch are
    attempt,   \* the loop variable
    timer,     \* ticks until controller.abort(), Off when cleared
    delay,     \* ticks left of the sleep before an attempt
    status,    \* the response status of this attempt, 0 before its headers
    lastError, \* "none", "timeout", "retryable" or "other"
    result,    \* the AuditResult: its statusCode and reachable
    elapsed    \* ticks since httpFetch was called

vars == <<pc, attempt, timer, delay, status, lastError, result, elapsed>>

Off == -1
NoResult == [statusCode |-> 0, reachable |-> FALSE]

Init ==
    /\ pc = "idle"
    /\ attempt = 0
    /\ timer = Off
    /\ delay = 0
    /\ status = 0
    /\ lastError = "none"
    /\ result = NoResult
    /\ elapsed = 0

(* BullMQ calls process for the next job, which calls httpFetch. *)
Begin ==
    /\ pc = "idle"
    /\ pc' = "backoff"
    /\ attempt' = 0
    /\ delay' = 0
    /\ lastError' = "none"
    /\ result' = NoResult
    /\ elapsed' = 0
    /\ UNCHANGED <<timer, status>>

(* The sleep is over: the timer is armed and the request sent. *)
Send ==
    /\ pc = "backoff"
    /\ delay = 0
    /\ pc' = "fetching"
    /\ timer' = Timeout
    /\ status' = 0
    /\ UNCHANGED <<attempt, delay, lastError, result, elapsed>>

(* A version of Respond that clears the timer once the headers are in. *)
RespondClearing ==
    /\ pc = "fetching"
    /\ pc' = "reading"
    /\ status' \in Statuses
    /\ timer' = Off
    /\ UNCHANGED <<attempt, delay, lastError, result, elapsed>>

(* fetch resolves with the headers; the timer stays armed for the body.     *)
Respond ==
    /\ pc = "fetching"
    /\ pc' = "reading"
    /\ status' \in Statuses
    /\ UNCHANGED <<attempt, timer, delay, lastError, result, elapsed>>

(* response.text() resolves: httpFetch returns, finally clears the timer.   *)
Read ==
    /\ pc = "reading"
    /\ pc' = "returned"
    /\ timer' = Off
    /\ UNCHANGED <<attempt, delay, status, lastError, result, elapsed>>

(* The timer fires and fetch or text() rejects with an AbortError: thrown   *)
(* as HttpTimeoutError without another attempt.                             *)
Abort ==
    /\ timer = 0
    /\ pc \in {"fetching", "reading"}
    /\ pc' = "threw"
    /\ lastError' = "timeout"
    /\ timer' = Off
    /\ UNCHANGED <<attempt, delay, status, result, elapsed>>

(* A version of Backoff that doubles once too often. *)
BackoffDoubled == BaseDelay * 2^(attempt + 1)

Backoff == BaseDelay * 2^attempt

(* A version of GiveUp that counts one attempt too few. *)
GiveUpLate(error) == attempt > MaxRetries \/ error = "other"

GiveUp(error) == attempt = MaxRetries \/ error = "other"

(* fetch or text() rejects with another error. *)
Break(error) ==
    /\ pc \in {"fetching", "reading"}
    /\ lastError' = error
    /\ timer' = Off
    /\ \/ /\ GiveUp(error)
          /\ pc' = "threw"
          /\ UNCHANGED <<attempt, delay>>
       \/ /\ ~GiveUp(error)
          /\ pc' = "backoff"
          /\ attempt' = attempt + 1
          /\ delay' = Backoff
    /\ UNCHANGED <<status, result, elapsed>>

(* A version of Outcome that looks at the status of an aborted response.    *)
OutcomeByStatus ==
    IF status # 0
    THEN [statusCode |-> status, reachable |-> status < 500]
    ELSE [statusCode |-> IF lastError = "timeout" THEN 504 ELSE 0,
          reachable |-> FALSE]

(* The auditResult process builds, from the response or in its catch block. *)
Outcome ==
    IF pc = "returned"
    THEN [statusCode |-> status, reachable |-> status < 500]
    ELSE [statusCode |-> IF lastError = "timeout" THEN 504 ELSE 0,
          reachable |-> FALSE]

(* process hands the result to cacheAudit and returns. *)
Record ==
    /\ pc \in {"returned", "threw"}
    /\ result' = Outcome
    /\ pc' = "idle"
    /\ UNCHANGED <<attempt, timer, delay, status, lastError, elapsed>>

(* Time passes while something is waited for; a timer that is due fires     *)
(* first.                                                                   *)
Tick ==
    /\ \/ /\ pc = "backoff" /\ delay > 0
          /\ delay' = delay - 1
          /\ UNCHANGED timer
       \/ /\ timer > 0
          /\ timer' = timer - 1
          /\ UNCHANGED delay
    /\ elapsed' = elapsed + 1
    /\ UNCHANGED <<pc, attempt, status, lastError, result>>

Next ==
    \/ Begin \/ Send \/ Respond \/ Read \/ Abort
    \/ \E error \in {"retryable", "other"} : Break(error)
    \/ Record \/ Tick

(* Nothing is assumed of the target: only timers and the event loop run.    *)
Spec ==
    /\ Init /\ [][Next]_vars
    /\ WF_vars(Send) /\ WF_vars(Abort) /\ WF_vars(Record) /\ WF_vars(Tick)

-----------------------------------------------------------------------------
(* The types: no attempt after the last, no delay below zero. *)
TypeOK ==
    /\ pc \in {"idle", "backoff", "fetching", "reading", "returned", "threw"}
    /\ attempt \in 0..MaxRetries
    /\ timer \in Off..Timeout
    /\ delay \in Nat
    /\ status \in {0} \cup Statuses
    /\ lastError \in {"none", "timeout", "retryable", "other"}
    /\ result \in [statusCode : {0, 504} \cup Statuses, reachable : BOOLEAN]
    /\ elapsed \in Nat

(* A worker slot is never held by one target for longer than all attempts   *)
(* and all back-offs take, however the target fails in between.             *)
WorstCase == (MaxRetries + 1) * Timeout + BaseDelay * (2^MaxRetries - 1)
ElapsedBounded == elapsed <= WorstCase

(* Every job ends with a result, also when the target stops in the middle   *)
(* of a response and never closes the connection.                           *)
FetchEnds == pc # "idle" ~> pc = "idle"

(* A target is recorded as reachable only when a whole response below 500   *)
(* was read before the timer ran out, and a fetch that timed out is         *)
(* recorded as 504, whatever had arrived by then.                           *)
ResultTellsCause ==
    [][pc # "idle" /\ pc' = "idle" =>
          /\ result'.reachable => pc = "returned" /\ status < 500
          /\ pc = "threw" /\ lastError = "timeout" => result'.statusCode = 504]_vars
=============================================================================
