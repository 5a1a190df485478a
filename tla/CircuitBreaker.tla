---------------------------- MODULE CircuitBreaker ----------------------------
(***************************************************************************)
(* The CircuitBreaker class, called by several callers at once: execute is *)
(* interleaved at its one await, the call it guards. audit.processor.ts    *)
(* has its use commented out; the class and its tests are what is modelled.*)
(*                                                                         *)
(* Time is counted in ticks. lastFailureTime is kept as the ticks since,   *)
(* counted up to Timeout: isOpen asks for no more, and the initial value 0 *)
(* (1970) is long ago.                                                     *)
(***************************************************************************)
EXTENDS Naturals

CONSTANTS
    Callers,     \* concurrent uses of execute
    Threshold,   \* options.threshold
    Timeout,     \* options.timeoutMs, in ticks
    MaxFailures  \* bound: failureCount is not driven higher

ASSUME CircuitBreakerAssumption ==
    /\ Threshold \in Nat \ {0}
    /\ Timeout \in Nat \ {0}
    /\ MaxFailures \in Nat

VARIABLES
    state,          \* "CLOSED", "OPEN" or "HALF_OPEN"
    failureCount,
    sinceFailure,   \* ticks since lastFailureTime, at most Timeout
    call            \* call[c]: "none", or "running" when c was let through

vars == <<state, failureCount, sinceFailure, call>>

Init ==
    /\ state = "CLOSED"
    /\ failureCount = 0
    /\ sinceFailure = Timeout
    /\ call = [c \in Callers |-> "none"]

(* A version of Reject in which a blocked call prolongs the blocking. *)
RejectProlonging(c) ==
    /\ call[c] = "none"
    /\ state = "OPEN"
    /\ sinceFailure < Timeout
    /\ sinceFailure' = 0
    /\ UNCHANGED <<state, failureCount, call>>

(* execute throws CircuitBreakerError at once. *)
Reject(c) ==
    /\ call[c] = "none"
    /\ state = "OPEN"
    /\ sinceFailure < Timeout
    /\ UNCHANGED vars

(* execute lets the call through; an OPEN circuit whose timeout has elapsed *)
(* turns HALF_OPEN, a HALF_OPEN one lets every call through.                *)
Begin(c) ==
    /\ call[c] = "none"
    /\ \/ /\ state \in {"CLOSED", "HALF_OPEN"}
          /\ UNCHANGED state
       \/ /\ state = "OPEN"
          /\ sinceFailure >= Timeout
          /\ state' = "HALF_OPEN"
    /\ call' = [call EXCEPT ![c] = "running"]
    /\ UNCHANGED <<failureCount, sinceFailure>>

(* A version of Succeed that heals one failure at a time. *)
SucceedDecrementing(c) ==
    /\ call[c] # "none"
    /\ failureCount' = failureCount - 1
    /\ state' = "CLOSED"
    /\ call' = [call EXCEPT ![c] = "none"]
    /\ UNCHANGED sinceFailure

(* The guarded call resolves: onSuccess. *)
Succeed(c) ==
    /\ call[c] # "none"
    /\ failureCount' = 0
    /\ state' = "CLOSED"
    /\ call' = [call EXCEPT ![c] = "none"]
    /\ UNCHANGED sinceFailure

(* A version of Fail that compares the count before it is incremented. *)
FailLate(c) ==
    /\ call[c] # "none"
    /\ failureCount < MaxFailures
    /\ failureCount' = failureCount + 1
    /\ sinceFailure' = 0
    /\ state' = IF state = "HALF_OPEN" \/ failureCount >= Threshold
                THEN "OPEN" ELSE state
    /\ call' = [call EXCEPT ![c] = "none"]

(* The guarded call rejects: onFailure. *)
Fail(c) ==
    /\ call[c] # "none"
    /\ failureCount < MaxFailures
    /\ failureCount' = failureCount + 1
    /\ sinceFailure' = 0
    /\ state' = IF state = "HALF_OPEN" \/ failureCount + 1 >= Threshold
                THEN "OPEN" ELSE state
    /\ call' = [call EXCEPT ![c] = "none"]

Tick ==
    /\ sinceFailure < Timeout
    /\ sinceFailure' = sinceFailure + 1
    /\ UNCHANGED <<state, failureCount, call>>

Next ==
    \/ \E c \in Callers : Reject(c) \/ Begin(c) \/ Succeed(c) \/ Fail(c)
    \/ Tick

Spec == Init /\ [][Next]_vars

(* Callers that keep calling, calls that end, a clock that does not stop.   *)
(* The first is an assumption on the users of the class.                    *)
PersistentSpec ==
    /\ Spec
    /\ WF_vars(Tick)
    /\ \A c \in Callers :
          /\ WF_vars(Reject(c) \/ Begin(c))
          /\ WF_vars(Succeed(c) \/ Fail(c))

-----------------------------------------------------------------------------
(* The types: the counter never becomes negative. *)
TypeOK ==
    /\ state \in {"CLOSED", "OPEN", "HALF_OPEN"}
    /\ failureCount \in Nat
    /\ sinceFailure \in 0..Timeout
    /\ call \in [Callers -> {"none", "running"}]

(* The state and the counter never disagree, whatever calls from before a   *)
(* change of state complete after it: the circuit is CLOSED exactly while   *)
(* the counter is below the threshold. (So HALF_OPEN needs no case of its   *)
(* own in onFailure.)                                                       *)
StateMatchesCount == state = "CLOSED" <=> failureCount < Threshold

(* The circuit does not wedge: once the target answers, callers that keep   *)
(* calling find the circuit closed again, and it stays so.                  *)
ClosesAgain ==
    <>[][\A c \in Callers : ~Fail(c)]_vars => <>[](state = "CLOSED")
=============================================================================
