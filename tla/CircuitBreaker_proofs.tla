------------------------ MODULE CircuitBreaker_proofs ------------------------
(***************************************************************************)
(* The circuit breaker for any number of callers, threshold and timeout.   *)
(***************************************************************************)
EXTENDS CircuitBreaker, TLAPS

(* The variables of the circuit breaker keep their types, for every number  *)
(* of callers and every threshold and timeout (circuit-breaker.util.ts).    *)
THEOREM Typing == Spec => []TypeOK
<1> USE CircuitBreakerAssumption
<1>1. Init => TypeOK
  BY DEF Init, TypeOK
<1>2. TypeOK /\ [Next]_vars => TypeOK'
  <2> SUFFICES ASSUME TypeOK, [Next]_vars PROVE TypeOK'
    OBVIOUS
  <2> USE DEF TypeOK
  <2>1. ASSUME NEW c \in Callers, Reject(c) PROVE TypeOK'
    BY <2>1 DEF Reject, vars
  <2>2. ASSUME NEW c \in Callers, Begin(c) PROVE TypeOK'
    BY <2>2 DEF Begin
  <2>3. ASSUME NEW c \in Callers, Succeed(c) PROVE TypeOK'
    BY <2>3 DEF Succeed
  <2>4. ASSUME NEW c \in Callers, Fail(c) PROVE TypeOK'
    BY <2>4 DEF Fail
  <2>5. CASE Tick
    BY <2>5 DEF Tick
  <2>6. CASE UNCHANGED vars
    BY <2>6 DEF vars
  <2> QED
    BY <2>1, <2>2, <2>3, <2>4, <2>5, <2>6 DEF Next
<1> QED
  BY <1>1, <1>2, PTL DEF Spec

(* State and counter agree in every interleaving: the circuit is CLOSED     *)
(* exactly while the counter is below the threshold, although calls let     *)
(* through in one state complete in another.                                *)
THEOREM StateAndCountAgree == Spec => []StateMatchesCount
<1> USE CircuitBreakerAssumption
<1>1. Init => StateMatchesCount
  BY DEF Init, StateMatchesCount
<1>2. TypeOK /\ StateMatchesCount /\ [Next]_vars => StateMatchesCount'
  <2> SUFFICES ASSUME TypeOK, StateMatchesCount, [Next]_vars
               PROVE  StateMatchesCount'
    OBVIOUS
  <2> USE DEF TypeOK, StateMatchesCount
  <2>1. ASSUME NEW c \in Callers, Reject(c) PROVE StateMatchesCount'
    BY <2>1 DEF Reject, vars
  <2>2. ASSUME NEW c \in Callers, Begin(c) PROVE StateMatchesCount'
    BY <2>2 DEF Begin
  <2>3. ASSUME NEW c \in Callers, Succeed(c) PROVE StateMatchesCount'
    BY <2>3 DEF Succeed
  <2>4. ASSUME NEW c \in Callers, Fail(c) PROVE StateMatchesCount'
    <3>1. CASE failureCount + 1 >= Threshold
      BY <2>4, <3>1 DEF Fail
    <3>2. CASE failureCount + 1 < Threshold
      BY <2>4, <3>2 DEF Fail
    <3> QED
      BY <3>1, <3>2
  <2>5. CASE Tick
    BY <2>5 DEF Tick
  <2>6. CASE UNCHANGED vars
    BY <2>6 DEF vars
  <2> QED
    BY <2>1, <2>2, <2>3, <2>4, <2>5, <2>6 DEF Next
<1> QED
  BY <1>1, <1>2, Typing, PTL DEF Spec

(* A HALF_OPEN circuit has a call under way that will decide it. *)
Decided == state = "HALF_OPEN" => \E c \in Callers : call[c] = "running"

(* The circuit does not wedge: it is never HALF_OPEN without a call under   *)
(* way, although any number of calls, from before it opened too, complete   *)
(* in any order: the first to do so ends HALF_OPEN (circuit-breaker.util.ts *)
(* :57-89).                                                                 *)
THEOREM HalfOpenIsDecided == Spec => []Decided
<1>1. Init => Decided
  BY DEF Init, Decided
<1>2. TypeOK /\ Decided /\ [Next]_vars => Decided'
  <2> SUFFICES ASSUME TypeOK, Decided, [Next]_vars
               PROVE  Decided'
    OBVIOUS
  <2> USE DEF TypeOK, Decided
  <2>1. ASSUME NEW c \in Callers, Begin(c) PROVE Decided'
    <3>1. call'[c] = "running"
      BY <2>1 DEF Begin
    <3> QED
      BY <3>1
  <2>2. ASSUME NEW c \in Callers, Succeed(c) \/ Fail(c) PROVE state' # "HALF_OPEN"
    BY <2>2 DEF Succeed, Fail
  <2>3. ASSUME NEW c \in Callers, Reject(c) PROVE Decided'
    BY <2>3 DEF Reject, vars
  <2>4. CASE Tick \/ UNCHANGED vars
    BY <2>4 DEF Tick, vars
  <2> QED
    BY <2>1, <2>2, <2>3, <2>4 DEF Next
<1> QED
  BY <1>1, <1>2, Typing, PTL DEF Spec

(* How far a circuit is from closed. *)
ToClosed ==
    CASE state = "CLOSED" -> 0
      [] state = "HALF_OPEN" -> 1
      [] OTHER -> 2 + Timeout - sinceFailure

(* Only a failure takes the circuit away from closed: any other step, late  *)
(* answers to calls from before it opened included, brings it nearer or     *)
(* leaves it where it is (circuit-breaker.util.ts:31-89). That is the       *)
(* variant behind ClosesAgain; the rest of it is fairness.                  *)
THEOREM CircuitHeals ==
    Spec => [][\/ \E c \in Callers : Fail(c)
               \/ ToClosed' <= ToClosed /\ (state' # state => ToClosed' # ToClosed)]_vars
<1> USE CircuitBreakerAssumption
<1>1. TypeOK /\ [Next]_vars =>
          [\/ \E c \in Callers : Fail(c)
           \/ ToClosed' <= ToClosed /\ (state' # state => ToClosed' # ToClosed)]_vars
  <2> SUFFICES ASSUME TypeOK, Next, \A c \in Callers : ~Fail(c)
               PROVE  ToClosed' <= ToClosed /\ (state' # state => ToClosed' # ToClosed)
    OBVIOUS
  <2> USE DEF TypeOK, ToClosed
  <2>1. ASSUME NEW c \in Callers, Reject(c)
        PROVE  ToClosed' <= ToClosed /\ (state' # state => ToClosed' # ToClosed)
    BY <2>1, SMT DEF Reject, vars
  <2>2. ASSUME NEW c \in Callers, Begin(c)
        PROVE  ToClosed' <= ToClosed /\ (state' # state => ToClosed' # ToClosed)
    BY <2>2, SMT DEF Begin
  <2>3. ASSUME NEW c \in Callers, Succeed(c)
        PROVE  ToClosed' <= ToClosed /\ (state' # state => ToClosed' # ToClosed)
    BY <2>3, SMT DEF Succeed
  <2>4. CASE Tick
    BY <2>4, SMT DEF Tick
  <2> QED
    BY <2>1, <2>2, <2>3, <2>4 DEF Next
<1> QED
  BY <1>1, Typing, PTL DEF Spec
=============================================================================
