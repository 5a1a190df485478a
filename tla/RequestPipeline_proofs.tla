------------------------ MODULE RequestPipeline_proofs ------------------------
(***************************************************************************)
(* Theorems about the requests of one client address behind the rate       *)
(* limit, for every number of requests, limit and window, and any faults.  *)
(***************************************************************************)
EXTENDS RequestPipeline, TLAPS

(* The lesser of two numbers, for the caps of the counters. *)
LEMMA MinOfTwo ==
    ASSUME NEW a \in Int, NEW b \in Int
    PROVE  Min({a, b}) = IF a <= b THEN a ELSE b
<1>1. \E x \in {a, b} : \A y \in {a, b} : x <= y
  BY SMT
<1>2. Min({a, b}) \in {a, b} /\ \A y \in {a, b} : Min({a, b}) <= y
  BY <1>1, Zenon DEF Min
<1> QED
  BY <1>2, SMT

(* The window in seconds is a number of seconds. *)
LEMMA WindowIsNatural == WindowSeconds \in Nat
BY RateLimiterAssumption, SMT DEF RateLimiterAssumption, WindowSeconds

-----------------------------------------------------------------------------
(* The limiter. *)

(* A key that had a request rejected ends before that request has waited a  *)
(* window: what it has waited and what the key has left make one at most.   *)
LimiterInv ==
    /\ TypeOK
    /\ \A r \in Requests :
          behind[r] => ttl # NoTtl /\ at[r] = "rejected" /\ waited[r] + ttl <= WindowSeconds
    /\ \A r \in Requests : at[r] # "rejected" => waited[r] = 0

(* No key, no request: the limiter's invariant holds in the beginning. *)
LEMMA LimiterStarts == Init => LimiterInv
<1> SUFFICES ASSUME Init PROVE LimiterInv
  OBVIOUS
<1> USE RateLimiterAssumption, WindowIsNatural DEF RateLimiterAssumption
<1>1. behind = [r \in Requests |-> FALSE] /\ behind \in [Requests -> BOOLEAN]
  BY DEF Init
<1> QED
  BY <1>1 DEF Init, LimiterInv, TypeOK, Ages, NoTtl

(* INCR, up to the cap of the counter. *)
LEMMA RaisedByOne ==
    TypeOK => Raised = IF count + 1 <= CountCap THEN count + 1 ELSE CountCap
BY MinOfTwo, RateLimiterAssumption, SMT DEF RateLimiterAssumption, TypeOK, Raised

(* INCR keeps the counter in its range. *)
LEMMA RaisedType == TypeOK => Raised \in 0..CountCap
BY RaisedByOne, RateLimiterAssumption, SMT DEF RateLimiterAssumption, TypeOK

(* What INCR and its verdict do to the count of the last a seconds: a       *)
(* request more if it is within the limit, and never one too many.          *)
LEMMA RecentRaised ==
    ASSUME TypeOK, NEW r \in Requests, Count(r), NEW a \in Ages
    PROVE  /\ recent'[a] \in 0..CountCap
           /\ recent'[a] = recent[a] \/ recent'[a] <= recent[a] + 1
           /\ a = 0 \/ count >= RateLimitMax => recent'[a] = recent[a]
<1>1. recent'[a] = IF a > 0 /\ Allowed(Raised)
                   THEN Min({recent[a] + 1, CountCap}) ELSE recent[a]
  BY DEF Count
<1>2. recent[a] \in 0..CountCap /\ count \in 0..CountCap
  BY DEF TypeOK
<1>3. Min({recent[a] + 1, CountCap})
          = IF recent[a] + 1 <= CountCap THEN recent[a] + 1 ELSE CountCap
  BY <1>2, MinOfTwo, RateLimiterAssumption, SMT DEF RateLimiterAssumption
<1>4. Raised = IF count + 1 <= CountCap THEN count + 1 ELSE CountCap
  BY RaisedByOne
<1> QED
  BY <1>1, <1>2, <1>3, <1>4, RateLimiterAssumption, SMT
     DEF RateLimiterAssumption, Allowed, Ages

(* Each step of the limiter keeps its invariant. *)
LEMMA LimiterStep ==
    ASSUME LimiterInv, [Next]_vars
    PROVE  LimiterInv'
<1> USE RateLimiterAssumption, WindowIsNatural DEF RateLimiterAssumption, LimiterInv, TypeOK, NoTtl
<1>1. ASSUME NEW r \in Requests, Count(r)
      PROVE  LimiterInv'
  <2>1. Raised \in 0..CountCap
    BY RaisedType DEF TypeOK
  <2>2. recent' \in [Ages -> 0..CountCap]
    <3>1. \A a \in Ages : recent'[a] \in 0..CountCap
      BY <1>1, RecentRaised
    <3> QED
      BY <1>1, <3>1 DEF Count
  <2> QED
    BY <1>1, <2>1, <2>2 DEF Count
<1>2. ASSUME NEW r \in Requests, FailOpen(r)
      PROVE  LimiterInv'
  <2>1. Raised \in 0..CountCap
    BY RaisedType DEF TypeOK
  <2> QED
    BY <1>2, <2>1 DEF FailOpen
<1>3. ASSUME NEW r \in Requests, Decide(r) \/ DecideUnset(r)
      PROVE  LimiterInv'
  <2>1. /\ ttl' \in {NoTtl} \cup 1..WindowSeconds
        /\ ttl # NoTtl => ttl' = ttl
    BY <1>3, SMT DEF Decide, DecideUnset, SetExpiry
  <2>2. Answer(r)
    BY <1>3 DEF Decide, DecideUnset
  <2>3. Verdict(r) \in {"admitted", "rejected"}
    BY DEF Verdict
  <2>4. behind' \in [Requests -> BOOLEAN]
    BY <2>2, Zenon DEF Answer
  <2>5. \A q \in Requests :
          behind'[q] => ttl' # NoTtl /\ at'[q] = "rejected" /\ waited'[q] + ttl' <= WindowSeconds
    <3> SUFFICES ASSUME NEW q \in Requests, behind'[q]
                 PROVE  /\ ttl' # NoTtl /\ at'[q] = "rejected"
                        /\ waited'[q] + ttl' <= WindowSeconds
      OBVIOUS
    <3>1. CASE q = r
      <4>1. behind'[r] = (Verdict(r) = "rejected" /\ count > 0 /\ ttl' # NoTtl)
        BY <2>2 DEF Answer
      <4>2. Verdict(r) = "rejected" /\ ttl' # NoTtl
        BY <3>1, <4>1
      <4> QED
        BY <2>1, <2>2, <3>1, <4>2 DEF Answer
    <3>2. CASE q # r
      BY <2>1, <2>2, <3>2 DEF Answer
    <3> QED
      BY <3>1, <3>2
  <2> QED
    BY <2>1, <2>2, <2>3, <2>4, <2>5 DEF Answer
<1>4. CASE Tick
  <2>1. \A r \in Requests : Min({waited[r] + 1, WindowSeconds})
            = IF waited[r] + 1 <= WindowSeconds THEN waited[r] + 1 ELSE WindowSeconds
    BY MinOfTwo
  <2>2. waited' \in [Requests -> 0..WindowSeconds]
    BY <1>4, <2>1 DEF Tick
  <2>3. recent' \in [Ages -> 0..CountCap]
    BY <1>4 DEF Tick, Ages
  <2>4. CASE ttl = 1
    <3>1. /\ count' = 0 /\ ttl' = -1 /\ at' = at /\ seen' = seen
          /\ behind' = [r \in Requests |-> FALSE]
      BY <1>4, <2>4 DEF Tick, Drop
    <3>2. \A r \in Requests : at'[r] # "rejected" => waited'[r] = 0
      BY <1>4 DEF Tick
    <3> QED
      BY <2>2, <2>3, <3>1, <3>2
  <2>5. CASE ttl # 1
    BY <1>4, <2>1, <2>2, <2>3, <2>5 DEF Tick
  <2> QED
    BY <2>4, <2>5
<1>5. CASE Evict
  BY <1>5 DEF Evict, Drop
<1>6. CASE UNCHANGED vars
  BY <1>6 DEF vars, requestVars
<1> QED
  BY <1>1, <1>2, <1>3, <1>4, <1>5, <1>6 DEF Next

-----------------------------------------------------------------------------
(* Two limits in a window. *)

(* What the counter that exists has let through at most. *)
WithinLimit == IF count < RateLimitMax THEN count ELSE RateLimitMax

(* Of the seconds that have passed since the key got its expiry, all        *)
(* requests were its own; a whole window holds those of one key before it   *)
(* at most, whose own limit they kept.                                      *)
WindowInv ==
    /\ recent[0] = 0
    /\ \A a \in Ages : recent[a] <= RateLimitMax + WithinLimit
    /\ ttl # NoTtl => \A a \in Ages : a <= WindowSeconds - ttl => recent[a] <= WithinLimit

(* Each step of the limiter keeps what a window holds. *)
LEMMA WindowStep ==
    ASSUME TypeOK, WindowInv, [Next]_vars
    PROVE  WindowInv'
<1> USE RateLimiterAssumption, WindowIsNatural
    DEF RateLimiterAssumption, TypeOK, NoTtl, Ages, WithinLimit, WindowInv
<1>1. ASSUME NEW r \in Requests, Count(r)
      PROVE  WindowInv'
  <2>1. count' = IF count + 1 <= CountCap THEN count + 1 ELSE CountCap
    BY <1>1, RaisedByOne DEF Count
  <2>2. ttl' = ttl
    BY <1>1 DEF Count
  <2>3. WithinLimit' = IF count < RateLimitMax THEN WithinLimit + 1 ELSE WithinLimit
    BY <2>1, SMT
  <2>4. \A a \in Ages :
            /\ recent'[a] <= (IF count < RateLimitMax THEN recent[a] + 1 ELSE recent[a])
            /\ a = 0 => recent'[a] = recent[a]
            /\ recent'[a] \in Nat
    BY <1>1, RecentRaised, SMT
  <2>5. 0 \in Ages /\ WithinLimit \in Nat /\ \A a \in Ages : recent[a] \in Nat
    OBVIOUS
  <2>6. recent'[0] = 0
    BY <2>4, <2>5
  <2>7. ASSUME NEW a \in Ages
        PROVE  /\ recent'[a] <= RateLimitMax + WithinLimit'
               /\ ttl' # NoTtl /\ a <= WindowSeconds - ttl' => recent'[a] <= WithinLimit'
    <3>1. /\ recent[a] <= RateLimitMax + WithinLimit
          /\ ttl # NoTtl /\ a <= WindowSeconds - ttl => recent[a] <= WithinLimit
      OBVIOUS
    <3>2. /\ recent[a] \in Nat /\ recent'[a] \in Nat /\ WithinLimit \in Nat
          /\ recent'[a] <= (IF count < RateLimitMax THEN recent[a] + 1 ELSE recent[a])
      BY <2>4, <2>5
    <3> HIDE DEF WithinLimit, WindowInv, TypeOK
    <3>3. CASE count < RateLimitMax
      BY <2>2, <2>3, <3>1, <3>2, <3>3, SMT
    <3>4. CASE ~(count < RateLimitMax)
      BY <2>2, <2>3, <3>1, <3>2, <3>4, SMT
    <3> QED
      BY <3>3, <3>4
  <2> HIDE DEF WithinLimit
  <2> QED
    BY <2>6, <2>7
<1>2. ASSUME NEW r \in Requests, FailOpen(r)
      PROVE  WindowInv'
  <2>1. count' >= count /\ count' \in Nat
    BY <1>2, RaisedByOne, SMT DEF FailOpen
  <2>2. WithinLimit <= WithinLimit'
    BY <2>1, SMT
  <2>3. ttl' = ttl /\ recent' = recent
    BY <1>2 DEF FailOpen
  <2> QED
    BY <2>1, <2>2, <2>3, SMT
<1>3. ASSUME NEW r \in Requests, Decide(r) \/ DecideUnset(r)
      PROVE  WindowInv'
  <2>1. count' = count /\ recent' = recent
    BY <1>3 DEF Decide, DecideUnset, Answer
  <2>2. CASE ttl' = ttl
    BY <2>1, <2>2
  <2>3. CASE ttl' # ttl
    <3>1. ttl' = WindowSeconds
      BY <1>3, <2>3 DEF Decide, DecideUnset, SetExpiry
    <3> QED
      BY <2>1, <3>1, SMT
  <2> QED
    BY <2>2, <2>3
<1>4. CASE Tick
  <2>1. \A a \in Ages : recent'[a] = IF a <= 1 THEN 0 ELSE recent[a - 1]
    BY <1>4 DEF Tick
  <2>2. CASE ttl = 1
    <3>1. ttl' = NoTtl /\ count' = 0
      BY <1>4, <2>2 DEF Tick, Drop
    <3>2. WithinLimit' = 0 /\ WithinLimit <= RateLimitMax
      BY <3>1
    <3>3. ASSUME NEW a \in Ages, a > 1
          PROVE  recent'[a] <= RateLimitMax
      <4>1. a - 1 \in Ages /\ a - 1 <= WindowSeconds - ttl
        BY <2>2, <3>3, SMT
      <4>2. recent[a - 1] <= WithinLimit /\ recent[a - 1] \in Nat
        BY <2>2, <4>1
      <4> QED
        BY <2>1, <3>2, <3>3, <4>2, SMT
    <3>4. \A a \in Ages : a <= 1 => recent'[a] = 0
      BY <2>1
    <3> QED
      BY <3>1, <3>2, <3>3, <3>4, SMT
  <2>3. CASE ttl # 1
    <3>1. count' = count /\ ttl' = IF ttl = NoTtl THEN NoTtl ELSE ttl - 1
      BY <1>4, <2>3 DEF Tick
    <3>2. WithinLimit' = WithinLimit /\ WithinLimit \in Nat
      BY <3>1
    <3>3. ASSUME NEW a \in Ages, a > 1
          PROVE  /\ recent'[a] <= RateLimitMax + WithinLimit
                 /\ ttl # NoTtl /\ a - 1 <= WindowSeconds - ttl => recent'[a] <= WithinLimit
      <4>1. a - 1 \in Ages /\ recent'[a] = recent[a - 1]
        BY <2>1, <3>3, SMT
      <4> QED
        BY <4>1
    <3>4. \A a \in Ages : a <= 1 => recent'[a] = 0
      BY <2>1
    <3> HIDE DEF WithinLimit
    <3> QED
      BY <3>1, <3>2, <3>3, <3>4, SMT
  <2> QED
    BY <2>2, <2>3
<1>5. CASE Evict
  BY <1>5 DEF Evict, Drop
<1>6. CASE UNCHANGED vars
  BY <1>6 DEF vars, requestVars
<1> QED
  BY <1>1, <1>2, <1>3, <1>4, <1>5, <1>6 DEF Next

-----------------------------------------------------------------------------
(* The pipeline. *)

(* To the limiter a step of the pipeline is one of its own, or none. *)
LEMMA LimiterSteps ==
    ASSUME [PipelineNext]_pipelineVars
    PROVE  [Next]_vars
<1>1. ASSUME NEW r \in Requests,
             Turn(r) \/ Receive(r) \/ GuardCounts(r) \/ GuardDecides(r) \/ HandlerEnds(r)
      PROVE  [Next]_vars
  BY <1>1 DEF Turn, Receive, GuardCounts, GuardDecides, HandlerEnds, AuditEnds,
              ReadyEnds, OtherEnds, Next
<1>2. CASE Second \/ Eviction \/ UNCHANGED pipelineVars
  BY <1>2 DEF Second, Eviction, pipelineVars, Next
<1> QED
  BY <1>1, <1>2 DEF PipelineNext

(* The limiter behind the pipeline is the limiter by itself: what holds of  *)
(* one client address that sends what it likes holds of the one whose       *)
(* requests come through routes, handlers and filters (app.module.ts:43-53).*)
THEOREM PipelineRunsLimiter == PipelineSpec => Spec
<1>1. PipelineInit => Init
  BY DEF PipelineInit
<1>2. [PipelineNext]_pipelineVars => [Next]_vars
  BY LimiterSteps
<1> QED
  BY <1>1, <1>2, PTL DEF PipelineSpec, Spec

(* So its invariant holds behind the pipeline. *)
LEMMA LimiterIsInvariant == PipelineSpec => []LimiterInv
<1>1. PipelineInit => LimiterInv
  BY LimiterStarts DEF PipelineInit
<1>2. LimiterInv /\ [PipelineNext]_pipelineVars => LimiterInv'
  BY LimiterSteps, LimiterStep
<1> QED
  BY <1>1, <1>2, PTL DEF PipelineSpec

(* Who waits out Retry-After is free of the counter that rejected him,      *)
(* for every window and every limit (rate-limit.guard.ts:60-81,             *)
(* cache.service.ts:117-126).                                               *)
THEOREM WaitingFrees == PipelineSpec => []RetryAfterHonest
<1>1. LimiterInv => RetryAfterHonest
  BY WindowIsNatural DEF LimiterInv, TypeOK, RetryAfterHonest, NoTtl
<1> QED
  BY <1>1, LimiterIsInvariant, PTL

(* In no stretch of a window's length are more than two limits' worth of    *)
(* counted requests let through, for every window and limit, also when an   *)
(* EXPIRE is lost or comes late (rate-limit.guard.ts:51-81,                 *)
(* cache.service.ts:117-126).                                               *)
THEOREM WindowsOverlapTwice == PipelineSpec => []TwoWindowBound
<1>1. PipelineInit => WindowInv
  BY RateLimiterAssumption, WindowIsNatural, SMT
     DEF RateLimiterAssumption, PipelineInit, Init, WindowInv, WithinLimit, Ages, NoTtl
<1>2. LimiterInv /\ WindowInv /\ [PipelineNext]_pipelineVars => WindowInv'
  BY LimiterSteps, WindowStep DEF LimiterInv
<1>3. LimiterInv /\ WindowInv => TwoWindowBound
  BY RateLimiterAssumption, WindowIsNatural, SMT
     DEF RateLimiterAssumption, LimiterInv, TypeOK, WindowInv, WithinLimit, Ages,
         TwoWindowBound
<1> QED
  BY <1>1, <1>2, <1>3, LimiterIsInvariant, PTL DEF PipelineSpec

-----------------------------------------------------------------------------
(* The end of a counter. *)

(* A counter without an expiry has somebody who is about to set it. *)
NeverForgotten == count > 0 /\ ttl = NoTtl => Asks

(* Unless calls fail or the window is below a second, no counter is left to *)
(* stand for ever: between INCR and EXPIRE, and after any mixture of        *)
(* requests, expiries and evictions, one that has no expiry has a request   *)
(* that will give it one (cache.service.ts:117-126). That is the safety in  *)
(* LockoutEnds; the rest of it is fairness.                                 *)
THEOREM CountersAreNotForgotten ==
    ASSUME "incr" \notin Faults, "expire" \notin Faults, WindowSeconds > 0
    PROVE  PipelineSpec => []NeverForgotten
<1>1. PipelineInit => NeverForgotten
  BY DEF PipelineInit, Init, NeverForgotten
<1>2. LimiterInv /\ NeverForgotten /\ [PipelineNext]_pipelineVars => NeverForgotten'
  <2> SUFFICES ASSUME TypeOK, NeverForgotten, [Next]_vars
               PROVE  NeverForgotten'
    BY LimiterSteps DEF LimiterInv
  <2> USE DEF NeverForgotten, Asks
  <2>1. ASSUME NEW r \in Requests, Count(r)
        PROVE  NeverForgotten'
    <3>1. at'[r] = "counted"
      BY <2>1 DEF Count, TypeOK
    <3> QED
      BY <3>1
  <2>2. ASSUME NEW r \in Requests, FailOpen(r)
        PROVE  NeverForgotten'
    BY <2>2 DEF FailOpen
  <2>3. ASSUME NEW r \in Requests, Decide(r)
        PROVE  NeverForgotten'
    <3>1. count' = count /\ (count > 0 => ttl' # NoTtl)
      BY <2>3, WindowIsNatural, SMT DEF Decide, SetExpiry, Answer, NoTtl
    <3> QED
      BY <3>1
  <2>4. ASSUME NEW r \in Requests, DecideUnset(r)
        PROVE  NeverForgotten'
    BY <2>4 DEF DecideUnset
  <2>5. CASE Tick
    <3>1. CASE ttl = 1
      BY <2>5, <3>1, SMT DEF Tick, Drop
    <3>2. CASE ttl # 1
      <4>1. count' = count /\ at' = at /\ (ttl' = NoTtl => ttl = NoTtl)
        BY <2>5, <3>2, SMT DEF Tick, TypeOK, NoTtl
      <4> QED
        BY <4>1
    <3> QED
      BY <3>1, <3>2
  <2>6. CASE Evict
    BY <2>6, SMT DEF Evict, Drop
  <2>7. CASE UNCHANGED vars
    BY <2>7 DEF vars, requestVars
  <2> QED
    BY <2>1, <2>2, <2>3, <2>4, <2>5, <2>6, <2>7 DEF Next
<1> QED
  BY <1>1, <1>2, LimiterIsInvariant, PTL DEF PipelineSpec

-----------------------------------------------------------------------------
(* The types. *)

(* The code the filter gives each status and body there is (global-         *)
(* exception.filter.ts:32-104).                                             *)
LEMMA FilteredCodes ==
    /\ Filtered(400, "none") = [status |-> 400, code |-> "VALIDATION_ERROR"]
    /\ Filtered(404, "none") = [status |-> 404, code |-> "INTERNAL_ERROR"]
    /\ Filtered(500, "none") = [status |-> 500, code |-> "INTERNAL_ERROR"]
    /\ Filtered(503, "none") = [status |-> 503, code |-> "SERVICE_UNAVAILABLE"]
    /\ Filtered(400, "VALIDATION_ERROR") = [status |-> 400, code |-> "VALIDATION_ERROR"]
    /\ Filtered(429, "RATE_LIMIT_EXCEEDED") = [status |-> 429, code |-> "RATE_LIMIT_EXCEEDED"]
BY SMT DEF Filtered, StatusToCode

(* What each cause is answered with. *)
Answers ==
    { <<"badBody", [status |-> 400, code |-> "VALIDATION_ERROR"]>>,
      <<"badPath", [status |-> 400, code |-> "VALIDATION_ERROR"]>>,
      <<"noRoute", [status |-> 404, code |-> "INTERNAL_ERROR"]>>,
      <<"limit", [status |-> 429, code |-> "RATE_LIMIT_EXCEEDED"]>>,
      <<"result", [status |-> 200, code |-> "none"]>>,
      <<"queueFull", [status |-> 200, code |-> "QUEUE_FULL"]>>,
      <<"deadline", [status |-> 200, code |-> "REQUEST_TIMEOUT"]>>,
      <<"unparsed", [status |-> 500, code |-> "INTERNAL_ERROR"]>>,
      <<"exception", [status |-> 500, code |-> "INTERNAL_ERROR"]>>,
      <<"down", [status |-> 503, code |-> "SERVICE_UNAVAILABLE"]>> }

Causes == {"badBody", "badPath", "noRoute", "unparsed", "limit", "result", "queueFull",
           "deadline", "exception", "down", "none"}

Codes == {"VALIDATION_ERROR", "INTERNAL_ERROR", "RATE_LIMIT_EXCEEDED", "QUEUE_FULL",
          "REQUEST_TIMEOUT", "SERVICE_UNAVAILABLE", "none"}

(* The answers are answers, and none is the missing one. *)
LEMMA AnswersTypes ==
    /\ NoAnswer \in [status : Nat, code : Codes]
    /\ \A a, c : <<c, a>> \in Answers =>
           a # NoAnswer /\ a \in [status : Nat, code : Codes] /\ c \in Causes
BY SMT DEF Answers, NoAnswer, Causes, Codes

PipelineInv ==
    /\ PipelineTypeOK
    /\ cause \in [Requests -> Causes]
    /\ answer \in [Requests -> [status : Nat, code : Codes]]
    /\ \A r \in Requests :
          IF stage[r] = "answered"
          THEN <<cause[r], answer[r]>> \in Answers
          ELSE cause[r] = "none" /\ answer[r] = NoAnswer

(* A step that answers one request. *)
LEMMA Answered ==
    ASSUME PipelineInv, TypeOK', NEW r \in Requests, NEW a, NEW c, Reply(r, a, c),
           <<c, a>> \in Answers, at'[r] # "counted", \A q \in Requests \ {r} : at'[q] = at[q]
    PROVE  PipelineInv'
<1> USE DEF PipelineInv, PipelineTypeOK
<1>1. a # NoAnswer /\ a \in [status : Nat, code : Codes] /\ c \in Causes
  BY AnswersTypes
<1>2. /\ stage' \in [Requests -> {"idle", "guard", "handler", "answered"}]
      /\ route' \in [Requests -> Routes \cup {"none"}]
      /\ valid' \in [Requests -> BOOLEAN]
      /\ cause' \in [Requests -> Causes]
      /\ answer' \in [Requests -> [status : Nat, code : Codes]]
  BY <1>1 DEF Reply
<1>3. /\ stage'[r] = "answered" /\ route'[r] = "none"
      /\ cause'[r] = c /\ answer'[r] = a
  BY DEF Reply
<1>4. ASSUME NEW q \in Requests, q # r
      PROVE  /\ stage'[q] = stage[q] /\ route'[q] = route[q]
             /\ cause'[q] = cause[q] /\ answer'[q] = answer[q]
  BY <1>4 DEF Reply
<1>5. ASSUME NEW q \in Requests
      PROVE  /\ stage'[q] \in {"guard", "handler"} <=> route'[q] # "none"
             /\ at'[q] = "counted" => stage'[q] = "guard"
             /\ answer'[q] # NoAnswer <=> stage'[q] = "answered"
             /\ stage'[q] = "answered" => <<cause'[q], answer'[q]>> \in Answers
             /\ stage'[q] # "answered" => cause'[q] = "none" /\ answer'[q] = NoAnswer
  <2>1. CASE q = r
    BY <1>1, <1>3, <2>1
  <2>2. CASE q # r
    BY <1>4, <2>2
  <2> QED
    BY <2>1, <2>2
<1> QED
  BY <1>2, <1>5

(* A step that changes no answer. *)
LEMMA NotAnswered ==
    ASSUME PipelineInv, TypeOK', UNCHANGED <<stage, route, valid, cause, answer>>,
           \A q \in Requests : at'[q] = "counted" => at[q] = "counted" \/ stage[q] = "guard"
    PROVE  PipelineInv'
BY DEF PipelineInv, PipelineTypeOK

(* No request is answered in the beginning. *)
LEMMA PipelineStarts == PipelineInit => PipelineInv
<1> SUFFICES ASSUME PipelineInit PROVE PipelineInv
  OBVIOUS
<1>1. TypeOK
  BY LimiterStarts DEF PipelineInit, LimiterInv
<1>2. valid \in [Requests -> BOOLEAN]
  BY DEF PipelineInit
<1>3. NoAnswer \in [status : Nat, code : Codes] /\ "none" \in Causes
  BY AnswersTypes DEF Causes
<1> QED
  BY <1>1, <1>2, <1>3 DEF PipelineInit, Init, PipelineInv, PipelineTypeOK

(* Each step of the pipeline keeps what answers and causes are to each      *)
(* other.                                                                   *)
LEMMA PipelineStep ==
    ASSUME PipelineInv, LimiterInv, [PipelineNext]_pipelineVars
    PROVE  PipelineInv'
<1>1. TypeOK'
  BY LimiterSteps, LimiterStep DEF LimiterInv
<1>2. at \in [Requests -> {"idle", "counted", "admitted", "rejected"}]
  BY DEF LimiterInv, TypeOK
<1>3. \A r \in Requests : at[r] = "counted" => stage[r] = "guard"
  BY DEF PipelineInv, PipelineTypeOK
<1>4. ASSUME NEW r \in Requests, Turn(r)
      PROVE  PipelineInv'
  <2>1. at' = at /\ at[r] # "counted"
    BY <1>3, <1>4 DEF Turn, Free, vars, requestVars
  <2>2. \/ Reply(r, [status |-> 400, code |-> "VALIDATION_ERROR"], "badBody")
        \/ Reply(r, [status |-> 400, code |-> "VALIDATION_ERROR"], "badPath")
        \/ Reply(r, [status |-> 404, code |-> "INTERNAL_ERROR"], "noRoute")
        \/ Reply(r, [status |-> 500, code |-> "INTERNAL_ERROR"], "unparsed")
    BY <1>4, FilteredCodes DEF Turn
  <2> QED
    BY <1>1, <2>1, <2>2, Answered DEF Answers
<1>5. ASSUME NEW r \in Requests, Receive(r)
      PROVE  PipelineInv'
  <2>1. at' = at /\ at[r] # "counted"
    BY <1>3, <1>5 DEF Receive, Free, vars, requestVars
  <2>2. PICK to \in Routes, b \in Bodies :
            /\ route' = [route EXCEPT ![r] = to]
            /\ valid' = [valid EXCEPT ![r] = to = "audit" /\ Satisfies(b)]
    BY <1>5 DEF Receive
  <2>3. valid' \in [Requests -> BOOLEAN]
    BY <2>2, Zenon DEF PipelineInv, PipelineTypeOK
  <2>4. to # "none" /\ NoAnswer \in [status : Nat, code : Codes] /\ "none" \in Causes
    BY AnswersTypes DEF Routes, Causes
  <2> QED
    BY <1>1, <1>5, <2>1, <2>2, <2>3, <2>4 DEF Receive, PipelineInv, PipelineTypeOK
<1>6. ASSUME NEW r \in Requests, GuardCounts(r)
      PROVE  PipelineInv'
  BY <1>1, <1>2, <1>6, NotAnswered DEF GuardCounts, Count
<1>7. ASSUME NEW r \in Requests, GuardDecides(r)
      PROVE  PipelineInv'
  <2>1. /\ at'[r] # "counted"
        /\ \A q \in Requests \ {r} : at'[q] = at[q]
    BY <1>2, <1>7 DEF GuardDecides, FailOpen, Decide, DecideUnset, Answer, Verdict
  <2>2. \/ Reply(r, [status |-> 429, code |-> "RATE_LIMIT_EXCEEDED"], "limit")
        \/ Reply(r, [status |-> 400, code |-> "VALIDATION_ERROR"], "badBody")
        \/ /\ stage' = [stage EXCEPT ![r] = "handler"]
           /\ UNCHANGED <<route, valid, cause, answer>>
    BY <1>7, FilteredCodes DEF GuardDecides, Proceed
  <2>3. CASE stage' = [stage EXCEPT ![r] = "handler"] /\ UNCHANGED <<route, valid, cause, answer>>
    BY <1>1, <1>7, <2>1, <2>3 DEF GuardDecides, PipelineInv, PipelineTypeOK
  <2> QED
    BY <1>1, <2>1, <2>2, <2>3, Answered DEF Answers
<1>8. ASSUME NEW r \in Requests, HandlerEnds(r)
      PROVE  PipelineInv'
  <2>1. at' = at /\ at[r] # "counted"
    BY <1>3, <1>8 DEF HandlerEnds, AuditEnds, ReadyEnds, OtherEnds, vars, requestVars
  <2>2. \/ Reply(r, [status |-> 200, code |-> "none"], "result")
        \/ Reply(r, [status |-> 200, code |-> "QUEUE_FULL"], "queueFull")
        \/ Reply(r, [status |-> 200, code |-> "REQUEST_TIMEOUT"], "deadline")
        \/ Reply(r, [status |-> 500, code |-> "INTERNAL_ERROR"], "exception")
        \/ Reply(r, [status |-> 503, code |-> "SERVICE_UNAVAILABLE"], "down")
    BY <1>8, FilteredCodes DEF HandlerEnds, AuditEnds, ReadyEnds, OtherEnds, Ok
  <2> QED
    BY <1>1, <2>1, <2>2, Answered DEF Answers
<1>9. CASE Second \/ Eviction \/ UNCHANGED pipelineVars
  BY <1>1, <1>9, NotAnswered
     DEF Second, Tick, Eviction, Evict, pipelineVars, vars, requestVars
<1> QED
  BY <1>4, <1>5, <1>6, <1>7, <1>8, <1>9 DEF PipelineNext

(* So it holds in every reachable state. *)
LEMMA PipelineIsInvariant == PipelineSpec => []PipelineInv
<1>1. PipelineInv /\ LimiterInv /\ [PipelineNext]_pipelineVars => PipelineInv'
  BY PipelineStep
<1> QED
  BY <1>1, PipelineStarts, LimiterIsInvariant, PTL DEF PipelineSpec

(* The types of the requests and of the limiter (rate-limit.guard.ts,       *)
(* zod-validation.pipe.ts, global-exception.filter.ts).                     *)
THEOREM Typing == PipelineSpec => []PipelineTypeOK
BY PipelineIsInvariant, PTL DEF PipelineInv

(* When two pairs are the same set. *)
LEMMA SamePair ==
    ASSUME NEW a, NEW b, NEW c, NEW d
    PROVE  {a, b} = {c, d} <=> (a = c /\ b = d) \/ (a = d /\ b = c)
<1>1. ASSUME {a, b} = {c, d}
      PROVE  a \in {c, d} /\ b \in {c, d} /\ c \in {a, b} /\ d \in {a, b}
  BY <1>1, Zenon
<1> QED
  BY <1>1, Zenon

(* The rows of the table of answers, by status and code. *)
Row(c, a) ==
    \/ c = "badBody" /\ a.status = 400 /\ a.code = "VALIDATION_ERROR"
    \/ c = "badPath" /\ a.status = 400 /\ a.code = "VALIDATION_ERROR"
    \/ c = "noRoute" /\ a.status = 404 /\ a.code = "INTERNAL_ERROR"
    \/ c = "limit" /\ a.status = 429 /\ a.code = "RATE_LIMIT_EXCEEDED"
    \/ c = "result" /\ a.status = 200 /\ a.code = "none"
    \/ c = "queueFull" /\ a.status = 200 /\ a.code = "QUEUE_FULL"
    \/ c = "deadline" /\ a.status = 200 /\ a.code = "REQUEST_TIMEOUT"
    \/ c = "unparsed" /\ a.status = 500 /\ a.code = "INTERNAL_ERROR"
    \/ c = "exception" /\ a.status = 500 /\ a.code = "INTERNAL_ERROR"
    \/ c = "down" /\ a.status = 503 /\ a.code = "SERVICE_UNAVAILABLE"
    \/ c = "none" /\ a.status = 0 /\ a.code = "none"

(* Two rows agree in status and code exactly if they have one cause or one *)
(* of the pairs that nobody can tell apart.                                 *)
LEMMA RowsDiffer ==
    ASSUME NEW c, NEW a, NEW d, NEW b, Row(c, a), Row(d, b)
    PROVE  a.status = b.status /\ a.code = b.code <=>
              \/ c = d
              \/ c = "badBody" /\ d = "badPath"
              \/ c = "badPath" /\ d = "badBody"
              \/ c = "unparsed" /\ d = "exception"
              \/ c = "exception" /\ d = "unparsed"
BY SMTT(60) DEF Row

(* Whatever the number of requests, answers of one status and code have one *)
(* cause, but for a bad body and a bad path, and for an error of the parser *)
(* and one of the handler, which nobody can tell apart; and one cause has   *)
(* one answer (global-exception.filter.ts:32-104,                           *)
(* audit.controller.ts:68-102).                                             *)
THEOREM CausesAreTold == PipelineSpec => []AnswersTellCauses
<1>1. ASSUME PipelineInv, NEW q \in Requests, NEW r \in Requests
      PROVE  answer[q] = answer[r] <=>
                 cause[q] = cause[r] \/ {cause[q], cause[r]} \in Alike
  <2> DEFINE Table == Answers \cup { <<"none", NoAnswer>> }
  <2>1. <<cause[q], answer[q]>> \in Table /\ <<cause[r], answer[r]>> \in Table
    BY <1>1 DEF PipelineInv
  <2>2. ASSUME NEW a, NEW b, NEW c, NEW d, <<c, a>> \in Table, <<d, b>> \in Table
        PROVE  a = b <=> c = d \/ {c, d} \in Alike
    <3>1. {c, d} \in Alike <=> \/ c = "badBody" /\ d = "badPath"
                               \/ c = "badPath" /\ d = "badBody"
                               \/ c = "unparsed" /\ d = "exception"
                               \/ c = "exception" /\ d = "unparsed"
      <4>1. {c, d} \in Alike <=> \/ {c, d} = {"badBody", "badPath"}
                                 \/ {c, d} = {"unparsed", "exception"}
        BY Zenon DEF Alike
      <4>2. {c, d} = {"badBody", "badPath"} <=> \/ c = "badBody" /\ d = "badPath"
                                                \/ c = "badPath" /\ d = "badBody"
        BY SamePair
      <4>3. {c, d} = {"unparsed", "exception"} <=> \/ c = "unparsed" /\ d = "exception"
                                                   \/ c = "exception" /\ d = "unparsed"
        BY SamePair
      <4> QED
        BY <4>1, <4>2, <4>3, Zenon
    <3>2. Row(c, a) /\ Row(d, b)
      BY <2>2 DEF Answers, NoAnswer, Row
    <3>3. a \in [status : Nat, code : Codes] /\ b \in [status : Nat, code : Codes]
      BY <2>2, AnswersTypes, Zenon
    <3>4. a.status = b.status /\ a.code = b.code <=>
              \/ c = d
              \/ c = "badBody" /\ d = "badPath"
              \/ c = "badPath" /\ d = "badBody"
              \/ c = "unparsed" /\ d = "exception"
              \/ c = "exception" /\ d = "unparsed"
      BY <3>2, RowsDiffer
    <3> QED
      BY <3>1, <3>3, <3>4
  <2> HIDE DEF Table
  <2> QED
    BY <2>1, <2>2
<1>2. PipelineInv => AnswersTellCauses
  BY <1>1 DEF AnswersTellCauses
<1> QED
  BY <1>2, PipelineIsInvariant, PTL
=============================================================================
