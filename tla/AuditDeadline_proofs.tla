------------------------- MODULE AuditDeadline_proofs -------------------------
(***************************************************************************)
(* Theorems about a request that waits for its audit and the worker slot   *)
(* that makes it, for every timeout, number of retries, back-off, buffer   *)
(* and poll interval.                                                      *)
(***************************************************************************)
EXTENDS AuditDeadline, WellFoundedInduction, TLAPS

(* A set of numbers has a least one: induction, as a fact about sets. *)
LEMMA LeastNumber ==
    ASSUME NEW S, S \subseteq Nat, S # {}
    PROVE  \E n \in S : \A m \in S : n <= m
<1> DEFINE Below == {p \in Nat \X Nat : p[1] < p[2]}
<1>1. IsWellFoundedOn(Below, Nat)
  BY NatLessThanWellFounded, Zenon DEF OpToRel
<1>2. PICK n \in S : \A m \in S : <<m, n>> \notin Below
  <2> HIDE DEF Below
  <2> QED
    BY <1>1, WFMin, Zenon
<1>3. ASSUME NEW m \in S
      PROVE  n <= m
  <2>1. m \in Nat /\ n \in Nat
    OBVIOUS
  <2>2. m < n => <<m, n>> \in Below
    BY <2>1, SMT
  <2> HIDE DEF Below
  <2> QED
    BY <1>2, <2>1, <2>2, SMT
<1> QED
  BY <1>3, Zenon

(* The powers of two up to the last retry are positive and never above the  *)
(* last one. The first that is not positive would be twice one that is; the *)
(* last that is above would be half of one that is not.                     *)
LEMMA PowersGrow ==
    \A n \in 0..MaxRetries : 2^n \in Nat \ {0} /\ 2^n <= 2^MaxRetries
<1> USE HttpFetchAssumption DEF HttpFetchAssumption
<1> DEFINE Positive(n) == 2^n \in Nat \ {0}
           Bad == {n \in 0..MaxRetries : ~Positive(n)}
           Above == {k \in 0..MaxRetries : ~(2^(MaxRetries - k) <= 2^MaxRetries)}
<1>1. \A n \in 0..MaxRetries : Positive(n)
  <2> SUFFICES ASSUME Bad # {} PROVE FALSE
    OBVIOUS
  <2>1. PICK n \in Bad : \A m \in Bad : n <= m
    <3>1. Bad \subseteq Nat
      BY SMT
    <3> HIDE DEF Bad
    <3> QED
      BY <3>1, LeastNumber, Zenon
  <2>2. n # 0
    <3>1. Positive(0)
      BY PowersOfTwo, SMT
    <3> HIDE DEF Positive
    <3> QED
      BY <3>1, SMT
  <2>3. Positive(n - 1) /\ n - 1 \in 0..MaxRetries
    BY <2>1, <2>2, SMT
  <2>4. 2^(n - 1 + 1) = 2 * 2^(n - 1) /\ n - 1 + 1 = n
    BY <2>3, PowersOfTwo, SMT
  <2> QED
    BY <2>3, <2>4, SMT
<1>2. Above = {}
  <2> SUFFICES ASSUME Above # {} PROVE FALSE
    OBVIOUS
  <2>1. PICK k \in Above : \A m \in Above : k <= m
    <3>1. Above \subseteq Nat
      BY SMT
    <3> HIDE DEF Above
    <3> QED
      BY <3>1, LeastNumber, Zenon
  <2>2. k # 0
    BY <1>1, SMT
  <2>3. k - 1 \in 0..MaxRetries /\ k - 1 \notin Above
    BY <2>1, <2>2, SMT
  <2>4. 2^(MaxRetries - (k - 1)) <= 2^MaxRetries
    BY <2>3
  <2>5. /\ MaxRetries - k \in 0..MaxRetries
        /\ MaxRetries - (k - 1) = MaxRetries - k + 1
    BY <2>3, SMT
  <2>6. 2^(MaxRetries - (k - 1)) = 2 * 2^(MaxRetries - k)
    BY <2>5, PowersOfTwo
  <2> HIDE DEF Above
  <2>7. 2^(MaxRetries - k) \in Nat /\ 2^MaxRetries \in Nat
    BY <1>1, <2>5, SMT
  <2>8. 2^(MaxRetries - k) <= 2^MaxRetries
    BY <2>4, <2>6, <2>7, SMT
  <2> QED
    BY <2>8 DEF Above
<1>3. ASSUME NEW n \in 0..MaxRetries
      PROVE  2^n <= 2^MaxRetries
  <2>1. MaxRetries - n \in 0..MaxRetries /\ MaxRetries - (MaxRetries - n) = n
    BY SMT
  <2> QED
    BY <1>2, <2>1
<1> QED
  BY <1>1, <1>3

-----------------------------------------------------------------------------
(* The budget of a fetch. *)

(* What n + 1 attempts and the back-offs between them may take. *)
Spent(n) == (n + 1) * Timeout + BaseDelay * (2^n - 1)

(* Spent(n) bounds what a fetch has used by the end of attempt n; it is     *)
(* never above WorstCase.                                                   *)
LEMMA SpentGrows ==
    ASSUME NEW n \in 0..MaxRetries
    PROVE  /\ Spent(n) \in Nat
           /\ Spent(n) <= WorstCase
           /\ BaseDelay * 2^n \in Nat
<1>1. 2^n \in Nat \ {0} /\ 2^MaxRetries \in Nat \ {0} /\ 2^n <= 2^MaxRetries
  BY HttpFetchAssumption, PowersGrow, SMT DEF HttpFetchAssumption
<1>2. (n + 1) * Timeout <= (MaxRetries + 1) * Timeout
  BY HttpFetchAssumption, SMT DEF HttpFetchAssumption
<1>3. BaseDelay * (2^n - 1) <= BaseDelay * (2^MaxRetries - 1)
  <2> DEFINE x == 2^n - 1
             y == 2^MaxRetries - 1
  <2>1. x \in Nat /\ y \in Nat /\ x <= y
    BY <1>1, SMT
  <2> HIDE DEF x, y
  <2>2. BaseDelay * x <= BaseDelay * y
    BY <2>1, HttpFetchAssumption, SMT DEF HttpFetchAssumption
  <2> QED
    BY <2>2 DEF x, y
<1> QED
  BY <1>1, <1>2, <1>3, HttpFetchAssumption, SMT DEF HttpFetchAssumption, Spent, WorstCase

(* One more attempt adds its timeout and the back-off before it. *)
LEMMA SpentNext ==
    ASSUME NEW n \in 0..MaxRetries, n # MaxRetries
    PROVE  Spent(n + 1) = Spent(n) + Timeout + BaseDelay * 2^n
<1>1. 2^n \in Nat /\ 2^(n + 1) = 2 * 2^n
  BY PowersOfTwo, PowersGrow
<1> QED
  BY <1>1, HttpFetchAssumption, SMT DEF HttpFetchAssumption, Spent

-----------------------------------------------------------------------------
(* A fetch. *)

(* What has passed, with what is still to wait for, is within the budget of *)
(* the attempts made so far; the timer is armed exactly during an attempt.  *)
FetchInv ==
    /\ TypeOK
    /\ timer # Off <=> pc \in {"fetching", "reading"}
    /\ pc = "backoff" => elapsed + delay + Timeout <= Spent(attempt)
    /\ pc \in {"fetching", "reading"} => elapsed + timer <= Spent(attempt)
    /\ elapsed <= Spent(attempt)

(* No fetch has begun: nothing is spent. *)
LEMMA FetchInit == Init => FetchInv
<1> SUFFICES ASSUME Init PROVE FetchInv
  OBVIOUS
<1>1. Spent(0) \in Nat
  BY SpentGrows, HttpFetchAssumption DEF HttpFetchAssumption
<1> QED
  BY <1>1, HttpFetchAssumption
     DEF HttpFetchAssumption, Init, FetchInv, TypeOK, Off, NoResult

(* Each step of the slot keeps a fetch within the budget of its attempts. *)
LEMMA FetchStep ==
    ASSUME FetchInv, [Next]_vars
    PROVE  FetchInv'
<1> USE HttpFetchAssumption DEF HttpFetchAssumption, FetchInv, TypeOK, Off
<1>1. Spent(attempt) \in Nat /\ Spent(0) \in Nat /\ Timeout <= Spent(0)
  BY SpentGrows, PowersOfTwo, SMT DEF Spent
<1> HIDE DEF FetchInv
<1>2. CASE Begin
  BY <1>1, <1>2, SMT DEF Begin, NoResult, FetchInv
<1>3. CASE Send \/ Respond \/ Read \/ Abort \/ Tick
  BY <1>1, <1>3, SMT DEF Send, Respond, Read, Abort, Tick, FetchInv
<1>4. ASSUME NEW error \in {"retryable", "other"}, Break(error)
      PROVE  FetchInv'
  <2>1. CASE GiveUp(error)
    BY <1>1, <1>4, <2>1, SMT DEF Break, FetchInv
  <2>2. CASE ~GiveUp(error)
    <3>1. attempt # MaxRetries /\ attempt \in 0..MaxRetries
      BY <2>2 DEF GiveUp, FetchInv
    <3>2. /\ attempt' = attempt + 1
          /\ delay' = BaseDelay * 2^attempt
          /\ pc' = "backoff" /\ timer' = -1 /\ lastError' = error
          /\ UNCHANGED <<status, result, elapsed>>
      BY <1>4, <2>2 DEF Break, Backoff
    <3>3. Spent(attempt') = Spent(attempt) + Timeout + delay' /\ delay' \in Nat
      BY <3>1, <3>2, SpentNext, SpentGrows
    <3>4. elapsed <= Spent(attempt) /\ elapsed \in Nat
      BY DEF FetchInv
    <3>5. elapsed' + delay' + Timeout <= Spent(attempt') /\ elapsed' <= Spent(attempt')
      BY <1>1, <3>2, <3>3, <3>4, SMT
    <3> QED
      BY <3>1, <3>2, <3>3, <3>5, SMT DEF FetchInv
  <2> QED
    BY <2>1, <2>2
<1>5. CASE Record
  BY <1>1, <1>5, SMT DEF Record, Outcome, FetchInv
<1>6. CASE UNCHANGED vars
  BY <1>6 DEF vars, FetchInv
<1> QED
  BY <1>2, <1>3, <1>4, <1>5, <1>6 DEF Next

(* To the slot a step of the composition is one of its own, or none. *)
LEMMA SlotSteps ==
    ASSUME [DeadlineNext]_allVars
    PROVE  [Next]_vars
<1>1. CASE Take \/ FetchTimers \/ TargetActs \/ Save \/ Store
  BY <1>1 DEF Take, FetchTimers, TargetActs, Save, Store, Next
<1>2. CASE Dispatch \/ WaitSteps
  BY <1>2 DEF Dispatch, WaitSteps, Look, Executed, Hit, Miss, TimeIsUp
<1>3. CASE TimePasses
  BY <1>3 DEF TimePasses, SlotTicks, SlotWaits, Next
<1>4. CASE UNCHANGED allVars
  BY <1>4 DEF allVars
<1> QED
  BY <1>1, <1>2, <1>3, <1>4 DEF DeadlineNext

(* The slot of the composition is the slot by itself: what holds of one     *)
(* fetch after another holds with a request that waits for one of them      *)
(* (audit.processor.ts:91-158).                                             *)
THEOREM SlotRunsFetches == DeadlineSpec => Init /\ [][Next]_vars
<1>1. DeadlineInit => Init
  BY DEF DeadlineInit
<1>2. [DeadlineNext]_allVars => [Next]_vars
  BY SlotSteps
<1> QED
  BY <1>1, <1>2, PTL DEF DeadlineSpec

(* So its invariant holds in the composition. *)
LEMMA FetchIsInvariant == DeadlineSpec => []FetchInv
<1>1. FetchInv /\ [Next]_vars => FetchInv'
  BY FetchStep
<1> QED
  BY <1>1, FetchInit, SlotRunsFetches, PTL

(* The worst case is a number, and no fetch takes longer. *)
LEMMA WithinWorstCase ==
    ASSUME FetchInv
    PROVE  WorstCase \in Nat /\ elapsed <= WorstCase
<1>1. attempt \in 0..MaxRetries /\ elapsed \in Nat /\ elapsed <= Spent(attempt)
  BY DEF FetchInv, TypeOK
<1>2. Spent(attempt) \in Nat /\ Spent(attempt) <= WorstCase
  BY <1>1, SpentGrows
<1>3. WorstCase \in Int
  BY PowersGrow, HttpFetchAssumption, SMT DEF WorstCase, HttpFetchAssumption
<1> QED
  BY <1>1, <1>2, <1>3, SMT

(* A worker slot is never held by one target for longer than all attempts   *)
(* and all back-offs take (http-client.util.ts:23-84).                      *)
THEOREM FetchIsBounded == DeadlineSpec => []ElapsedBounded
<1>1. FetchInv => ElapsedBounded
  BY WithinWorstCase DEF ElapsedBounded
<1> QED
  BY <1>1, FetchIsInvariant, PTL

(* What a fetch has still before it: time of its budget, attempts, and the  *)
(* steps of the attempt it is in.                                           *)
StepsLeft ==
    CASE pc = "backoff" -> 4
      [] pc = "fetching" -> 3
      [] pc = "reading" -> 2
      [] pc \in {"returned", "threw"} -> 1
      [] OTHER -> 0

FetchLeft == (WorstCase - elapsed) + 3 * (MaxRetries - attempt) + StepsLeft

(* Fewer steps to the next tick or attempt, and less is left. *)
LEMMA FewerSteps ==
    ASSUME NEW rest \in Int, NEW m \in Int, NEW n \in Int, n < m
    PROVE  rest + n < rest + m
BY SMT

(* Every step of a fetch, the target's included, brings it nearer to its    *)
(* end, which so comes after a number of steps that is known when it        *)
(* begins: no target can keep a slot busy (http-client.util.ts:23-92). That *)
(* is the variant behind FetchEnds; the rest of it is fairness.             *)
THEOREM FetchesAdvance ==
    DeadlineSpec => [](FetchLeft \in Nat) /\ [][pc # "idle" => FetchLeft' < FetchLeft]_vars
<1>1. FetchInv => FetchLeft \in Nat
  <2> SUFFICES ASSUME FetchInv PROVE FetchLeft \in Nat
    OBVIOUS
  <2>1. WorstCase - elapsed \in Nat
    BY WithinWorstCase, SMT DEF FetchInv, TypeOK
  <2>2. MaxRetries - attempt \in Nat
    BY HttpFetchAssumption, SMT DEF HttpFetchAssumption, FetchInv, TypeOK
  <2>3. StepsLeft \in 0..4
    BY SMT DEF StepsLeft
  <2> QED
    BY <2>1, <2>2, <2>3, SMT DEF FetchLeft
<1>2. FetchInv /\ [DeadlineNext]_allVars => [pc # "idle" => FetchLeft' < FetchLeft]_vars
  <2> SUFFICES ASSUME FetchInv, Next, pc # "idle"
               PROVE  FetchLeft' < FetchLeft
    BY SlotSteps
  <2>1. /\ WorstCase \in Nat /\ WorstCase' = WorstCase
        /\ elapsed \in Nat /\ attempt \in 0..MaxRetries /\ MaxRetries \in Nat
    BY WithinWorstCase, HttpFetchAssumption, SMT
       DEF HttpFetchAssumption, FetchInv, TypeOK, WorstCase
  <2> HIDE DEF WorstCase
  <2>2. CASE Begin
    BY <2>2 DEF Begin
  <2>3. CASE Send \/ Respond \/ Read \/ Abort \/ Record
    <3>1. elapsed' = elapsed /\ attempt' = attempt
      BY <2>3 DEF Send, Respond, Read, Abort, Record
    <3>2. StepsLeft \in 0..4 /\ StepsLeft' \in 0..4 /\ StepsLeft' < StepsLeft
      BY <2>3, SMT DEF Send, Respond, Read, Abort, Record, StepsLeft
    <3> DEFINE rest == (WorstCase - elapsed) + 3 * (MaxRetries - attempt)
    <3>3. rest' = rest /\ rest \in Int
      BY <2>1, <3>1
    <3>4. FetchLeft = rest + StepsLeft /\ FetchLeft' = rest + StepsLeft'
      BY <3>3 DEF FetchLeft
    <3>5. StepsLeft \in Int /\ StepsLeft' \in Int
      BY <3>2
    <3> HIDE DEF rest
    <3> QED
      BY <3>2, <3>3, <3>4, <3>5, FewerSteps, Zenon
  <2>4. ASSUME NEW error \in {"retryable", "other"}, Break(error)
        PROVE  FetchLeft' < FetchLeft
    <3>1. CASE GiveUp(error)
      <4>1. elapsed' = elapsed /\ attempt' = attempt /\ StepsLeft' = 1 /\ StepsLeft \in 2..4
        BY <2>4, <3>1, SMT DEF Break, StepsLeft
      <4> QED
        BY <2>1, <4>1, SMT DEF FetchLeft
    <3>2. CASE ~GiveUp(error)
      <4>1. /\ elapsed' = elapsed /\ attempt' = attempt + 1
            /\ StepsLeft' = 4 /\ StepsLeft \in 2..4
        BY <2>4, <3>2, SMT DEF Break, StepsLeft
      <4> QED
        BY <2>1, <4>1, SMT DEF FetchLeft
    <3> QED
      BY <3>1, <3>2
  <2>5. CASE Tick
    <3>1. /\ elapsed' = elapsed + 1 /\ attempt' = attempt
          /\ StepsLeft' = StepsLeft /\ StepsLeft \in 0..4
      BY <2>5, SMT DEF Tick, StepsLeft
    <3> QED
      BY <2>1, <3>1, SMT DEF FetchLeft
  <2> QED
    BY <2>2, <2>3, <2>4, <2>5 DEF Next
<1> QED
  BY <1>1, <1>2, FetchIsInvariant, PTL DEF DeadlineSpec

(* A result says what became of the target: it is reachable only when a     *)
(* whole response below 500 was read in time, and a fetch that timed out is *)
(* a 504 whatever had arrived, status included (audit.processor.ts:100-147).*)
THEOREM ResultsTellCauses == DeadlineSpec => ResultTellsCause
<1> DEFINE Told == pc # "idle" /\ pc' = "idle" =>
                     /\ result'.reachable => pc = "returned" /\ status < 500
                     /\ pc = "threw" /\ lastError = "timeout" => result'.statusCode = 504
<1>1. [DeadlineNext]_allVars => [Told]_vars
  <2> SUFFICES ASSUME [Next]_vars, vars' # vars, pc # "idle", pc' = "idle"
               PROVE  /\ result'.reachable => pc = "returned" /\ status < 500
                      /\ pc = "threw" /\ lastError = "timeout" => result'.statusCode = 504
    BY SlotSteps
  <2>1. Record
    BY DEF Next, Begin, Send, Respond, Read, Abort, Break, Tick
  <2> QED
    BY <2>1 DEF Record, Outcome
<1> QED
  BY <1>1, PTL DEF DeadlineSpec, ResultTellsCause

-----------------------------------------------------------------------------
(* The wait. *)

(* pollInterval grows up to MaxPoll and no further (audit.service.ts:81). *)
LEMMA IntervalGrows ==
    ASSUME interval \in MinPoll..MaxPoll
    PROVE  Grown \in MinPoll..MaxPoll
BY AuditDeadlineAssumption, SMT DEF AuditDeadlineAssumption, Grown

(* The wait's own types: a read takes up to CommandTime, a sleep up to      *)
(* MaxPoll; a job that is running holds the slot.                           *)
WaitInv ==
    /\ DeadlineTypeOK
    /\ phase = "idle" => clock = 0 /\ left = 0
    /\ phase = "sleeping" => left <= MaxPoll
    /\ phase \in {"asked", "hit", "miss"} => left <= CommandTime
    /\ job = "running" => pc # "idle"

(* The wait's types hold in the beginning. *)
LEMMA WaitStarts == DeadlineInit => WaitInv
<1> SUFFICES ASSUME DeadlineInit PROVE WaitInv
  OBVIOUS
<1>1. TypeOK
  BY FetchInit DEF DeadlineInit, FetchInv
<1>2. prompt \in BOOLEAN /\ retried \in BOOLEAN /\ ~prompt /\ ~retried
  BY Zenon DEF DeadlineInit
<1>3. /\ left \in 0..(IF CommandTime > MaxPoll THEN CommandTime ELSE MaxPoll)
      /\ clock \in Nat /\ interval \in MinPoll..MaxPoll /\ left <= MaxPoll
  BY AuditDeadlineAssumption, SMT DEF AuditDeadlineAssumption, DeadlineInit
<1>4. writing \in Off..CommandTime /\ writing = Off
  BY AuditDeadlineAssumption, SMT DEF AuditDeadlineAssumption, DeadlineInit, Off
<1> QED
  BY <1>1, <1>2, <1>3, <1>4 DEF DeadlineInit, WaitInv, DeadlineTypeOK

(* The slot writes only between the end of a fetch and that of its job. *)
WriteInv == writing \in Off..CommandTime /\ (writing # Off => pc \in {"returned", "threw"})

(* Each step of request, slot and clock keeps it so. *)
LEMMA WriteStep ==
    ASSUME WriteInv, TypeOK, [DeadlineNext]_allVars
    PROVE  WriteInv'
<1> USE AuditDeadlineAssumption DEF AuditDeadlineAssumption, WriteInv, TypeOK, Off
<1>1. CASE Take
  BY <1>1, SMT DEF Take, Begin
<1>2. CASE FetchTimers \/ TargetActs
  BY <1>2, SMT DEF FetchTimers, Send, Abort, TargetActs, Respond, Read, Break, jobVars
<1>3. CASE Save \/ Store
  BY <1>3, SMT DEF Save, Store, Record, vars
<1>4. CASE Dispatch \/ WaitSteps
  BY <1>4 DEF Dispatch, WaitSteps, Look, Executed, Hit, Miss, TimeIsUp, jobVars, vars
<1>5. CASE TimePasses
  <2>1. pc' = pc /\ (writing' = writing \/ (writing > 0 /\ writing' = writing - 1))
    BY <1>5 DEF TimePasses, SlotTicks, SlotWaits, Tick, vars
  <2> QED
    BY <2>1, SMT
<1>6. CASE UNCHANGED allVars
  BY <1>6 DEF allVars, vars, jobVars
<1> QED
  BY <1>1, <1>2, <1>3, <1>4, <1>5, <1>6 DEF DeadlineNext

(* Each step of request, slot and clock keeps the wait's types. *)
LEMMA WaitStep ==
    ASSUME WaitInv, FetchInv, [DeadlineNext]_allVars
    PROVE  WaitInv'
<1> USE AuditDeadlineAssumption DEF AuditDeadlineAssumption, WaitInv, DeadlineTypeOK, Never
<1>1. /\ TypeOK'
      /\ writing' \in Off..CommandTime
      /\ writing' # Off => pc' \in {"returned", "threw"}
  <2>1. WriteInv
    BY DEF WriteInv
  <2> QED
    BY <2>1, WriteStep, SlotSteps, FetchStep DEF FetchInv, WriteInv
<1>2. CASE Take
  <2>1. /\ pc' = "backoff" /\ retried' = retried /\ storedAt' = storedAt
        /\ phase' = phase /\ clock' = clock /\ left' = left /\ interval' = interval
        /\ \/ job = "queued" /\ job' = "running" /\ prompt' \in BOOLEAN
           \/ job' = job /\ prompt' = prompt
    <3>1. (clock + 2 * CommandTime + MaxPoll < Buffer) \in BOOLEAN
      OBVIOUS
    <3> QED
      BY <1>2, <3>1, Zenon DEF Take, Begin, waitVars
  <2> QED
    BY <1>1, <2>1
<1>3. CASE FetchTimers \/ TargetActs
  <2>1. /\ phase' = phase /\ clock' = clock /\ left' = left /\ interval' = interval
        /\ job' = job /\ prompt' = prompt /\ storedAt' = storedAt
    BY <1>3 DEF FetchTimers, TargetActs, waitVars, jobVars
  <2>2. pc' # "idle"
    BY <1>3 DEF FetchTimers, Send, Abort, TargetActs, Respond, Read, Break
  <2>3. retried' \in BOOLEAN /\ (retried' => retried \/ job = "running")
    <3> DEFINE again == attempt' > 0
    <3>1. retried' = retried \/ retried' = (retried \/ (job = "running" /\ again))
      BY <1>3 DEF FetchTimers, TargetActs, jobVars
    <3>2. retried \in BOOLEAN
      OBVIOUS
    <3> HIDE DEF again
    <3>3. CASE retried \/ (job = "running" /\ again)
      BY <3>1, <3>2, <3>3, Zenon
    <3>4. CASE ~retried /\ ~(job = "running" /\ again)
      <4>1. ~(retried \/ (job = "running" /\ again))
        BY <3>4, Zenon
      <4>2. (retried \/ (job = "running" /\ again)) = FALSE /\ retried = FALSE
        BY <4>1, <3>2, SMT
      <4> QED
        BY <3>1, <4>2, Zenon
    <3> QED
      BY <3>3, <3>4, Zenon
  <2> QED
    BY <1>1, <2>1, <2>2, <2>3
<1>4. CASE Save \/ Store
  BY <1>1, <1>4, SMT DEF Save, Store, Record, waitVars, vars
<1>5. CASE Dispatch
  BY <1>1, <1>5, SMT DEF Dispatch, vars
<1>6. CASE Look \/ Executed \/ Hit \/ TimeIsUp
  BY <1>1, <1>6, SMT DEF Look, Executed, Hit, TimeIsUp, jobVars, vars
<1>7. CASE Miss
  BY <1>1, <1>7, IntervalGrows, SMT DEF Miss, jobVars, vars
<1>8. CASE TimePasses
  BY <1>1, <1>8, SMT DEF TimePasses, Waiting, SlotTicks, SlotWaits, Tick, jobVars, vars
<1>9. CASE UNCHANGED allVars
  BY <1>1, <1>9 DEF allVars, vars, waitVars, jobVars
<1> QED
  BY <1>2, <1>3, <1>4, <1>5, <1>6, <1>7, <1>8, <1>9 DEF DeadlineNext, WaitSteps

(* The types of the request (audit.service.ts:67-85), its job and the fetch *)
(* (audit.processor.ts:80-167).                                             *)
THEOREM Typing == DeadlineSpec => []DeadlineTypeOK
<1>1. DeadlineInit => WaitInv /\ FetchInv
  BY WaitStarts, FetchInit DEF DeadlineInit
<1>2. WaitInv /\ FetchInv /\ [DeadlineNext]_allVars => WaitInv' /\ FetchInv'
  BY WaitStep, SlotSteps, FetchStep
<1>3. WaitInv => DeadlineTypeOK
  BY DEF WaitInv
<1> QED
  BY <1>1, <1>2, <1>3, PTL DEF DeadlineSpec

-----------------------------------------------------------------------------
(* The deadline. *)

(* A read and a sleep. *)
Margin == CommandTime + MaxPoll

(* What is still to wait for at most: the loop ends at its next look at the *)
(* clock once maxWait has passed; a result it has not seen is no older than *)
(* its last read; and the first attempt of a job that was taken promptly    *)
(* ends, and its result is stored, a read and a sleep before maxWait.       *)
TimeInv ==
    /\ phase = "sleeping" => clock + left < maxWait + CommandTime + MaxPoll
    /\ phase \in {"asked", "hit", "miss"} => clock + left < maxWait + CommandTime
    /\ AnsweredInTime
    /\ phase \in {"miss", "sleeping"} /\ storedAt # Never =>
          clock + left <= storedAt + CommandTime + (IF phase = "miss" THEN 0 ELSE MaxPoll)
    /\ phase = "expired" => clock >= maxWait
    /\ EarlyResultServed
    /\ prompt /\ ~retried /\ job = "running" =>
          /\ attempt = 0
          /\ pc = "backoff" => delay = 0 /\ clock + Margin + CommandTime + Timeout < maxWait
          /\ pc \in {"fetching", "reading"} => clock + Margin + CommandTime + timer < maxWait
          /\ writing = Off => clock + Margin + CommandTime < maxWait
          /\ writing # Off => clock + Margin + writing < maxWait
    /\ prompt /\ ~retried /\ job = "done" => storedAt + Margin < maxWait

(* Each step keeps the bounds on what is still to wait for. *)
LEMMA TimeStep ==
    ASSUME TimeInv, WaitInv, FetchInv, [DeadlineNext]_allVars
    PROVE  TimeInv'
<1> USE AuditDeadlineAssumption, HttpFetchAssumption
    DEF AuditDeadlineAssumption, HttpFetchAssumption, WaitInv, DeadlineTypeOK, Never,
        FetchInv, TypeOK, Off, TimeInv, AnsweredInTime, EarlyResultServed, maxWait, Margin
<1>1. CASE Take
  BY <1>1, SMT DEF Take, Begin, waitVars
<1>2. CASE FetchTimers
  BY <1>2, SMT DEF FetchTimers, Send, Abort, waitVars, jobVars
<1>3. CASE TargetActs
  BY <1>3, SMT DEF TargetActs, Respond, Read, Break, waitVars
<1>4. CASE Save \/ Store
  BY <1>4, SMT DEF Save, Store, Record, waitVars, vars
<1>5. CASE Dispatch
  BY <1>5, SMT DEF Dispatch, vars
<1>6. CASE Look \/ Executed \/ Hit
  BY <1>6, SMT DEF Look, Executed, Hit, jobVars, vars
<1>7. CASE Miss
  BY <1>7, SMT DEF Miss, jobVars, vars
<1>8. CASE TimeIsUp
  BY <1>8, SMT DEF TimeIsUp, jobVars, vars
<1>9. CASE TimePasses
  BY <1>9, SMT DEF TimePasses, Waiting, SlotTicks, SlotWaits, Tick, jobVars, vars
<1>10. CASE UNCHANGED allVars
  BY <1>10 DEF allVars, vars, waitVars, jobVars
<1> QED
  BY <1>1, <1>2, <1>3, <1>4, <1>5, <1>6, <1>7, <1>8, <1>9, <1>10 DEF DeadlineNext, WaitSteps

(* So the bounds hold in every reachable state. *)
LEMMA TimeIsInvariant == DeadlineSpec => [](TimeInv /\ WaitInv)
<1>1. DeadlineInit => TimeInv /\ WaitInv /\ FetchInv
  <2> SUFFICES ASSUME DeadlineInit PROVE TimeInv
    BY WaitStarts, FetchInit DEF DeadlineInit
  <2> QED
    BY AuditDeadlineAssumption, HttpFetchAssumption, SMT
       DEF AuditDeadlineAssumption, HttpFetchAssumption, DeadlineInit, TimeInv,
           AnsweredInTime, EarlyResultServed, maxWait
<1>2. TimeInv /\ WaitInv /\ FetchInv /\ [DeadlineNext]_allVars
          => TimeInv' /\ WaitInv' /\ FetchInv'
  BY TimeStep, WaitStep, SlotSteps, FetchStep
<1> QED
  BY <1>1, <1>2, PTL DEF DeadlineSpec

(* A request outlasts maxWaitMs by less than one read and one sleep         *)
(* (audit.service.ts:71-84).                                                *)
THEOREM AnswersInTime == DeadlineSpec => []AnsweredInTime
BY TimeIsInvariant, PTL DEF TimeInv

(* A result that is there one read and one sleep before maxWaitMs is never  *)
(* missed (audit.service.ts:76-84).                                         *)
THEOREM EarlyResultsAreServed == DeadlineSpec => []EarlyResultServed
BY TimeIsInvariant, PTL DEF TimeInv

(* A request whose job is taken within what the buffer leaves beyond a      *)
(* write, a read and a sleep is served if one attempt decides, for any      *)
(* REQUEST_TIMEOUT and any time commands take (audit.service.ts:71,         *)
(* audit.processor.ts:150).                                                 *)
THEOREM FirstAttemptsAreServed == DeadlineSpec => []FirstAttemptServed
<1>1. TimeInv /\ WaitInv => FirstAttemptServed
  BY AuditDeadlineAssumption, HttpFetchAssumption, SMT
     DEF AuditDeadlineAssumption, HttpFetchAssumption, TimeInv, WaitInv, DeadlineTypeOK,
         EarlyResultServed, FirstAttemptServed, maxWait, Margin, Never, Off
<1> QED
  BY <1>1, TimeIsInvariant, PTL

-----------------------------------------------------------------------------
(* The end of the wait. *)

(* What a request has still before it: time until its last look at the      *)
(* clock, and the steps it takes before time passes again.                  *)
Turn ==
    CASE phase = "sleeping" /\ left = 0 -> 4
      [] phase = "asked" -> 3
      [] phase \in {"hit", "miss"} -> 2
      [] phase = "sleeping" /\ left # 0 -> 1
      [] OTHER -> 0

WaitLeft == 5 * (maxWait + CommandTime + MaxPoll - clock) + Turn

(* A tick less, and less is left, whatever steps come before the next. *)
LEMMA LessTime ==
    ASSUME NEW time \in Int, NEW m \in 0..4, NEW n \in 0..4
    PROVE  5 * (time - 1) + n < 5 * time + m
BY SMT

(* Every step of a request that waits, time's included, brings it nearer to *)
(* its answer: the loop cannot turn without time passing, and every tick is *)
(* one of those it has left (audit.service.ts:67-85). That is the variant   *)
(* behind WaitEnds; the rest of it is fairness.                             *)
THEOREM WaitsAdvance ==
    DeadlineSpec => [](WaitLeft \in Nat) /\ [][Waiting => WaitLeft' < WaitLeft]_waitVars
<1> USE AuditDeadlineAssumption, HttpFetchAssumption
    DEF AuditDeadlineAssumption, HttpFetchAssumption
<1>1. TimeInv /\ WaitInv => WaitLeft \in Nat
  <2> SUFFICES ASSUME TimeInv, WaitInv PROVE WaitLeft \in Nat
    OBVIOUS
  <2>1. maxWait + CommandTime + MaxPoll - clock \in Nat
    BY SMT DEF TimeInv, AnsweredInTime, WaitInv, DeadlineTypeOK, maxWait
  <2>2. Turn \in 0..4
    BY SMT DEF Turn
  <2> QED
    BY <2>1, <2>2, SMT DEF WaitLeft
<1>2. WaitInv /\ [DeadlineNext]_allVars => [Waiting => WaitLeft' < WaitLeft]_waitVars
  <2> SUFFICES ASSUME WaitInv, DeadlineNext, waitVars' # waitVars, Waiting
               PROVE  WaitLeft' < WaitLeft
    BY DEF allVars
  <2>1. /\ maxWait \in Nat /\ maxWait' = maxWait
        /\ clock \in Nat /\ left \in Nat /\ interval \in Nat \ {0}
    BY SMT DEF WaitInv, DeadlineTypeOK, maxWait
  <2> DEFINE time == maxWait + CommandTime + MaxPoll - clock
  <2>2. /\ Turn \in 0..4 /\ Turn' \in 0..4 /\ time \in Int /\ time' \in Int
        /\ WaitLeft = 5 * time + Turn /\ WaitLeft' = 5 * time' + Turn'
    <3>1. Turn \in 0..4 /\ Turn' \in 0..4
      BY SMT DEF Turn
    <3>2. clock' \in Int
      BY <2>1, SMT DEF DeadlineNext, Take, FetchTimers, TargetActs, Save, Store, Dispatch,
         WaitSteps, Look, Executed, Hit, Miss, TimeIsUp, TimePasses, waitVars
    <3> QED
      BY <2>1, <3>1, <3>2, SMT DEF WaitLeft
  <2>3. ASSUME clock' = clock, Turn' < Turn
        PROVE  WaitLeft' < WaitLeft
    <3>1. time' = time
      BY <2>1, <2>3
    <3> HIDE DEF time
    <3>2. /\ 5 * time \in Int /\ Turn \in Int /\ Turn' \in Int
          /\ WaitLeft = 5 * time + Turn /\ WaitLeft' = 5 * time + Turn'
      BY <2>2, <3>1, SMT
    <3> QED
      BY <2>3, <3>2, FewerSteps, Zenon
  <2>4. CASE Look \/ Executed \/ Hit \/ TimeIsUp
    BY <2>3, <2>4, SMT DEF Look, Executed, Hit, TimeIsUp, Turn
  <2>5. CASE Miss
    BY <2>1, <2>3, <2>5, SMT DEF Miss, Turn
  <2>6. CASE TimePasses
    <3>1. time' = time - 1
      BY <2>1, <2>6 DEF TimePasses
    <3> HIDE DEF time
    <3> QED
      BY <2>2, <3>1, LessTime
  <2>7. CASE Take \/ FetchTimers \/ TargetActs \/ Save \/ Store
    BY <2>7 DEF Take, FetchTimers, TargetActs, Save, Store, waitVars
  <2>8. CASE Dispatch
    BY <2>8 DEF Dispatch, Waiting
  <2> QED
    BY <2>4, <2>5, <2>6, <2>7, <2>8 DEF DeadlineNext, WaitSteps
<1> QED
  BY <1>1, <1>2, TimeIsInvariant, PTL DEF DeadlineSpec
=============================================================================
