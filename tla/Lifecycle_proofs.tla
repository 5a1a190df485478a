--------------------------- MODULE Lifecycle_proofs ---------------------------
(***************************************************************************)
(* Theorems about the connections to Redis, the readiness probe and the    *)
(* stop of a process, for every number of retries and of worker slots.     *)
(***************************************************************************)
EXTENDS Lifecycle, TLAPS

(* What a step does to the connections: one of Connections' own steps, or   *)
(* nothing, but for the close of the cache's client.                        *)
LEMMA ConnectionSteps ==
    ASSUME [LifeNext]_lifeVars
    PROVE  [Next]_vars \/ CacheQuits
<1>1. CASE RedisTurns
  BY <1>1 DEF RedisTurns, Next
<1>2. CASE Connecting \/ Probed
  BY <1>2 DEF Connecting, Probed, Alive, Next
<1>3. CASE \E w \in Slots : TakeJob(w) \/ SaveResult(w) \/ EndJob(w)
  BY <1>3 DEF TakeJob, SaveResult, EndJob
<1>4. CASE Signal \/ QuitFails \/ WorkerCloses \/ ServerCloses \/ Kill
  BY <1>4 DEF Signal, QuitFails, WorkerCloses, ServerCloses, Kill
<1>5. CASE UNCHANGED lifeVars
  BY <1>5 DEF lifeVars
<1> QED
  BY <1>1, <1>2, <1>3, <1>4, <1>5 DEF LifeNext, StopSteps

(* The steps of Connections keep its types and start no client that is      *)
(* closed.                                                                  *)
LEMMA ConnectionTypes ==
    ASSUME TypeOK, [Next]_vars
    PROVE  /\ TypeOK'
           /\ cacheLink' = "closed" <=> cacheLink = "closed"
           /\ boot = "serving" => boot' = "serving"
<1> USE ConnectionsAssumption DEF ConnectionsAssumption, TypeOK
<1>1. CASE ServerTurns
  BY <1>1 DEF ServerTurns, cacheVars, probeVars
<1>2. CASE CacheSteps
  BY <1>2 DEF CacheSteps, CacheConnect, CacheReady, CacheLost, CacheRetry,
              CacheInitEnds, probeVars
<1>3. CASE QueueMoves \/ QueueInit
  BY <1>3 DEF QueueMoves, QueueInit, cacheVars, probeVars
<1>4. CASE ProbeBegins
  BY <1>4 DEF ProbeBegins, cacheVars
<1>5. CASE CheckSteps
  BY <1>5 DEF CheckSteps, RedisChecked, QueuePinged, QueueCounted, ProbeEnds,
              Health, cacheVars
<1>6. CASE UNCHANGED vars
  BY <1>6 DEF vars, cacheVars, probeVars
<1> QED
  BY <1>1, <1>2, <1>3, <1>4, <1>5, <1>6 DEF Next

(* The variables of the process keep their types, and its cache client is   *)
(* closed exactly from the second step of its stop on.                      *)
THEOREM Typing == LifeSpec => []LifeTypeOK
<1>1. LifeInit => LifeTypeOK
  <2> SUFFICES ASSUME LifeInit PROVE LifeTypeOK
    OBVIOUS
  <2>1. tries \in 0..MaxTries + 1 /\ (cacheLink = "ended" <=> tries > MaxTries)
    BY ConnectionsAssumption DEF ConnectionsAssumption, LifeInit, Init
  <2>2. blind \in BOOLEAN /\ (probe # "running" <=> redisCheck = "none")
    BY DEF LifeInit, Init
  <2>3. failures \in Nat
    BY DEF LifeInit, Init
  <2>4. TypeOK
    BY <2>1, <2>2, <2>3, Zenon DEF LifeInit, Init, TypeOK
  <2> QED
    BY <2>4 DEF LifeInit, Init, LifeTypeOK
<1>2. LifeTypeOK /\ [LifeNext]_lifeVars => LifeTypeOK'
  <2> SUFFICES ASSUME LifeTypeOK, [LifeNext]_lifeVars
               PROVE LifeTypeOK'
    OBVIOUS
  <2>1. CASE [Next]_vars
    <3>1. /\ TypeOK'
          /\ cacheLink' = "closed" <=> cacheLink = "closed"
          /\ boot = "serving" => boot' = "serving"
      BY <2>1, ConnectionTypes DEF LifeTypeOK
    <3>2. CASE UNCHANGED stopVars
      BY <3>1, <3>2 DEF LifeTypeOK, stopVars
    <3>3. CASE \E w \in Slots : TakeJob(w) \/ SaveResult(w) \/ EndJob(w)
      BY <3>1, <3>3 DEF LifeTypeOK, TakeJob, SaveResult, EndJob, vars
    <3>4. CASE Signal \/ StopSteps \/ Kill
      BY <3>1, <3>4 DEF LifeTypeOK, Signal, StopSteps, CacheQuits, QuitFails,
                        WorkerCloses, ServerCloses, Kill, Gone, vars, CacheAnswers
    <3> QED
      BY <3>2, <3>3, <3>4 DEF LifeNext, RedisTurns, Connecting, Probed, Alive, lifeVars
  <2>2. CASE CacheQuits
    <3>1. TypeOK'
      BY <2>2 DEF LifeTypeOK, TypeOK, CacheQuits, CacheAnswers, probeVars
    <3> QED
      BY <2>2, <3>1 DEF LifeTypeOK, CacheQuits
  <2> QED
    BY <2>1, <2>2, ConnectionSteps
<1> QED
  BY <1>1, <1>2, PTL DEF LifeSpec

-----------------------------------------------------------------------------
(* The client's own count is that of the failures in a row. *)
CountInv == tries = failures

(* The cache client gives up only on an outage of more than MaxTries        *)
(* attempts in a row (cache.service.ts:29-36).                              *)
THEOREM GivesUpLate == LifeSpec => []GivesUpOnLongOutage
<1>1. LifeInit => CountInv
  BY DEF LifeInit, Init, CountInv
<1>2. LifeTypeOK /\ CountInv /\ [LifeNext]_lifeVars => CountInv'
  <2> SUFFICES ASSUME LifeTypeOK, CountInv, [LifeNext]_lifeVars
               PROVE CountInv'
    OBVIOUS
  <2> USE DEF LifeTypeOK, TypeOK, CountInv
  <2>1. CASE CacheSteps
    BY <2>1 DEF CacheSteps, CacheConnect, CacheReady, CacheLost, CacheRetry
  <2>2. CASE [Next]_vars /\ ~CacheSteps
    BY <2>2 DEF Next, ServerTurns, QueueMoves, QueueInit, ProbeBegins, CheckSteps,
                RedisChecked, QueuePinged, QueueCounted, ProbeEnds, cacheVars, vars
  <2>3. CASE CacheQuits
    BY <2>3 DEF CacheQuits
  <2> QED
    BY <2>1, <2>2, <2>3, ConnectionSteps
<1>3. LifeTypeOK /\ CountInv => GivesUpOnLongOutage
  BY DEF LifeTypeOK, TypeOK, CountInv, GivesUpOnLongOutage
<1> QED
  BY <1>1, <1>2, <1>3, Typing, PTL DEF LifeSpec

-----------------------------------------------------------------------------
(* A client that has ended or was closed stays so, and no ping of it works. *)
BlindInv ==
    blind =>
        /\ cacheLink \in {"ended", "closed"}
        /\ redisCheck \in {"none", "pinging", "fail"}
        /\ probe \in {"none", "running", "down"}

(* A process without its cache client, because it has given up or because   *)
(* the process is stopping, is not reported ready again                     *)
(* (health.service.ts:33-53, health.controller.ts:24-31).                   *)
THEOREM BlindNeverReady == LifeSpec => []BlindIsDown
<1>1. LifeInit => BlindInv
  BY DEF LifeInit, Init, BlindInv
<1>2. LifeTypeOK /\ BlindInv /\ [LifeNext]_lifeVars => BlindInv'
  <2> SUFFICES ASSUME LifeTypeOK, BlindInv, [LifeNext]_lifeVars
               PROVE BlindInv'
    OBVIOUS
  <2> USE DEF BlindInv
  <2>1. CASE CacheSteps
    BY <2>1 DEF CacheSteps, CacheConnect, CacheReady, CacheLost, CacheRetry, probeVars
  <2>2. CASE ServerTurns \/ QueueMoves \/ QueueInit \/ UNCHANGED vars
    BY <2>2 DEF ServerTurns, QueueMoves, QueueInit, cacheVars, probeVars, vars
  <2>3. CASE ProbeBegins
    BY <2>3 DEF ProbeBegins, cacheVars
  <2>4. CASE RedisChecked
    BY <2>4 DEF RedisChecked, CacheAnswers, cacheVars
  <2>5. CASE QueuePinged \/ QueueCounted
    BY <2>5 DEF QueuePinged, QueueCounted, cacheVars
  <2>6. CASE ProbeEnds
    <3>1. blind => redisCheck = "fail"
      BY <2>6 DEF ProbeEnds
    <3>2. redisCheck = "fail" => Health = "down"
      BY DEF Health
    <3> QED
      BY <2>6, <3>1, <3>2 DEF ProbeEnds, cacheVars
  <2>7. CASE CacheQuits
    BY <2>7 DEF CacheQuits, probeVars
  <2> QED
    BY <2>1, <2>2, <2>3, <2>4, <2>5, <2>6, <2>7, ConnectionSteps DEF Next, CheckSteps
<1>3. LifeTypeOK /\ BlindInv => BlindIsDown
  BY DEF BlindInv, BlindIsDown
<1> QED
  BY <1>1, <1>2, <1>3, Typing, PTL DEF LifeSpec

-----------------------------------------------------------------------------
(* Once the cache's client is closed no stop but a kill cuts a job off      *)
(* (audit.processor.ts:75-78).                                              *)
THEOREM StopWaitsForJobs == LifeSpec => []JobsFinishFirst
<1>1. LifeInit => JobsFinishFirst
  BY DEF LifeInit, JobsFinishFirst
<1>2. LifeTypeOK /\ JobsFinishFirst /\ [LifeNext]_lifeVars => JobsFinishFirst'
  <2> SUFFICES ASSUME LifeTypeOK, JobsFinishFirst, [LifeNext]_lifeVars
               PROVE JobsFinishFirst'
    OBVIOUS
  <2> USE DEF JobsFinishFirst
  <2>1. CASE UNCHANGED stopVars
    <3>1. stop = "exited" => UNCHANGED cacheLink
      BY <2>1 DEF LifeNext, RedisTurns, ServerTurns, cacheVars, Connecting, Probed, Alive,
                  Gone, stopVars, TakeJob, SaveResult, EndJob, Signal, StopSteps,
                  CacheQuits, QuitFails, WorkerCloses, ServerCloses, Kill, lifeVars, vars
    <3> QED
      BY <2>1, <3>1 DEF stopVars
  <2>2. CASE \E w \in Slots : TakeJob(w) \/ SaveResult(w) \/ EndJob(w)
    BY <2>2 DEF TakeJob, SaveResult, EndJob, Gone, LifeTypeOK, vars, cacheVars
  <2>3. CASE Signal \/ CacheQuits \/ Kill
    BY <2>3 DEF Signal, CacheQuits, Kill
  <2>4. CASE QuitFails
    BY <2>4 DEF QuitFails, LifeTypeOK, vars, cacheVars
  <2>5. CASE WorkerCloses \/ ServerCloses
    BY <2>5 DEF WorkerCloses, ServerCloses
  <2> QED
    BY <2>1, <2>2, <2>3, <2>4, <2>5
       DEF LifeNext, RedisTurns, Connecting, Probed, Alive, StopSteps, lifeVars
<1> QED
  BY <1>1, <1>2, Typing, PTL DEF LifeSpec

-----------------------------------------------------------------------------
(* Results, while Redis stays up. *)

(* Boot waits for the cache's client, which then has no reason to leave     *)
(* before it is closed; a slot has work only after that, and all it has     *)
(* made until then is in the cache.                                         *)
KeptInv ==
    cacheLink # "closed" =>
        /\ IF boot = "cache" THEN cacheLink \in {"idle", "connecting"} ELSE cacheLink = "ready"
        /\ \A w \in Slots : slot[w] # "unsaved"
        /\ ~lost

(* A step that is taken while Redis is up keeps this. *)
LEMMA KeptStep ==
    ASSUME LifeTypeOK, KeptInv, server = "up", [LifeNext]_lifeVars
    PROVE  KeptInv'
<1> USE DEF KeptInv
<1>1. CASE RedisTurns
  BY <1>1 DEF RedisTurns, ServerTurns, cacheVars, stopVars
<1>2. CASE Connecting \/ Probed
  <2>1. UNCHANGED stopVars
    BY <1>2 DEF Connecting, Probed, Alive
  <2>2. CASE CacheSteps
    BY <2>1, <2>2 DEF CacheSteps, CacheConnect, CacheReady, CacheLost, CacheRetry,
                      CacheInitEnds, stopVars
  <2>3. CASE QueueMoves \/ QueueInit \/ ProbeBegins
    BY <2>1, <2>3 DEF QueueMoves, QueueInit, ProbeBegins, cacheVars, stopVars
  <2>4. CASE CheckSteps
    BY <2>1, <2>4 DEF CheckSteps, RedisChecked, QueuePinged, QueueCounted, ProbeEnds,
                      cacheVars, stopVars
  <2> QED
    BY <1>2, <2>2, <2>3, <2>4 DEF Connecting, Probed, Alive
<1>3. ASSUME NEW w \in Slots, TakeJob(w) \/ EndJob(w)
      PROVE  KeptInv'
  BY <1>3 DEF TakeJob, EndJob, LifeTypeOK, vars, cacheVars
<1>4. ASSUME NEW w \in Slots, SaveResult(w)
      PROVE  KeptInv'
  <2>1. boot = "serving"
    BY <1>4 DEF SaveResult, LifeTypeOK
  <2>2. cacheLink # "closed" => CacheAnswers
    BY <2>1 DEF CacheAnswers
  <2> QED
    BY <1>4, <2>2 DEF SaveResult, LifeTypeOK, vars, cacheVars
<1>5. CASE Signal \/ QuitFails \/ WorkerCloses \/ ServerCloses \/ Kill
  BY <1>5 DEF Signal, QuitFails, WorkerCloses, ServerCloses, Kill, vars, cacheVars
<1>6. CASE CacheQuits
  BY <1>6 DEF CacheQuits
<1>7. CASE UNCHANGED lifeVars
  BY <1>7 DEF lifeVars, vars, cacheVars, stopVars
<1> QED
  BY <1>1, <1>2, <1>3, <1>4, <1>5, <1>6, <1>7 DEF LifeNext, StopSteps

(* While Redis stays up, every job that completes before the cache's client *)
(* is closed has its result in the cache, also one that ends between the    *)
(* signal and the close (cache.service.ts:58-71, audit.processor.ts:40-78,  *)
(* :150). What is lost on a stop is lost after that.                        *)
THEOREM ResultsAreKept == LifeSpec => KeptUntilClosed
<1> DEFINE Up == server = "up"
           Kept == cacheLink # "closed" => ~lost
<1>1. LifeInit /\ Up => KeptInv
  BY DEF LifeInit, Init, KeptInv
<1>2. LifeTypeOK /\ KeptInv /\ Up /\ [LifeNext]_lifeVars => KeptInv'
  BY KeptStep
<1>3. KeptInv => Kept
  BY DEF KeptInv
<1>4. LifeSpec => ([]Up => []Kept)
  BY <1>1, <1>2, <1>3, Typing, PTL DEF LifeSpec
<1> QED
  BY <1>4 DEF KeptUntilClosed
=============================================================================
