----------------------------- MODULE Connections -----------------------------
(***************************************************************************)
(* The two connections a process has to Redis, how it starts on them, and  *)
(* the readiness probe that tests them. CacheService's ioredis client ends *)
(* for good when retryStrategy gives up; BullMQ's connections (queue and   *)
(* worker, taken as one here) are retried without end.                     *)
(*                                                                         *)
(* ioredis and BullMQ are external: what is modelled is how the options    *)
(* and calls in cache.service.ts and queue.service.ts make them behave.    *)
(***************************************************************************)
EXTENDS Naturals

CONSTANT MaxTries  \* reconnects before retryStrategy returns null

ASSUME ConnectionsAssumption == MaxTries \in Nat

VARIABLES
    server,      \* can Redis be reached: "up" or "down"
    cacheLink,   \* the state of CacheService's client
    tries,       \* its reconnects since it was last ready
    failures,    \* attempts and connections it lost since it was last ready
    queueLink,   \* the state of BullMQ's connections
    boot,        \* the onModuleInit that is awaited, or "serving"
    probe,       \* the readiness probe: "none", "running" or its answer
    redisCheck,  \* HealthService.checkRedis
    queueCheck,  \* HealthService.checkQueue
    memory,      \* HealthService.checkMemory
    blind        \* the client had ended or was closed when the probe began

cacheVars == <<cacheLink, tries, failures>>
probeVars == <<probe, redisCheck, queueCheck, memory, blind>>
vars == <<server, cacheVars, queueLink, boot, probeVars>>

Init ==
    /\ server \in {"up", "down"}
    /\ cacheLink = "idle"
    /\ tries = 0
    /\ failures = 0
    /\ queueLink = "connecting"
    /\ boot = "cache"
    /\ probe = "none"
    /\ redisCheck = "none"
    /\ queueCheck = "none"
    /\ memory = "none"
    /\ blind = FALSE

(* A command sent on a connection is executed. While a client is not ready  *)
(* commands queue up in it, and fail when they run out of time or retries.  *)
CacheAnswers == cacheLink = "ready" /\ server = "up"
QueueAnswers == queueLink = "ready" /\ server = "up"

(* onModuleInit of CacheService ends when the first attempt has an outcome: *)
(* it catches the error.                                                    *)
CacheInitEnds == boot' = IF boot = "cache" THEN "queue" ELSE boot

-----------------------------------------------------------------------------
(* Redis goes and comes back. *)
ServerTurns ==
    /\ server' = IF server = "up" THEN "down" ELSE "up"
    /\ UNCHANGED <<cacheVars, queueLink, boot, probeVars>>

(* CacheService.onModuleInit connects the lazy client. *)
CacheConnect ==
    /\ cacheLink = "idle"
    /\ cacheLink' = "connecting"
    /\ UNCHANGED <<server, tries, failures, queueLink, boot, probeVars>>

(* A version of CacheReady that does not start the count of retries anew. *)
CacheReadyCounting ==
    /\ cacheLink = "connecting"
    /\ server = "up"
    /\ cacheLink' = "ready"
    /\ failures' = 0
    /\ CacheInitEnds
    /\ UNCHANGED <<server, tries, queueLink, probeVars>>

CacheReady ==
    /\ cacheLink = "connecting"
    /\ server = "up"
    /\ cacheLink' = "ready"
    /\ tries' = 0
    /\ failures' = 0
    /\ CacheInitEnds
    /\ UNCHANGED <<server, queueLink, probeVars>>

(* A version of CacheLost whose error leaves onModuleInit pending. *)
CacheLostThrowing ==
    /\ cacheLink \in {"connecting", "ready"}
    /\ server = "down"
    /\ tries' = tries + 1
    /\ failures' = failures + 1
    /\ cacheLink' = IF tries + 1 > MaxTries THEN "ended" ELSE "waiting"
    /\ UNCHANGED <<server, queueLink, boot, probeVars>>

(* A version of CacheLost whose strategy never gives up. *)
CacheLostRetrying ==
    /\ cacheLink \in {"connecting", "ready"}
    /\ server = "down"
    /\ tries' = tries + 1
    /\ failures' = failures + 1
    /\ cacheLink' = "waiting"
    /\ CacheInitEnds
    /\ UNCHANGED <<server, queueLink, probeVars>>

(* An attempt fails, or the connection breaks: ioredis asks retryStrategy,  *)
(* which gives up when times exceeds MaxTries.                              *)
CacheLost ==
    /\ cacheLink \in {"connecting", "ready"}
    /\ server = "down"
    /\ tries' = tries + 1
    /\ failures' = failures + 1
    /\ cacheLink' = IF tries + 1 > MaxTries THEN "ended" ELSE "waiting"
    /\ CacheInitEnds
    /\ UNCHANGED <<server, queueLink, probeVars>>

(* The delay retryStrategy returned is over. *)
CacheRetry ==
    /\ cacheLink = "waiting"
    /\ cacheLink' = "connecting"
    /\ UNCHANGED <<server, tries, failures, queueLink, boot, probeVars>>

(* BullMQ's connections: its own strategy retries without end. *)
QueueMoves ==
    /\ \/ queueLink = "connecting" /\ server = "up" /\ queueLink' = "ready"
       \/ queueLink # "waiting" /\ server = "down" /\ queueLink' = "waiting"
       \/ queueLink = "waiting" /\ queueLink' = "connecting"
    /\ UNCHANGED <<server, cacheVars, boot, probeVars>>

(* QueueService.onModuleInit awaits queue.waitUntilReady; then the worker   *)
(* is made and the server listens.                                          *)
QueueInit ==
    /\ boot = "queue"
    /\ queueLink = "ready"
    /\ boot' = "serving"
    /\ UNCHANGED <<server, cacheVars, queueLink, probeVars>>

-----------------------------------------------------------------------------
(* GET /ready: HealthService.getHealth runs its checks side by side. *)

ProbeBegins ==
    /\ boot = "serving"
    /\ probe # "running"
    /\ probe' = "running"
    /\ redisCheck' = "pinging"
    /\ queueCheck' = "pinging"
    /\ memory' \in {"ok", "fail"}
    /\ blind' = (cacheLink \in {"ended", "closed"})
    /\ UNCHANGED <<server, cacheVars, queueLink, boot>>

(* CacheService.ping turns an error into false. *)
RedisChecked ==
    /\ redisCheck = "pinging"
    /\ redisCheck' = IF CacheAnswers THEN "ok" ELSE "fail"
    /\ UNCHANGED <<server, cacheVars, queueLink, boot, probe, queueCheck, memory, blind>>

(* QueueService.ping asks the cache's client; whatever it says, the counts  *)
(* are awaited next.                                                        *)
QueuePinged ==
    /\ queueCheck = "pinging"
    /\ queueCheck' = IF CacheAnswers THEN "countingAlive" ELSE "countingDead"
    /\ UNCHANGED <<server, cacheVars, queueLink, boot, probe, redisCheck, memory, blind>>

(* A version of QueueCounted that waits for the queue whatever it takes. *)
QueueCountedOnly ==
    /\ queueCheck \in {"countingAlive", "countingDead"}
    /\ QueueAnswers
    /\ queueCheck' = IF queueCheck = "countingAlive" THEN "ok" ELSE "fail"
    /\ UNCHANGED <<server, cacheVars, queueLink, boot, probe, redisCheck, memory, blind>>

(* getJobCounts resolves, or rejects once ioredis gives the command up.     *)
QueueCounted ==
    /\ queueCheck \in {"countingAlive", "countingDead"}
    /\ \/ /\ QueueAnswers
          /\ queueCheck' = IF queueCheck = "countingAlive" THEN "ok" ELSE "fail"
       \/ /\ ~QueueAnswers
          /\ queueCheck' = "fail"
    /\ UNCHANGED <<server, cacheVars, queueLink, boot, probe, redisCheck, memory, blind>>

(* A version of Health that mixes up degraded and down. *)
HealthMixed ==
    CASE {redisCheck, queueCheck, memory} = {"ok"} -> "ok"
      [] "fail" \in {redisCheck, queueCheck} -> "degraded"
      [] OTHER -> "down"

(* The status getHealth draws from the three checks. *)
Health ==
    CASE {redisCheck, queueCheck, memory} = {"ok"} -> "ok"
      [] "fail" \in {redisCheck, queueCheck} -> "down"
      [] OTHER -> "degraded"

(* The controller answers 503 if the status is down and 200 otherwise. *)
ProbeEnds ==
    /\ probe = "running"
    /\ redisCheck \in {"ok", "fail"}
    /\ queueCheck \in {"ok", "fail"}
    /\ probe' = Health
    /\ redisCheck' = "none"
    /\ queueCheck' = "none"
    /\ memory' = "none"
    /\ UNCHANGED <<server, cacheVars, queueLink, boot, blind>>

CacheSteps == CacheConnect \/ CacheReady \/ CacheLost \/ CacheRetry
CheckSteps == RedisChecked \/ QueuePinged \/ QueueCounted \/ ProbeEnds

Next ==
    \/ ServerTurns
    \/ CacheSteps
    \/ QueueMoves
    \/ QueueInit
    \/ ProbeBegins
    \/ CheckSteps

Spec == Init /\ [][Next]_vars

-----------------------------------------------------------------------------
(* The types, that a check is under way only in a running probe, and that   *)
(* the client has ended when its count says so.                             *)
TypeOK ==
    /\ server \in {"up", "down"}
    /\ cacheLink \in {"idle", "connecting", "ready", "waiting", "ended", "closed"}
    /\ tries \in 0..MaxTries + 1
    /\ failures \in Nat
    /\ queueLink \in {"connecting", "ready", "waiting"}
    /\ boot \in {"cache", "queue", "serving"}
    /\ probe \in {"none", "running", "ok", "degraded", "down"}
    /\ redisCheck \in {"none", "pinging", "ok", "fail"}
    /\ queueCheck \in {"none", "pinging", "countingAlive", "countingDead", "ok", "fail"}
    /\ memory \in {"none", "ok", "fail"}
    /\ blind \in BOOLEAN
    /\ probe # "running" <=> redisCheck = "none"
    /\ cacheLink = "ended" <=> tries > MaxTries

(* Short outages do not add up: the cache client gives up only when more    *)
(* than MaxTries attempts failed in a row (cache.service.ts:29-36).         *)
GivesUpOnLongOutage == cacheLink = "ended" => failures > MaxTries

(* A process whose cache client has given up is never reported ready again, *)
(* although BullMQ's connections work: results could be neither read nor    *)
(* written in it.                                                           *)
BlindIsDown == probe # "running" /\ probe # "none" /\ blind => probe = "down"
=============================================================================
