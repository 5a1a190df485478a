------------------------------ MODULE Lifecycle ------------------------------
(***************************************************************************)
(* A process from its start to its end: its connections and probe          *)
(* (Connections), the jobs on its worker slots, and its stop on SIGTERM or *)
(* SIGINT. Nest, external, calls the onModuleDestroy hooks one module      *)
(* after the other, global modules first, as it did with onModuleInit:     *)
(* CacheService's comes before AuditProcessor's. Then it closes the HTTP   *)
(* server, takes its own listener off and sends itself the signal again.   *)
(* A hook that rejects ends the process at once.                           *)
(***************************************************************************)
EXTENDS Connections

CONSTANT Slots  \* the slots of this process's worker

VARIABLES
    stop,  \* "no", the step of the stop that is awaited, or how it ended
    slot,  \* slot[w]: "idle", "running", "saved" or "unsaved"
    lost   \* was a job completed without its result in the cache?

stopVars == <<stop, slot, lost>>
lifeVars == <<vars, stopVars>>

LifeInit ==
    /\ Init
    /\ stop = "no"
    /\ slot = [w \in Slots |-> "idle"]
    /\ lost = FALSE

Gone == stop \in {"exited", "killed"}
Listening == stop \in {"no", "cache", "worker"}

-----------------------------------------------------------------------------
(* The connections go on until the process is gone; probes are taken until  *)
(* the server is closed.                                                    *)
Alive(A) == ~Gone /\ A /\ UNCHANGED stopVars
Connecting == Alive(CacheSteps \/ QueueMoves \/ QueueInit \/ CheckSteps)
Probed == Listening /\ Alive(ProbeBegins)
RedisTurns == ServerTurns /\ UNCHANGED stopVars

(* A version of TakeJob for a worker that is made before onModuleInit. *)
TakeJobEarly(w) ==
    /\ stop \in {"no", "cache"}
    /\ slot[w] = "idle"
    /\ QueueAnswers
    /\ slot' = [slot EXCEPT ![w] = "running"]
    /\ UNCHANGED <<vars, stop, lost>>

(* A slot takes a job; worker.close() ends that. *)
TakeJob(w) ==
    /\ boot = "serving"
    /\ stop \in {"no", "cache"}
    /\ slot[w] = "idle"
    /\ QueueAnswers
    /\ slot' = [slot EXCEPT ![w] = "running"]
    /\ UNCHANGED <<vars, stop, lost>>

(* The audit is made and cacheAudit returns; CacheService.set swallows the  *)
(* error of a write that fails.                                             *)
SaveResult(w) ==
    /\ ~Gone
    /\ slot[w] = "running"
    /\ slot' = [slot EXCEPT ![w] = IF CacheAnswers THEN "saved" ELSE "unsaved"]
    /\ UNCHANGED <<vars, stop, lost>>

(* process has returned: the worker moves the job to completed. *)
EndJob(w) ==
    /\ ~Gone
    /\ slot[w] \in {"saved", "unsaved"}
    /\ QueueAnswers
    /\ slot' = [slot EXCEPT ![w] = "idle"]
    /\ lost' = (lost \/ slot[w] = "unsaved")
    /\ UNCHANGED <<vars, stop>>

-----------------------------------------------------------------------------
(* The stop. *)

(* The signal: both listeners run, main.ts's only logs. CacheService's hook *)
(* calls redis.quit().                                                      *)
Signal ==
    /\ stop = "no"
    /\ stop' = "cache"
    /\ UNCHANGED <<vars, slot, lost>>

(* A client that is ready sends QUIT and ends on the reply; one that is not *)
(* disconnects at once, or waits behind commands it still has to send.      *)
CacheQuits ==
    /\ stop = "cache"
    /\ \/ CacheAnswers
       \/ cacheLink \in {"idle", "connecting", "waiting"}
    /\ cacheLink' = "closed"
    /\ stop' = "worker"
    /\ UNCHANGED <<server, tries, failures, queueLink, boot, probeVars, slot, lost>>

(* A version of QuitFails for a hook that tries again. *)
QuitFailsRetrying ==
    /\ stop = "cache"
    /\ ~CacheAnswers
    /\ cacheLink # "idle"
    /\ UNCHANGED lifeVars

(* quit() rejects: the client has ended by itself, or its commands run out  *)
(* of time or retries.                                                      *)
QuitFails ==
    /\ stop = "cache"
    /\ ~CacheAnswers
    /\ cacheLink # "idle"
    /\ stop' = "exited"
    /\ UNCHANGED <<vars, slot, lost>>

(* A version of WorkerCloses that does not wait for jobs: worker.close(true) *)
WorkerClosesForced ==
    /\ stop = "worker"
    /\ stop' = IF boot = "serving" THEN "server" ELSE "exited"
    /\ UNCHANGED <<vars, slot, lost>>

(* AuditProcessor's hook: worker.close() waits for the jobs that are under  *)
(* way. Before onModuleInit there is no worker, and the hook throws.        *)
WorkerCloses ==
    /\ stop = "worker"
    /\ \A w \in Slots : slot[w] = "idle"
    /\ stop' = IF boot = "serving" THEN "server" ELSE "exited"
    /\ UNCHANGED <<vars, slot, lost>>

(* The server is closed when the requests it has accepted are answered. The *)
(* signal Nest sends then meets main.ts's listener, which logs: the process *)
(* stays, with the metrics timer and the queue's connection in its loop.    *)
ServerCloses ==
    /\ stop = "server"
    /\ probe # "running"
    /\ stop' = "lingering"
    /\ UNCHANGED <<vars, slot, lost>>

(* Docker kills a container that has not stopped in time. *)
Kill ==
    /\ stop # "no" /\ ~Gone
    /\ stop' = "killed"
    /\ UNCHANGED <<vars, slot, lost>>

StopSteps == CacheQuits \/ QuitFails \/ WorkerCloses \/ ServerCloses

LifeNext ==
    \/ RedisTurns
    \/ Connecting
    \/ Probed
    \/ \E w \in Slots : TakeJob(w) \/ SaveResult(w) \/ EndJob(w)
    \/ Signal
    \/ StopSteps
    \/ Kill

LifeSpec == LifeInit /\ [][LifeNext]_lifeVars

(* Clients try to connect, timers fire, commands are answered or given up,  *)
(* audits end (AuditDeadline), hooks run, and somebody keeps asking for     *)
(* readiness. Redis need not come back; nobody need send a signal.          *)
LifeFairSpec ==
    /\ LifeSpec
    /\ WF_lifeVars(Alive(CacheSteps))
    /\ WF_lifeVars(Alive(QueueMoves)) /\ WF_lifeVars(Alive(QueueInit))
    /\ WF_lifeVars(Alive(RedisChecked)) /\ WF_lifeVars(Alive(QueuePinged))
    /\ WF_lifeVars(Alive(QueueCounted)) /\ WF_lifeVars(Alive(ProbeEnds))
    /\ WF_lifeVars(Probed)
    /\ \A w \in Slots : WF_lifeVars(SaveResult(w)) /\ SF_lifeVars(EndJob(w))
    /\ WF_lifeVars(StopSteps)

-----------------------------------------------------------------------------
(* The types, with those of the connections. *)
LifeTypeOK ==
    /\ TypeOK
    /\ stop \in {"no", "cache", "worker", "server", "lingering", "exited", "killed"}
    /\ slot \in [Slots -> {"idle", "running", "saved", "unsaved"}]
    /\ lost \in BOOLEAN
    /\ stop \in {"worker", "server", "lingering"} => cacheLink = "closed"
    /\ cacheLink = "closed" => stop \notin {"no", "cache"}
    /\ boot # "serving" => \A w \in Slots : slot[w] = "idle"

(* Once the cache's client is closed no stop but a kill cuts a job off: the *)
(* worker is waited for before anything else (audit.processor.ts:75-78).    *)
JobsFinishFirst ==
    stop \in {"server", "lingering"} \/ (stop = "exited" /\ cacheLink = "closed")
        => \A w \in Slots : slot[w] = "idle"

(* When Redis is there to stay the process gets to serve, whatever happened *)
(* to its connections while it started (cache.service.ts:58-66,             *)
(* queue.service.ts:55-63).                                                 *)
StartsWithRedis ==
    <>[](server = "up") => <>(boot = "serving" \/ stop # "no")

(* A probe is answered, also while Redis stays away or the process stops.   *)
ProbeAnswered == probe = "running" ~> probe # "running" \/ Gone

(* When Redis is there to stay, and the cache client has not given up, the  *)
(* process is reported ready from some time on (health.service.ts:33-53).   *)
ReadyAgain ==
    <>[](server = "up") /\ [](cacheLink # "ended" /\ stop = "no")
        => <>[](probe # "down")

(* main.ts:118-136: if Redis is there to stay a stop comes to its end: jobs *)
(* and requests that are under way hold it up only for a while. That the    *)
(* process is gone then is not said: it may linger.                         *)
StopEnds ==
    <>[](server = "up") => (stop = "cache" ~> stop = "lingering" \/ Gone)

(* While Redis stays up no job completes without its result in the cache    *)
(* until the cache's client is closed, the signal notwithstanding: no slot  *)
(* works before the client is ready (cache.service.ts:58,                   *)
(* audit.processor.ts:40, :150).                                            *)
KeptUntilClosed == [](server = "up") => [](cacheLink # "closed" => ~lost)

(* audit.processor.ts:77: "Audit worker stopped gracefully": while Redis    *)
(* stays up no job completes without its result, stop or not.               *)
KeptToTheEnd == [](server = "up") => [](~lost)
=============================================================================
