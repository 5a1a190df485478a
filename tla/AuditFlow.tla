------------------------------ MODULE AuditFlow ------------------------------
(***************************************************************************)
(* One audit from the request to the answer: AuditService.auditUrl and its *)
(* polling loop, QueueService.dispatchAuditJob, AuditProcessor.process and *)
(* the cached results they share in Redis. Several application processes   *)
(* serve requests and run worker slots against one Redis.                  *)
(*                                                                         *)
(* A step of a request is the code between two awaits: the handler of one  *)
(* request is interleaved with other requests, with the workers and with   *)
(* Redis dropping keys at every await.                                     *)
(*                                                                         *)
(* Data is abstracted to what the properties tell apart. A result is the   *)
(* number of the run that produced it: takes[u] counts the runs started    *)
(* for u, stamp[w] is the number of the run on slot w, cache[u] the number *)
(* of the run whose result is cached, 0 when nothing is.                   *)
(***************************************************************************)
EXTENDS JobStore

CONSTANTS
    Requests,      \* concurrent requests; one that is answered is used again
    Workers,       \* worker slots: QUEUE_CONCURRENCY of them in each process
    Procs,         \* application processes sharing one Redis
    Home,          \* the process a request is served by, a slot belongs to
    MaxQueueSize,  \* QUEUE_MAX_SIZE
    Faults,        \* what may go wrong, a subset of FaultKinds
    NoUrl,         \* the task of a free slot, the target before any request
    MaxArrivals    \* bound: requests made in one behaviour

(* get: a cache read errors or times out     set: a cache write does        *)
(* queue: a queue call throws                expire: TTL or eviction        *)
(* lock: a slot loses its job's lock         crash: a process is restarted  *)
FaultKinds == {"get", "set", "queue", "expire", "lock", "crash"}

ASSUME AuditFlowAssumption ==
    /\ Home \in [Requests \cup Workers -> Procs]
    /\ Requests \cap Workers = {}
    /\ IsFiniteSet(Requests)
    /\ MaxQueueSize \in Nat \ {0}
    /\ Faults \subseteq FaultKinds
    /\ NoUrl \notin Urls
    /\ MaxArrivals \in Nat

VARIABLES
    phase,    \* phase[r]: where auditUrl is for request r
    target,   \* target[r]: the URL r asks about
    late,     \* late[r]: waitForResult's budget for r has run out
    base,     \* base[r]: takes[target[r]] when r's first cache read missed
    cache,    \* cache[u]: which run's result is cached for u
    takes,    \* takes[u]: how many runs have been started for u
    stage,    \* stage[w]: what worker slot w does
    task,     \* task[w]: the URL slot w audits
    stamp,    \* stamp[w]: the number of the run on slot w
    held,     \* held[w]: slot w still owns its job's lock
    arrivals  \* how many requests were made

requestVars == <<phase, target, late, base>>
slotVars == <<stage, task, stamp, held>>
vars == <<requestVars, cache, takes, slotVars, arrivals, jobVars>>

Answers == {"cached", "live", "queueFull", "timeout", "error", "lost"}
InProgress == {"lookup", "check", "add", "poll", "sleep"}
Phases == {"idle"} \cup InProgress \cup Answers
Stages == {"free", "auditing", "finishing"}

Init ==
    /\ phase = [r \in Requests |-> "idle"]
    /\ target = [r \in Requests |-> NoUrl]
    /\ late = [r \in Requests |-> FALSE]
    /\ base = [r \in Requests |-> 0]
    /\ cache = [u \in Urls |-> 0]
    /\ takes = [u \in Urls |-> 0]
    /\ stage = [w \in Workers |-> "free"]
    /\ task = [w \in Workers |-> NoUrl]
    /\ stamp = [w \in Workers |-> 0]
    /\ held = [w \in Workers |-> FALSE]
    /\ arrivals = 0
    /\ JobInit

Moves(r, from, to) ==
    /\ phase[r] = from
    /\ phase' = [phase EXCEPT ![r] = to]

(* Has a lock on u's job been taken and not been lost? *)
Locked(u) == \E w \in Workers : held[w] /\ task[w] = u

-----------------------------------------------------------------------------
(* The request: AuditController.audit calls AuditService.auditUrl. *)

Arrive(r, u) ==
    /\ phase[r] \notin InProgress
    /\ arrivals < MaxArrivals
    /\ phase' = [phase EXCEPT ![r] = "lookup"]
    /\ target' = [target EXCEPT ![r] = u]
    /\ late' = [late EXCEPT ![r] = FALSE]
    /\ base' = [base EXCEPT ![r] = 0]
    /\ arrivals' = arrivals + 1
    /\ UNCHANGED <<cache, takes, slotVars, jobVars>>

(* The first findCachedAudit. CacheService.get turns an error into a miss.  *)
LookupHit(r) ==
    /\ Moves(r, "lookup", "cached")
    /\ cache[target[r]] # 0
    /\ UNCHANGED base

LookupMiss(r) ==
    /\ Moves(r, "lookup", "check")
    /\ cache[target[r]] = 0
    /\ base' = [base EXCEPT ![r] = takes[target[r]]]

LookupFails(r) ==
    /\ "get" \in Faults
    /\ Moves(r, "lookup", "check")
    /\ UNCHANGED base

Lookup(r) ==
    /\ LookupHit(r) \/ LookupMiss(r) \/ LookupFails(r)
    /\ UNCHANGED <<target, late, cache, takes, slotVars, arrivals, jobVars>>

(* A version of CheckQueue with the comparison the comment describes. *)
CheckQueueLoosely(r) ==
    /\ \/ /\ Cardinality(WaitingJobs) > MaxQueueSize
          /\ Moves(r, "check", "queueFull")
       \/ /\ Cardinality(WaitingJobs) <= MaxQueueSize
          /\ Moves(r, "check", "add")
    /\ UNCHANGED <<target, late, base, cache, takes, slotVars, arrivals, jobVars>>

(* dispatchAuditJob: getWaitingCount, and the decision taken on its answer. *)
CheckQueue(r) ==
    /\ \/ /\ Cardinality(WaitingJobs) >= MaxQueueSize
          /\ Moves(r, "check", "queueFull")
       \/ /\ Cardinality(WaitingJobs) < MaxQueueSize
          /\ Moves(r, "check", "add")
    /\ UNCHANGED <<target, late, base, cache, takes, slotVars, arrivals, jobVars>>

(* dispatchAuditJob: queue.add, whatever happened since the count was read. *)
Add(r) ==
    /\ Moves(r, "add", "poll")
    /\ AddJob(target[r])
    /\ UNCHANGED <<target, late, base, cache, takes, slotVars, arrivals>>

(* A queue call throws and the exception reaches the client. A failed add   *)
(* may or may not have been applied.                                        *)
QueueFails(r) ==
    /\ "queue" \in Faults
    /\ \/ /\ Moves(r, "check", "error")
          /\ UNCHANGED jobVars
       \/ /\ Moves(r, "add", "error")
          /\ AddJob(target[r]) \/ UNCHANGED jobVars
    /\ UNCHANGED <<target, late, base, cache, takes, slotVars, arrivals>>

(* waitForResult: one findCachedAudit of the loop. *)
PollHit(r) ==
    /\ Moves(r, "poll", "live")
    /\ cache[target[r]] # 0
    /\ UNCHANGED <<target, late, base, cache, takes, slotVars, arrivals, jobVars>>

PollMiss(r) ==
    /\ Moves(r, "poll", "sleep")
    /\ cache[target[r]] = 0 \/ "get" \in Faults
    /\ UNCHANGED <<target, late, base, cache, takes, slotVars, arrivals, jobVars>>

Poll(r) == PollHit(r) \/ PollMiss(r)

(* A version of Wake that starts a new budget on every turn of the loop. *)
WakeRestarting(r) ==
    /\ Moves(r, "sleep", "poll")
    /\ late' = [late EXCEPT ![r] = FALSE]
    /\ UNCHANGED <<target, base, cache, takes, slotVars, arrivals, jobVars>>

(* waitForResult: the sleep is over and the loop condition is evaluated.    *)
Wake(r) ==
    /\ \/ ~late[r] /\ Moves(r, "sleep", "poll")
       \/ late[r] /\ Moves(r, "sleep", "timeout")
    /\ UNCHANGED <<target, late, base, cache, takes, slotVars, arrivals, jobVars>>

(* The clock passes startTime + maxWaitMs. *)
DeadlinePasses(r) ==
    /\ phase[r] \in {"poll", "sleep"}
    /\ ~late[r]
    /\ late' = [late EXCEPT ![r] = TRUE]
    /\ UNCHANGED <<phase, target, base, cache, takes, slotVars, arrivals, jobVars>>

-----------------------------------------------------------------------------
(* The worker: BullMQ runs AuditProcessor.process on a free slot. *)

Take(w, u) ==
    /\ stage[w] = "free"
    /\ Activate(u)
    /\ stage' = [stage EXCEPT ![w] = "auditing"]
    /\ task' = [task EXCEPT ![w] = u]
    /\ takes' = [takes EXCEPT ![u] = @ + 1]
    /\ stamp' = [stamp EXCEPT ![w] = takes[u] + 1]
    /\ held' = [held EXCEPT ![w] = TRUE]
    /\ UNCHANGED <<requestVars, cache, arrivals>>

(* A version of Store that leaves the write out when the audit failed. *)
StoreReachableOnly(w) ==
    /\ stage[w] = "auditing"
    /\ stage' = [stage EXCEPT ![w] = "finishing"]
    /\ cache' = cache \/ cache' = [cache EXCEPT ![task[w]] = stamp[w]]
    /\ UNCHANGED <<requestVars, takes, task, stamp, held, arrivals, jobVars>>

(* httpFetch has returned or thrown, either gives a result, and cacheAudit  *)
(* writes it. CacheService.set swallows an error; the write may be lost.    *)
Store(w) ==
    /\ stage[w] = "auditing"
    /\ stage' = [stage EXCEPT ![w] = "finishing"]
    /\ \/ cache' = [cache EXCEPT ![task[w]] = stamp[w]]
       \/ "set" \in Faults /\ UNCHANGED cache
    /\ UNCHANGED <<requestVars, takes, task, stamp, held, arrivals, jobVars>>

Release(w) ==
    /\ stage' = [stage EXCEPT ![w] = "free"]
    /\ task' = [task EXCEPT ![w] = NoUrl]
    /\ stamp' = [stamp EXCEPT ![w] = 0]
    /\ held' = [held EXCEPT ![w] = FALSE]

(* process returned: BullMQ completes the job if the slot owns its lock and *)
(* reports an error if not; either way the slot is free.                    *)
Finish(w) ==
    /\ stage[w] = "finishing"
    /\ \/ held[w] /\ Complete(task[w])
       \/ ~held[w] /\ UNCHANGED jobVars
    /\ Release(w)
    /\ UNCHANGED <<requestVars, cache, takes, arrivals>>

-----------------------------------------------------------------------------
(* What the environment does. *)

(* The lock is not renewed in time: the event loop was blocked or Redis was *)
(* out of reach. The slot goes on with its audit without noticing.          *)
LoseLock(w) ==
    /\ "lock" \in Faults
    /\ stage[w] # "free"
    /\ held[w]
    /\ held' = [held EXCEPT ![w] = FALSE]
    /\ UNCHANGED <<requestVars, cache, takes, stage, task, stamp, arrivals, jobVars>>

(* A version of RecoverStalled that does not look at the lock. *)
RecoverAny(u) ==
    /\ Recover(u)
    /\ UNCHANGED <<requestVars, cache, takes, slotVars, arrivals>>

(* The stalled-job check of any worker. *)
RecoverStalled(u) ==
    /\ ~Locked(u)
    /\ Recover(u)
    /\ UNCHANGED <<requestVars, cache, takes, slotVars, arrivals>>

ForgetFailed(u) ==
    /\ Forget(u)
    /\ UNCHANGED <<requestVars, cache, takes, slotVars, arrivals>>

(* CACHE_TTL runs out, or Redis evicts the key (maxmemory volatile-lru). *)
Expire(u) ==
    /\ "expire" \in Faults
    /\ cache[u] # 0
    /\ cache' = [cache EXCEPT ![u] = 0]
    /\ UNCHANGED <<requestVars, takes, slotVars, arrivals, jobVars>>

(* Process p dies and is started again: its requests lose their connection, *)
(* its slots are free; Redis keeps the queue and the results.               *)
Crash(p) ==
    /\ "crash" \in Faults
    /\ phase' = [r \in Requests |->
                    IF Home[r] = p /\ phase[r] \in InProgress
                    THEN "lost" ELSE phase[r]]
    /\ stage' = [w \in Workers |-> IF Home[w] = p THEN "free" ELSE stage[w]]
    /\ task' = [w \in Workers |-> IF Home[w] = p THEN NoUrl ELSE task[w]]
    /\ stamp' = [w \in Workers |-> IF Home[w] = p THEN 0 ELSE stamp[w]]
    /\ held' = [w \in Workers |-> IF Home[w] = p THEN FALSE ELSE held[w]]
    /\ UNCHANGED <<target, late, base, cache, takes, arrivals, jobVars>>

(* Every request is answered, no job is pending and, by the bound, no more  *)
(* requests come.                                                           *)
Rest ==
    /\ arrivals = MaxArrivals
    /\ \A r \in Requests : phase[r] \notin InProgress
    /\ \A u \in Urls : status[u] \notin {"waiting", "active"}
    /\ \A w \in Workers : stage[w] = "free"
    /\ UNCHANGED vars

-----------------------------------------------------------------------------
Progress(r) ==
    Lookup(r) \/ CheckQueue(r) \/ Add(r) \/ QueueFails(r) \/ Poll(r) \/ Wake(r)

Next ==
    \/ \E r \in Requests :
          \/ \E u \in Urls : Arrive(r, u)
          \/ Progress(r)
          \/ DeadlinePasses(r)
    \/ \E w \in Workers :
          \/ \E u \in Urls : Take(w, u)
          \/ Store(w)
          \/ Finish(w)
          \/ LoseLock(w)
    \/ \E u \in Urls : RecoverStalled(u) \/ ForgetFailed(u) \/ Expire(u)
    \/ \E p \in Procs : Crash(p)
    \/ Rest

Spec == Init /\ [][Next]_vars

(* The event loop runs a handler whose await has been answered; BullMQ      *)
(* hands waiting jobs to free slots in order; httpFetch ends (HttpFetch);   *)
(* the stalled-job check runs periodically. Nothing else is promised: no    *)
(* request need come, no key need expire, no fault need happen.             *)
SystemFairness ==
    /\ \A r \in Requests : WF_vars(Progress(r))
    /\ \A w \in Workers : WF_vars(Store(w)) /\ WF_vars(Finish(w))
    /\ \A u \in Urls :
          /\ WF_vars(\E w \in Workers : Take(w, u))
          /\ WF_vars(RecoverStalled(u))

(* The clock does not stop. *)
ClockFairness == \A r \in Requests : WF_vars(DeadlinePasses(r))

FairSpec == Spec /\ SystemFairness /\ ClockFairness

(* The same system with budgets that need not run out and reads that do not *)
(* fail for ever.                                                           *)
PatientSpec ==
    Spec /\ SystemFairness /\ \A r \in Requests : SF_vars(PollHit(r))

-----------------------------------------------------------------------------
(* The types, and that a request being served and a slot at work have a URL. *)
TypeOK ==
    /\ phase \in [Requests -> Phases]
    /\ target \in [Requests -> Urls \cup {NoUrl}]
    /\ late \in [Requests -> BOOLEAN]
    /\ base \in [Requests -> Nat]
    /\ cache \in [Urls -> Nat]
    /\ takes \in [Urls -> Nat]
    /\ stage \in [Workers -> Stages]
    /\ task \in [Workers -> Urls \cup {NoUrl}]
    /\ stamp \in [Workers -> Nat]
    /\ held \in [Workers -> BOOLEAN]
    /\ arrivals \in 0..MaxArrivals
    /\ JobTypeOK
    /\ \A r \in Requests : phase[r] \in InProgress => target[r] \in Urls
    /\ \A w \in Workers : stage[w] # "free" => task[w] \in Urls

(* Two slots never audit the same URL at once unless one of them has lost   *)
(* its lock: the promise of the job id (queue.service.ts:14-15), across     *)
(* processes, crashes and recovered jobs.                                   *)
SingleFlight ==
    \A v, w \in Workers :
        v # w /\ stage[v] # "free" /\ stage[w] # "free" /\ task[v] = task[w]
            => ~held[v] \/ ~held[w]

(* A result is only overwritten by the newest run for its URL. A slot that  *)
(* went on without its lock is the one writer that may put an older result  *)
(* back.                                                                    *)
NewestWrites ==
    \A u \in Urls :
        cache'[u] \notin {0, cache[u]} =>
            \/ cache'[u] = takes[u]
            \/ \E w \in Workers : task[w] = u /\ ~held[w] /\ cache'[u] = stamp[w]

NewestWins == [][NewestWrites]_vars

(* An answer with cached: false never comes from a run that had already     *)
(* been superseded when the request found nothing cached.                   *)
AnswersFresh ==
    \A r \in Requests :
        phase[r] = "poll" /\ phase'[r] = "live" => cache[target[r]] >= base[r]

FreshAnswer == [][AnswersFresh]_vars

(* The waiting list overshoots QUEUE_MAX_SIZE, because the count is read    *)
(* before the job is added, by less than the number of concurrent requests. *)
(* Jobs that were recovered after a stall come on top.                      *)
FreshlyWaiting == {u \in WaitingJobs : stalls[u] = 0}
Adding == {r \in Requests : phase[r] = "add"}

QueueOvershootBounded ==
    Cardinality(FreshlyWaiting) + Cardinality(Adding)
        < MaxQueueSize + Cardinality(Requests)

(* A request that is told its job was dispatched has a job that will run,   *)
(* or a result to collect. (AuditService polls on that assumption, and      *)
(* audit.controller.ts:30 promises a live audit.)                           *)
DispatchIsServed ==
    [][\A r \in Requests :
          phase[r] = "add" /\ phase'[r] = "poll" =>
              \/ status'[target[r]] \in {"waiting", "active"}
              \/ cache[target[r]] # 0]_vars

(* And it stays so while it polls: as long as results are written and kept, *)
(* locks are kept and no process dies, there is something to wait for at    *)
(* every moment, whatever other requests and jobs do.                       *)
NobodyWaitsInVain ==
    \A r \in Requests : phase[r] \in {"poll", "sleep"} =>
        status[target[r]] \in {"waiting", "active"} \/ cache[target[r]] # 0

(* Every request is answered, whatever fails. *)
EveryRequestAnswered ==
    \A r \in Requests : phase[r] \in InProgress ~> phase[r] \in Answers

(* No job stays waiting or active for ever, whatever fails. *)
EveryJobSettles ==
    \A u \in Urls :
        status[u] \in {"waiting", "active"} ~> status[u] \notin {"waiting", "active"}

(* A request that waits is served by the system itself: if its budget does  *)
(* not run out it is answered with a result.                                *)
WaiterServed ==
    \A r \in Requests : phase[r] = "poll" ~> phase[r] = "live" \/ late[r]

-----------------------------------------------------------------------------
(* What the safety properties rest on. *)

(* A held lock is the lock of the active job the slot runs, and the run is  *)
(* the newest for its URL; no two slots hold the lock of one job.           *)
LockInv ==
    /\ \A w \in Workers : held[w] =>
          /\ stage[w] # "free"
          /\ status[task[w]] = "active"
          /\ stamp[w] = takes[task[w]]
    /\ \A v, w \in Workers : held[v] /\ held[w] /\ task[v] = task[w] => v = w

(* Without lost locks every slot at work holds its lock. *)
LocksKept == "lock" \notin Faults => \A w \in Workers : stage[w] # "free" => held[w]

(* What a request finds cached after its miss is no older than the miss. *)
FreshInv ==
    \A r \in Requests :
        /\ phase[r] = "lookup" => base[r] = 0
        /\ phase[r] \in InProgress =>
              /\ base[r] <= takes[target[r]]
              /\ cache[target[r]] # 0 /\ "lock" \notin Faults => cache[target[r]] >= base[r]

(* The waiting list is finite, and overshoots by less than the requests.    *)
OvershootInv == IsFiniteSet(WaitingJobs) /\ QueueOvershootBounded

IInv == LockInv /\ LocksKept /\ FreshInv
=============================================================================
