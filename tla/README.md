# Page Pulse in TLA+

Page Pulse is an HTTP service that audits URLs. `POST /api/v1/audit` looks for a
result in Redis, and if there is none puts a job on a BullMQ queue and polls
Redis until a worker has fetched the URL and written its result there. This
directory holds a model of the service in TLA+, model-checked with TLC on small
instances, and theorems about it checked with TLAPS. Paths below are relative to
the repository root; the program is in `src/`.

## 1. The system

| Component | State | Operations | Talks to |
|---|---|---|---|
| `AuditController`, `AuditService` | one handler per request, its polling budget | `audit`, `auditUrl`, `waitForResult` | repository, queue service |
| `AuditRepository`, `CacheService` | results in Redis with a TTL, counters in Redis, the client | `get`, `set`, `increment`, `ping`, connect, quit | Redis |
| `QueueService` | none of its own | `dispatchAuditJob`, `getJobCounts`, `ping` | BullMQ |
| BullMQ (external) | jobs by id, their state, locks, stall counts | add, activate, complete, recover, prune | Redis |
| `AuditProcessor` | `QUEUE_CONCURRENCY` worker slots per process | `process`, start and close of the worker | `httpFetch`, repository |
| `httpFetch` | attempt, abort timer, last error | one fetch with retries | the target |
| `CircuitBreaker` | state, failure count, time of the last failure | `execute` | (not called at present) |
| `RateLimitGuard` | one counter per address, in Redis | `canActivate` | `CacheService.increment` |
| `GlobalExceptionFilter`, `ZodValidationPipe`, `CorrelationIdMiddleware` | none | per request | |
| `auditRequestSchema`, `ip.util.ts` | none | which URLs are accepted | |
| `HealthService`, `MetricsService` | gauges | probes, scrape, 15 s timer | cache, queue |
| `main.ts`: start and stop | the init or destroy hook that is awaited | `bootstrap`, SIGTERM, SIGINT | every component with a hook |
| configuration, logger | none | | |

Processes share nothing but Redis. Within a process everything runs on one event
loop, so a handler is atomic between two awaits and interleaved at every await.

What is hard in it, and what makes each part correct:

* **Audit flow.** Request and worker meet only in two Redis structures, the
  cached result and the job id. The count of waiting jobs is read before the job
  is added; the id deduplicates against completed and failed jobs too; a cache
  write that fails is swallowed; a slot may lose its job's lock and go on; a
  process may die with jobs and requests in hand. It is correct when one audit of
  a URL runs at a time, no older result comes back over a newer one, a request
  gets no result older than what it has already found missing, every request is
  answered, every job leaves the queue, and a waiting request has something to
  wait for.
* **Rate limiting.** `INCR` and `EXPIRE NX` are two commands of a pipeline:
  requests come between them and the second may be lost. It is correct when the
  counter ends, when what it lets through is bounded, and when `Retry-After` tells
  the truth.
* **HTTP client.** The target may stop anywhere, also in the middle of a body.
  It is correct when the slot comes back within a known time and the recorded
  result says what happened.
* **Connections and probes.** The cache's client gives up for good, the queue's does
  not; the start waits for one of them; the checks of a probe look at both. It is
  correct when short outages do not add up, a process that has lost its cache is not
  called ready, and both start and readiness come with Redis.
* **Start and stop.** Hooks run one after the other, in an order no file of `src/`
  shows, while jobs, probes and connections go on. They are correct when no job is
  cut off, no result is lost, and the stop comes to its end.
* **The wait.** A request polls on its own clock for a result that is made on the
  slot's. It is correct when the request is answered soon after its deadline, a
  result that is early enough is never missed, and the deadline leaves an audit the
  time it may take.
* **Validation.** Address ranges written as prefixes and masks, asked of text. It is
  correct when the ranges are those the comments name and nothing else is refused.
* **Answers.** Guard, pipe, controller and filter each make their own errors. They
  are correct when every request is answered and its answer tells why.
* **Circuit breaker.** Calls let through in one state complete in another. It is
  correct when state and counter agree and the circuit closes again.

The hazards, each with its line and the properties that cover it, are listed in
`PROJECT.json`.

## 2. Modules

| Module | Models |
|---|---|
| `JobStore` | BullMQ's jobs, as `queue.service.ts` and `audit.processor.ts` configure them (external) |
| `AuditFlow` | `audit.service.ts`, `audit.repository.ts`, `dispatchAuditJob`, `process`, the cached results; EXTENDS `JobStore` |
| `AuditContract` | what the flow promises: an abstract specification |
| `AuditFlowRefinement` | the refinement mapping from `AuditFlow` to `AuditContract` |
| `MCAuditFlow` | instances for TLC |
| `RateLimiter` | `rate-limit.guard.ts` with `CacheService.increment` |
| `UrlRules` | `url.validator.ts` and `ip.util.ts`: which bodies are accepted |
| `RequestPipeline` | a request from the guard to its answer: `app.module.ts`, the Zod pipe, the controllers' outcomes, `global-exception.filter.ts`; EXTENDS `RateLimiter`, `UrlRules` |
| `Connections` | the connections to Redis of `cache.service.ts` and `queue.service.ts`, the start that waits for them, `health.service.ts` |
| `Lifecycle` | a process from its start to its end: `main.ts`, the destroy hooks of `cache.service.ts` and `audit.processor.ts`, the jobs on its slots; EXTENDS `Connections` |
| `HttpFetch` | `http-client.util.ts` with the result `process` makes of it |
| `AuditDeadline` | `waitForResult` on one clock with the slot that makes the result; EXTENDS `HttpFetch` |
| `CircuitBreaker` | `circuit-breaker.util.ts` |
| `AuditFlow_proofs`, `AuditFlowRefinement_proofs`, `AuditDeadline_proofs`, `RequestPipeline_proofs`, `UrlRules_proofs`, `Lifecycle_proofs`, `CircuitBreaker_proofs` | theorems |

An operator introduced as "A version of ..." is never used by a specification:
it is the code with a plausible mistake, kept to show that a property notices it.

### AuditFlow and JobStore

A request (`phase[r]`) is where its handler awaits:

| `phase` | code |
|---|---|
| `lookup` | `auditUrl`'s first `findCachedAudit` |
| `check`, `add` | the two awaits of `dispatchAuditJob`: `getWaitingCount`, `queue.add` |
| `poll`, `sleep` | the two awaits of the loop in `waitForResult` |
| `cached`, `live` | answered with a result, `cached: true` or `false` |
| `queueFull`, `timeout` | `QueueFullError`, `AuditTimeoutError` |
| `error`, `lost` | an exception reached the client; the connection was lost in a crash |

A worker slot (`stage[w]`) is free, auditing (inside `httpFetch`) or finishing
(its `cacheAudit` is done and `process` returns). `status[u]` is the state of the
job with the id of URL u: `queue.service.ts` derives the id from the URL, so there
is at most one. `held[w]` says whether the slot still owns its job's lock, which
decides whether BullMQ lets it complete the job and whether the stalled-job check
takes the job from it.

Results carry no content. A result is the number of the run that made it:
`takes[u]` counts the runs for u, `stamp[w]` is the number of the run on slot w,
`cache[u]` the number of the run whose result is cached. `base[r]` records how
many runs there were when r's first read missed. That is all freshness needs.

`Faults` selects what may go wrong: a cache read or write, a queue call, a key
that disappears (its TTL, or eviction), a lost lock, a process that crashes and
restarts. A failed `queue.add` may have been applied or not. Time is one flag per
request, `late[r]`: its budget has run out. It may be set at any moment, so
`waitForResult` is checked for every relation of the clock to everything else;
what the clock really allows is the subject of `AuditDeadline`.

### RateLimiter

One address. `Count` is INCR as Redis executes it, `Decide` is EXPIRE NX and the
decision of `canActivate`; other requests come in between. `DecideUnset` is the
same with the EXPIRE lost, `FailOpen` the pipeline that failed. A tick is a
second, the unit of EXPIRE; `MsPerSecond` scales the conversion of
`RATE_LIMIT_WINDOW_MS` so that windows stay short. `recent`, `waited` and `behind`
are history variables for the properties; `recent[a]` is how many requests were counted
within the limit in the last a seconds.

### RequestPipeline

Requests of one address, each at a stage: at the guard (`RateLimiter`'s actions,
taken over with what follows them), in its handler, answered. What Express and
Nest do between two awaits is one step. Handlers are reduced to the outcomes they
can have, request bodies to the rules of `auditRequestSchema` they break, answers
to status and error code. `cause[r]` is a history variable: what decided the
answer. What ends before the guard is not counted (`Turn`): a malformed body and a path
that cannot be decoded (400), a path without a route (404), and whatever else the body
parser throws (a body over its limit, an unknown charset), which is no `HttpException`
and which the filter answers like any unknown error, with 500. Two pairs of causes
therefore have one answer each (`Alike`): bad body and bad path, parser error and
exception of a handler. Whether a body passes the pipe is what `UrlRules` says of it: `Bodies` has
one for each rule it may break, and two that break none.

### UrlRules

Operators without state. A host is what the URL parser, external, makes of it: an
IPv4 address as its four bytes, an IPv6 address as its first group, a name by its
first two letters. The masks of `ip.util.ts` become divisions by the size of a block,
on the upper 16 bits: no mask is longer.

### Connections

One process. `server` says whether Redis can be reached. `cacheLink` is
`CacheService`'s client, which `retryStrategy` ends after `MaxTries` reconnects in a
row (`tries`; `failures` counts the same from the outside, for the property);
`queueLink` stands for BullMQ's connections, which are retried without end. `boot`
is the `onModuleInit` the start is waiting in. A readiness probe is taken apart into
its checks: `redisCheck`, `queueCheck` (the ping, which asks the cache's client, then
the counts on BullMQ's connection) and `memory`, which run side by side. `blind`
records that the client had ended or was closed when the probe began.

### Lifecycle

`Connections` with the slots of the process's worker and its stop. `slot[w]` is idle,
running, or has handed its result to `cacheAudit`: `saved`, or `unsaved` when the write
failed and `CacheService.set` swallowed the error. `stop` is the destroy hook that is
awaited: `cache` (`redis.quit`), `worker` (`worker.close`), `server` (the HTTP server),
and then `lingering`, `exited` or `killed`. The order is Nest 10's, external: hooks run
module after module, global modules first, for the destruction as for the
initialization. `lost` records that a job completed without its result in the cache.
A signal during the start finds no worker: the hook throws, the process exits.

### HttpFetch

One worker slot, job after job. `Send`, `Respond`, `Read`, `Abort` and `Break` are
the await points of one attempt; the target chooses freely among answering,
breaking the connection, and nothing. The timer is armed by `Send` and cleared
when the attempt ends, not when the headers arrive. Which errors are worth a retry
is the target's choice too: what undici throws is external.

### AuditDeadline

`HttpFetch`'s slot and one request, on one clock. The request's `phase` is where
`waitForResult` is: sleeping, with its GET on the way (`asked`), with the reply on the
way (`hit`, `miss`), or done. The GET is executed at one moment and its reply comes up
to `CommandTime` later, so a result may be written in between and missed. The slot sends
its result with `Save`; the SETEX is executed (`Store`) at any moment up to `CommandTime`
later, and `writing` is what is left of that time. The slot may be busy with other jobs
when the request dispatches its own, or have taken that job before. `prompt`, `retried`
and `storedAt` are history variables: was the job taken while the buffer left time for a
write, a read and a sleep, did it need a second attempt, when was its result in the
cache. Redis answers within `CommandTime` and loses no write; what happens when it does
is in `AuditFlow`.

`CommandTime` is the time of the slowest command that succeeds; no assumption relates it
to the buffer. Redis usually answers in milliseconds. With commands that take up to the
code's `commandTimeout` of 5 s, a write, a read and a sleep are 10.5 s, more than the
buffer of 10 s: no job is then taken in time, and the buffer promises nothing. It does
below 4.75 s per command.

### CircuitBreaker

`Begin` and `Reject` are `execute` up to the guarded call, `Succeed` and `Fail`
its completion. Several callers are interleaved in between. The program has its
use commented out in `audit.processor.ts`; the class and its tests are there.

## 3. Runs

| Run | Question | Bounds |
|---|---|---|
| `audit_faults` | safety of the flow under every fault but lost locks, and the inductive invariant | 2 processes, 2 slots, 2 concurrent requests, 3 in all, 2 URLs, queue of 1, 1 completed job kept, 1 recovery |
| `audit_liveness` | requests are answered and jobs settle, also with lost locks; what a slot without its lock may do | the same with one request at a time, 2 in all |
| `audit_served` | a dispatched request finds a job or a result, has one of them as long as it waits, and is served by it | 3 requests; failing reads and queue calls only |
| `audit_contract` | `AuditFlow` implements `AuditContract` | as `audit_faults` |
| `audit_expired` | violated: a dispatch after the result has expired | 1 URL, 2 requests |
| `pipeline` | the counter's bounds and its end, and the answers, under every fault of the limiter | limit 1, window 2 s, 2 concurrent requests, every route |
| `alive_limited` | violated: a liveness probe is always answered with 200 | the same without faults |
| `rate_subsecond` | violated: a lockout ends, with a window below a second | limit 2, 2 concurrent requests |
| `deadline` | a fetch ends in time and its result tells why; a request is answered in time and served what is early enough | timeout 4, 2 retries, delay 1, buffer 7, intervals from 2 to 3, commands of 1 |
| `breaker` | state and counter agree; the circuit closes again | 3 callers, threshold 2, timeout 2, 5 failures |
| `lifecycle` | outages, start, readiness probes, jobs and the stop | 2 reconnects, 2 slots |
| `results_lost_on_stop` | violated: no result is lost while Redis is up | 1 slot |

Why these bounds are enough to be worth something: two slots and two processes
are needed for a URL to be audited twice, two requests for the race on the queue
count, a third for a request that comes after an answer; one kept completed job
and two URLs let a completed job be pushed out; one recovery allows both outcomes
of the stalled-job check. In `deadline` three attempts of 4 with back-offs of 1 and 2
(15 in all) outlast the 11 ticks a request waits, as three of 20 s outlast 30 s in the
code's defaults; the buffer leaves room, beyond a write, a read and a sleep (5), for a job that is taken
late, by one tick at most (with `prompt` one tick more generous `FirstAttemptServed` is
violated, so that the margin is exact), and the interval
grows once before it meets its maximum. Two reconnects (the code has ten) let outages
end before the last one and after it. The theorems of section 5 remove these bounds for the
safety properties. `MaxArrivals` (requests in one behaviour), `MaxFailures` (the
breaker's counter) and `CountCap` (the limiter's counter, above twice the limit,
so that no property tells the difference) are the only bounds the code has not;
each is a constant and guards an action. When all requests are answered and no
more may come the system is at rest (`Rest`); every other deadlock is an error.

`audit_faults` and `audit_contract` use symmetry: URLs are interchangeable, and so
are the two processes with all that belongs to each. Neither checks liveness.
`audit_contract` also uses a view that leaves out the run numbers, which the
contract does not mention and no guard reads.

What the violated runs show:

* `audit_expired`: `removeOnComplete` keeps the last 1000 completed jobs by id
  (`src/shared/queue/queue.service.ts:44`) and `CACHE_TTL` drops a result after
  five minutes. In between `queue.add` is a no-op that returns the id, and the
  request polls for an audit nobody makes until it times out. The same happens
  after a lost write and, for a day, after a job that stalled too often.
* `alive_limited`: `APP_GUARD` (`src/app.module.ts:50`) applies to every route, so a
  probe of `/api/v1/health` is counted with the other requests of its address, and over
  the limit of that address a process that is alive answers it with 429.
* `rate_subsecond`: `Math.floor(windowMs / 1000)` is 0 and no EXPIRE is sent.
* `results_lost_on_stop`: Nest closes the global `CacheModule` first, so
  `redis.quit()` (`src/shared/cache/cache.service.ts:69`) comes before
  `worker.close()` (`src/modules/audit/audit.processor.ts:76`), which waits for the jobs
  under way. Those that end in between cannot write their results, `set` swallows the
  error, and BullMQ marks them completed. What it takes: a slot has a job, the signal
  comes, the client is closed, the job ends. (In TLC's behaviour the client is still connecting
  when the signal comes; nothing depends on that.) `KeptUntilClosed` is what
  does hold: while Redis is up nothing is lost until that client is closed, neither
  before the signal nor between the two.

More things the code does otherwise than its comments say are not runs of their own.
Without Redis the application does not start: the cache's `onModuleInit` gives way, as
its comment says (`cache.service.ts:64`), but the queue's awaits `waitUntilReady`, which
settles only when Redis is there; `StartsWithRedis` is what holds. After a stop the
process may not end: the listeners `main.ts` adds for its log lines meet the signal
Nest sends last, and the metrics timer and the queue's connection keep the event loop
busy; `StopEnds` says that the stop ends, not that the process does. Public names that
begin with fc or fd are refused, as the theorem `NamesAccepted` states. The waiting list may exceed `QUEUE_MAX_SIZE`, by as much as
`QueueOvershootBounded` says; the window of the rate limiter is fixed and not
sliding, and `TwoWindowBound` is what that gives; and HALF_OPEN lets every caller of
the circuit breaker through, not one. A full queue is answered with status 200 and
the code `QUEUE_FULL`, where the API documentation has 429. A body over the parser's
limit, the client's fault, is answered with 500 `INTERNAL_ERROR`
(`global-exception.filter.ts:88`); that is one of the pairs of `Alike`. And the
container's own health check asks `/health` (`Dockerfile:42`, `docker-compose.yml:29`, as
the README of the repository has it at line 303), while `main.ts:88` puts every controller
below `/api/v1`: it is answered with 404 before the guard, and the container is never
called healthy. That is a matter of configuration without behaviours, and no run.

## 4. Fairness

`AuditFlow`: weakly fair are the steps of a handler whose await has been answered,
the fetch and completion of a job by a slot, the activation of a waiting job, and
the stalled-job check: the event loop, BullMQ's polling and its timer run, and
`httpFetch` always ends, which is what `HttpFetch` shows (`FetchEnds`). `FairSpec`
adds the clock: every budget runs out. `PatientSpec` leaves it out, so that
`WaiterServed` is not met by timeouts, and assumes instead that reads do not fail
for ever. No fault, no arrival, no expiry is ever assumed to happen.

`RequestPipeline`: the clock runs, pipelines are answered, handlers end (for the
audit that is `EveryRequestAnswered` of `AuditFlow`), and not every EXPIRE is
lost. `LockoutEnds` is stated for an address that keeps asking; one that stops
leaves its counter to its next request. `AuditDeadline`: timers and the event loop
run, Redis answers, and time passes (strongly fair, because an action that is due
stops the clock for a moment each time: without it a busy slot could hold the clock
for ever); nothing is assumed of the target, nor that the slot ever takes the job.
`Lifecycle`: clients try to connect, timers fire, commands are answered or given up,
audits end (`FetchEnds`), hooks are called, and somebody keeps asking for readiness;
a job that is done is reported as completed if Redis can be reached again and again
(strongly fair: BullMQ tries again); Redis need not come back unless a property says
so, nobody need send a signal, and no container need be killed. `CircuitBreaker`: callers keep calling and calls
end, an assumption on the users of the class.

## 5. Theorems

Every safety property that a passing run checks is proved here for every value of
the constants: sets of any size, any limit, window, timeout, number of retries, and any
set of faults unless one is named.

### The audit flow (`AuditFlow_proofs`)

* `Typing`: `Spec => []TypeOK`.
* `InductiveInvariant`: `Spec => []IInv`. `SingleFlight` is not inductive: it says
  nothing of the job store. `IInv` adds that a held lock is that of an active job
  (`LockInv`), so that a slot that takes a waiting job finds no holder; that a
  slot at work holds its lock unless locks get lost (`LocksKept`); that the run of
  a lock holder is the newest; and that a cached result is no older than what a
  request has missed (`FreshInv`).
* `OneAuditPerUrl`: `Spec => []SingleFlight`.
* `NewestRunWins`: `Spec => NewestWins`.
* `AnswersAreFresh`: without lost locks, `Spec => FreshAnswer`. With them it is
  false: a slot without its lock may write an older result.
* `OvershootIsBounded`: `Spec => []QueueOvershootBounded`. The induction needs the
  waiting list to be finite, which is part of `OvershootInv`.
* `DispatchesAreServed` and `WaitersAreServed`: without lost writes, expiry, lost locks
  and crashes, `Spec => DispatchIsServed` and `Spec => []NobodyWaitsInVain`. The run
  `audit_expired` is what becomes of the first with expiry. Neither property speaks of
  the slots, on which both depend: `ServedInv` adds that a slot has written its result
  before it completes its job, so that every completed job that is still stored has its
  result in the cache (`ResultKept`), and that an active job is locked, so that none
  ever stalls or fails (`NeverFails`). The polling request itself is then safe because
  no step takes its URL both out of the queue and out of the cache.

### The refinement (`AuditFlowRefinement_proofs`)

`FlowImplementsContract`, `Spec => ImplementsContract` if no lock is lost. `Init` maps to
`Init`; each action maps to an action of the contract or to a stutter, under `TypeOK`,
`IInv` and `StampInv` (a slot at work has the number of a run, so a result it writes is
one). `IInv` is needed where the contract knows one audit per URL: a slot that finishes
lands the audit only because no other slot holds a lock on the URL. A crash maps to one
step that declines a set of clients and queues a set of audits again.

### Start, stop and connections (`Lifecycle_proofs`)

* `Typing`, which includes that the client has ended exactly when its count says so and is
  closed exactly from the second step of the stop on.
* `GivesUpLate`, `LifeSpec => []GivesUpOnLongOutage`: the strategy's count is that of
  the failures in a row (`CountInv`).
* `BlindNeverReady`, `LifeSpec => []BlindIsDown`: an ended or closed client stays so, and
  `checkRedis` cannot come out well in a probe that began after (`BlindInv`).
* `StopWaitsForJobs`, `LifeSpec => []JobsFinishFirst`.
* `ResultsAreKept`, `LifeSpec => KeptUntilClosed`: as long as Redis is up, the client is
  ready from the end of its own boot step until the stop closes it, so that no slot has
  an unsaved result until then (`KeptInv`). The property is an implication between two
  temporal formulas; the hypothesis is used in every step of the induction.

### The wait and the fetch (`AuditDeadline_proofs`)

* `SlotRunsFetches`: every behaviour of the composition is one of the slot by itself, so
  that what holds of `HttpFetch` holds of it.
* `FetchIsBounded`: `DeadlineSpec => []ElapsedBounded`. What has passed and what is
  still to wait for is within the budget of the attempts so far (`FetchInv`, with
  `Spent(n)` for that budget).
* `ResultsTellCauses`: `DeadlineSpec => ResultTellsCause`.
* `AnswersInTime`, `EarlyResultsAreServed`, `FirstAttemptsAreServed`: the three
  safety properties of the wait, from `TimeInv`, which says for each phase how long the
  request may still have to wait, and for a first attempt taken in time that its timer
  runs out a write, a read and a sleep before the deadline, and its write ends a read and
  a sleep before it (`Margin`, `WriteInv`). Commands may take any time, also more than the
  buffer. `Typing` for the types (`WaitInv`).

### The limiter and the answers (`RequestPipeline_proofs`)

* `PipelineRunsLimiter`: `PipelineSpec => Spec`, Spec being `RateLimiter`'s: the limiter
  behind the pipeline is the limiter by itself.
* `WaitingFrees`, `PipelineSpec => []RetryAfterHonest`: what a rejected request has waited
  and what its key still has make one window at most (`LimiterInv`). A key that had no expiry
  when it rejected the request, its EXPIRE being lost, is exempt: what it still has is not
  bounded.
* `WindowsOverlapTwice`, `PipelineSpec => []TwoWindowBound`. `WindowInv` says of every
  age, not only of the window, that at most a limit's worth of requests before the
  present key and what this key has let through were counted; and that what was counted
  since the key got its expiry is all its own. The second part is what leaves the next
  key only one limit to add to. A key whose EXPIRE got lost does not end, so it lets no
  second limit through either.
* `CausesAreTold`, `PipelineSpec => []AnswersTellCauses`: a table of the answers each
  cause can have (`PipelineInv`), two rows of which agree exactly if they have one cause
  or one of the pairs of `Alike` (`RowsDiffer`). `Typing` for the types.

### The circuit breaker (`CircuitBreaker_proofs`)

`Typing`, and `StateAndCountAgree`, `Spec => []StateMatchesCount`, which is inductive
with the types. `HalfOpenIsDecided`: the circuit is never HALF_OPEN without a call under
way, which is what keeps it from being stuck there, as no clock ends HALF_OPEN.

### What can be proved of liveness

Liveness under fairness is out of this prover's reach. Its safety half is not: that the
system cannot go on for ever without getting to the point. Four theorems give a variant,
a natural number that each step makes smaller, and one says that what is owed has
somebody who will do it; what TLC adds is that the steps are taken.

| Theorem | Variant | Behind |
|---|---|---|
| `FetchesAdvance` | `FetchLeft`: budget, attempts and awaits of a fetch; every step, the target's too, lessens it | `FetchEnds` |
| `WaitsAdvance` | `WaitLeft`: time of the request and awaits before time passes | `WaitEnds` |
| `JobsAdvance` | `JobLeft(u)`: stalls the job may still have; every move that does not settle it lessens it | `EveryJobSettles` |
| `CircuitHeals` | `ToClosed`: only a failure makes it larger | `ClosesAgain` |
| `CountersAreNotForgotten` | none: a counter without an expiry has a request under way that will set one, unless calls fail or the window is below a second | `LockoutEnds` |

### URL rules (`UrlRules_proofs`)

`UrlRules` has no behaviours. `PrivateAddresses`: the IPv4 addresses that are refused, as
ranges of bytes instead of masks; `UniqueLocalRefused`; and `NamesAccepted`.

### Assumptions

The theorems rest on the named assumptions on the constants only (`JobStoreAssumption`,
`AuditFlowAssumption`, `CircuitBreakerAssumption`, `ConnectionsAssumption`,
`RateLimiterAssumption`, `HttpFetchAssumption`, `AuditDeadlineAssumption`) and on
`PowersOfTwo` of `HttpFetch`, which is the recursion that defines `2^n` and nothing
more: the provers do not know exponents. That these powers are positive and grow is
proved (`PowersGrow`), without the library's induction rule, which takes an operator as
its parameter: a least number at which it failed would have a predecessor
(`LeastNumber`, from the well-foundedness of the naturals, a fact about sets). TLC
evaluates all assumptions on every run.

Checked by TLC only, because liveness under fairness is: `EveryRequestAnswered`,
`EveryJobSettles`, `WaiterServed`, `LockoutEnds`, `RequestEnds`, `FetchEnds`, `WaitEnds`,
`ClosesAgain`, `StartsWithRedis`, `ProbeAnswered`, `ReadyAgain` and `StopEnds`.

## 6. What could come next

1. A network between slot and Redis in `AuditFlow`: a write that is executed late,
   after that of a newer run.
2. Two processes in `Lifecycle`, one of which stops: the requests of the other that
   wait for a result that is lost.
3. Variants for the stop and for the requests of the audit flow, as those above.

## 7. Not modelled

* Parsing of HTML and URLs, log and message texts, the API documentation, compression,
  CORS and headers, environment parsing: functions of their input without state.
* Correlation ids: one middleware that copies a header or makes an id. Which id the
  logger sees depends on the order in which Express and Nest call their middlewares,
  fixed and outside `src/`.
* The values of the metrics: three gauges are overwritten with the queue's counts, the
  other counters are never incremented. The route is in `RequestPipeline`.
* Operations nothing calls: `CacheService.del`, `exists`, `getStats`,
  `AuditRepository.invalidate`, `QueueService.close`, `getWorkerMetrics`. The effect of
  `del` on a result would be that of `Expire`.
* A command of ioredis that is executed after its timeout: a write is applied at once
  or lost in `AuditFlow`, and applied within its time in `AuditDeadline`; a read answers
  within its time or fails. What a client does with commands
  under way when its connection breaks is ioredis's, and reduced to that choice.
* Several processes in `Lifecycle`: they share only Redis, and what one process's crash
  or lost write does to another's requests is in `AuditFlow`.
