---------------------------- MODULE AuditDeadline ----------------------------
(***************************************************************************)
(* A request that waits for its audit, on one clock with the worker slot   *)
(* that makes it (HttpFetch): AuditService.waitForResult polls the cache,  *)
(* at growing intervals, until it has waited REQUEST_TIMEOUT and a buffer. *)
(* The slot may be busy with other jobs when the request dispatches its    *)
(* own. Redis answers a command within CommandTime and loses none.         *)
(***************************************************************************)
EXTENDS HttpFetch

CONSTANTS
    Buffer,     \* what maxWaitMs adds to REQUEST_TIMEOUT: 10 s
    MinPoll,    \* the first pollInterval: 50 ms
    MaxPoll,    \* maxInterval: 500 ms
    CommandTime \* the longest a command takes that succeeds: at most
                \* commandTimeout, 5 s

ASSUME AuditDeadlineAssumption ==
    /\ Buffer \in Nat
    /\ MinPoll \in Nat \ {0}
    /\ MaxPoll \in Nat /\ MinPoll <= MaxPoll
    /\ CommandTime \in Nat

VARIABLES
    phase,     \* where waitForResult is, or its outcome
    clock,     \* ticks since its startTime
    left,      \* ticks a read may still take, or a sleep still takes
    interval,  \* pollInterval
    job,       \* the job of the request's URL
    writing,   \* ticks the slot's SETEX may still take, Off when there is none
    prompt,    \* was the job taken while the buffer left time for a write, a
               \* read and a sleep?
    retried,   \* did it need more than one attempt?
    storedAt   \* the clock when its result was in the cache

waitVars == <<phase, clock, left, interval>>
jobVars == <<job, writing, prompt, retried, storedAt>>
allVars == <<vars, waitVars, jobVars>>

(* A version of maxWait that waits no longer than one attempt may take. *)
maxWaitBare == Timeout

maxWait == Timeout + Buffer

Never == -1

DeadlineInit ==
    /\ Init
    /\ phase = "idle"
    /\ clock = 0
    /\ left = 0
    /\ interval = MinPoll
    /\ job \in {"none", "queued"}  \* another request may have asked before
    /\ writing = Off
    /\ prompt = FALSE
    /\ retried = FALSE
    /\ storedAt = Never

-----------------------------------------------------------------------------
(* The slot. *)

(* It takes the job of the request's URL, or another one. *)
Take ==
    /\ Begin
    /\ \/ /\ job = "queued"
          /\ job' = "running"
          /\ prompt' = (clock + 2 * CommandTime + MaxPoll < Buffer)
       \/ UNCHANGED <<job, prompt>>
    /\ UNCHANGED <<waitVars, writing, retried, storedAt>>

(* The slot's own timers, and what the target does. *)
FetchTimers == (Send \/ Abort) /\ UNCHANGED <<waitVars, jobVars>>

TargetActs ==
    /\ Respond \/ Read \/ \E error \in {"retryable", "other"} : Break(error)
    /\ retried' = (retried \/ (job = "running" /\ attempt' > 0))
    /\ UNCHANGED <<waitVars, job, writing, prompt, storedAt>>

(* The fetch is over, one way or the other: process awaits cacheAudit,      *)
(* which sends the result with a SETEX.                                     *)
Save ==
    /\ pc \in {"returned", "threw"}
    /\ writing = Off
    /\ writing' = CommandTime
    /\ UNCHANGED <<vars, waitVars, job, prompt, retried, storedAt>>

(* Redis executes the SETEX, sooner or later: the result is in the cache,   *)
(* and process returns.                                                     *)
Store ==
    /\ writing # Off
    /\ writing' = Off
    /\ Record
    /\ \/ /\ job = "running"
          /\ job' = "done"
          /\ storedAt' = clock
       \/ /\ job # "running"
          /\ UNCHANGED <<job, storedAt>>
    /\ UNCHANGED <<waitVars, prompt, retried>>

-----------------------------------------------------------------------------
(* The request. *)

(* auditUrl has missed the cache and dispatched, which is a no-op if the    *)
(* job is there already; waitForResult takes its startTime.                 *)
Dispatch ==
    /\ phase = "idle"
    /\ storedAt = Never
    /\ job' = IF job = "none" THEN "queued" ELSE job
    /\ phase' = "sleeping"
    /\ UNCHANGED <<vars, clock, left, interval, writing, prompt, retried, storedAt>>

(* The loop's condition holds: findCachedAudit is called. *)
Look ==
    /\ phase = "sleeping"
    /\ left = 0
    /\ clock < maxWait
    /\ phase' = "asked"
    /\ left' = CommandTime
    /\ UNCHANGED <<vars, clock, interval, jobVars>>

(* Redis executes the GET; its reply comes later. *)
Executed ==
    /\ phase = "asked"
    /\ phase' = IF storedAt = Never THEN "miss" ELSE "hit"
    /\ UNCHANGED <<vars, clock, left, interval, jobVars>>

Hit ==
    /\ phase = "hit"
    /\ phase' = "served"
    /\ UNCHANGED <<vars, clock, left, interval, jobVars>>

(* A version of Grown that has no maximum. *)
GrownAlways == (interval * 3) \div 2

Grown == IF (interval * 3) \div 2 > MaxPoll THEN MaxPoll ELSE (interval * 3) \div 2

(* sleep(pollInterval), and a longer one next time. *)
Miss ==
    /\ phase = "miss"
    /\ phase' = "sleeping"
    /\ left' = interval
    /\ interval' = Grown
    /\ UNCHANGED <<vars, clock, jobVars>>

(* A version of TimeIsUp that starts to wait again. *)
TimeIsUpRestarting ==
    /\ phase = "sleeping"
    /\ left = 0
    /\ clock >= maxWait
    /\ clock' = 0
    /\ UNCHANGED <<vars, phase, left, interval, jobVars>>

(* The loop's condition fails: null, without a last look. *)
TimeIsUp ==
    /\ phase = "sleeping"
    /\ left = 0
    /\ clock >= maxWait
    /\ phase' = "expired"
    /\ UNCHANGED <<vars, clock, left, interval, jobVars>>

WaitSteps == Look \/ Executed \/ Hit \/ Miss \/ TimeIsUp

-----------------------------------------------------------------------------
(* Time passes for the slot, for the request or for both; whatever is due   *)
(* happens first. Once the request is answered its clock is of no interest. *)
Waiting == phase \in {"sleeping", "asked", "hit", "miss"}

(* The slot waits for its sleep, its timer or its SETEX. *)
SlotWaits ==
    \/ Tick /\ UNCHANGED writing
    \/ writing > 0 /\ writing' = writing - 1 /\ UNCHANGED vars

SlotTicks == SlotWaits \/ (pc = "idle" /\ UNCHANGED <<vars, writing>>)

TimePasses ==
    /\ \/ /\ Waiting
          /\ left > 0
          /\ SlotTicks
          /\ clock' = clock + 1
          /\ left' = left - 1
       \/ /\ ~Waiting
          /\ SlotWaits
          /\ UNCHANGED <<clock, left>>
    /\ UNCHANGED <<phase, interval, job, prompt, retried, storedAt>>

DeadlineNext ==
    \/ Take \/ FetchTimers \/ TargetActs \/ Save \/ Store
    \/ Dispatch \/ WaitSteps
    \/ TimePasses

(* Timers and the event loop run and Redis answers; nothing is assumed of   *)
(* the target, nor that the slot ever takes the job.                        *)
DeadlineSpec ==
    /\ DeadlineInit /\ [][DeadlineNext]_allVars
    /\ WF_allVars(FetchTimers) /\ WF_allVars(Save) /\ WF_allVars(Store)
    /\ WF_allVars(WaitSteps) /\ SF_allVars(TimePasses)

-----------------------------------------------------------------------------
(* The types, with those of the fetch. *)
DeadlineTypeOK ==
    /\ TypeOK
    /\ phase \in {"idle", "sleeping", "asked", "hit", "miss", "served", "expired"}
    /\ clock \in Nat
    /\ left \in 0..(IF CommandTime > MaxPoll THEN CommandTime ELSE MaxPoll)
    /\ interval \in MinPoll..MaxPoll
    /\ job \in {"none", "queued", "running", "done"}
    /\ writing \in Off..CommandTime
    /\ writing # Off => pc \in {"returned", "threw"}
    /\ prompt \in BOOLEAN
    /\ retried \in BOOLEAN
    /\ storedAt \in {Never} \cup 0..clock
    /\ prompt \/ retried => job \in {"running", "done"}
    /\ job = "done" <=> storedAt # Never

(* audit.service.ts:71-84: the loop looks at the clock only between two     *)
(* sleeps, so a request outlasts maxWaitMs, but never by more than one read *)
(* and one sleep.                                                           *)
AnsweredInTime == clock < maxWait + CommandTime + MaxPoll

(* The loop ends without a last look at the cache; still, a result that was *)
(* there one read and one sleep before maxWaitMs is never missed.           *)
EarlyResultServed ==
    phase = "expired" /\ storedAt # Never => storedAt + CommandTime + MaxPoll >= maxWait

(* What the buffer of 10 s buys (audit.service.ts:71): a request whose job  *)
(* is taken within what the buffer leaves beyond a write, a read and a      *)
(* sleep, and whose target decides the first attempt, be it by not          *)
(* answering, is served and never told that its audit timed out.            *)
FirstAttemptServed ==
    phase = "expired" /\ prompt => retried

(* Every request that waits is answered. *)
WaitEnds == Waiting ~> phase \in {"served", "expired"}
=============================================================================
