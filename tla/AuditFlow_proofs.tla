--------------------------- MODULE AuditFlow_proofs ---------------------------
(***************************************************************************)
(* Safety of AuditFlow for any number of requests, slots, processes, URLs  *)
(* and faults.                                                             *)
(***************************************************************************)
EXTENDS AuditFlow, FiniteSetTheorems, TLAPS

(* Adding a job keeps the types of the job store. *)
LEMMA AddJobTyping ==
    ASSUME NEW u \in Urls, JobTypeOK, AddJob(u)
    PROVE  JobTypeOK'
BY JobStoreAssumption DEF JobTypeOK, JobStates, AddJob, jobVars

(* Completing a job keeps the types of the job store. *)
LEMMA CompleteTyping ==
    ASSUME NEW u \in Urls, JobTypeOK, Complete(u)
    PROVE  JobTypeOK'
<1>1. stalls' = stalls
  BY DEF Complete
<1>2. CASE status' = [status EXCEPT ![u] = "completed"]
  BY <1>1, <1>2 DEF JobTypeOK, JobStates
<1>3. ASSUME NEW old \in CompletedJobs,
             status' = [status EXCEPT ![u] = "completed", ![old] = "absent"]
      PROVE  JobTypeOK'
  BY <1>1, <1>3 DEF JobTypeOK, JobStates, CompletedJobs
<1> QED
  BY <1>2, <1>3 DEF Complete

(* Recovering a stalled job never counts more than MaxStalled stalls. *)
LEMMA RecoverTyping ==
    ASSUME NEW u \in Urls, JobTypeOK, Recover(u)
    PROVE  JobTypeOK'
BY JobStoreAssumption DEF JobTypeOK, JobStates, Recover

(* One step of a request keeps the types. *)
LEMMA ProgressTyping ==
    ASSUME TypeOK, NEW r \in Requests, Progress(r)
    PROVE  TypeOK'
<1> USE DEF TypeOK, Phases, InProgress, Answers, requestVars, slotVars
<1> target[r] \in Urls
  BY DEF Progress, Lookup, LookupHit, LookupMiss, LookupFails, CheckQueue, Add,
         QueueFails, Poll, PollHit, PollMiss, Wake, Moves
<1>1. CASE Lookup(r)
  BY <1>1 DEF Lookup, LookupHit, LookupMiss, LookupFails, Moves, JobTypeOK, jobVars
<1>2. CASE CheckQueue(r)
  BY <1>2 DEF CheckQueue, Moves, JobTypeOK, jobVars
<1>3. CASE Add(r)
  <2>1. JobTypeOK'
    BY <1>3, AddJobTyping DEF Add
  <2> QED
    BY <1>3, <2>1 DEF Add, Moves
<1>4. CASE QueueFails(r)
  <2>1. JobTypeOK'
    BY <1>4, AddJobTyping DEF QueueFails, JobTypeOK, jobVars
  <2> QED
    BY <1>4, <2>1 DEF QueueFails, Moves
<1>5. CASE Poll(r)
  BY <1>5 DEF Poll, PollHit, PollMiss, Moves, JobTypeOK, jobVars
<1>6. CASE Wake(r)
  BY <1>6 DEF Wake, Moves, JobTypeOK, jobVars
<1> QED
  BY <1>1, <1>2, <1>3, <1>4, <1>5, <1>6 DEF Progress

(* One step of a worker slot keeps the types. *)
LEMMA SlotTyping ==
    ASSUME TypeOK, NEW w \in Workers,
           (\E u \in Urls : Take(w, u)) \/ Store(w) \/ Finish(w) \/ LoseLock(w)
    PROVE  TypeOK'
<1> USE DEF TypeOK, Stages, requestVars, slotVars
<1>1. ASSUME NEW u \in Urls, Take(w, u) PROVE TypeOK'
  <2>1. JobTypeOK'
    BY <1>1 DEF Take, Activate, JobTypeOK, JobStates
  <2> QED
    BY <1>1, <2>1 DEF Take
<1>2. CASE Store(w)
  BY <1>2 DEF Store, JobTypeOK, jobVars
<1>3. CASE Finish(w)
  <2>1. task[w] \in Urls
    BY <1>3 DEF Finish
  <2>2. JobTypeOK'
    BY <1>3, <2>1, CompleteTyping DEF Finish, JobTypeOK, jobVars
  <2> QED
    BY <1>3, <2>2 DEF Finish, Release
<1>4. CASE LoseLock(w)
  BY <1>4 DEF LoseLock, JobTypeOK, jobVars
<1> QED
  BY <1>1, <1>2, <1>3, <1>4

(* The variables of AuditFlow keep their types, a request that is being     *)
(* served has a URL and so has a slot that is not free, whatever fails.     *)
THEOREM Typing == Spec => []TypeOK
<1>1. Init => TypeOK
  BY AuditFlowAssumption, JobStoreAssumption
  DEF Init, JobInit, TypeOK, JobTypeOK, JobStates, Phases, InProgress, Answers, Stages
<1>2. TypeOK /\ [Next]_vars => TypeOK'
  <2> SUFFICES ASSUME TypeOK, [Next]_vars PROVE TypeOK'
    OBVIOUS
  <2> USE AuditFlowAssumption
  <2>1. ASSUME NEW r \in Requests, NEW u \in Urls, Arrive(r, u) PROVE TypeOK'
    BY <2>1 DEF Arrive, TypeOK, Phases, InProgress, Answers, slotVars, JobTypeOK, jobVars
  <2>2. ASSUME NEW r \in Requests, Progress(r) PROVE TypeOK'
    BY <2>2, ProgressTyping
  <2>3. ASSUME NEW r \in Requests, DeadlinePasses(r) PROVE TypeOK'
    BY <2>3 DEF DeadlinePasses, TypeOK, slotVars, JobTypeOK, jobVars
  <2>4. ASSUME NEW w \in Workers,
               (\E u \in Urls : Take(w, u)) \/ Store(w) \/ Finish(w) \/ LoseLock(w)
        PROVE  TypeOK'
    BY <2>4, SlotTyping
  <2>5. ASSUME NEW u \in Urls, RecoverStalled(u) PROVE TypeOK'
    <3>1. JobTypeOK'
      BY <2>5, RecoverTyping DEF RecoverStalled, TypeOK
    <3> QED
      BY <2>5, <3>1 DEF RecoverStalled, TypeOK, requestVars, slotVars
  <2>6. ASSUME NEW u \in Urls, ForgetFailed(u) PROVE TypeOK'
    BY <2>6 DEF ForgetFailed, Forget, TypeOK, requestVars, slotVars, JobTypeOK, JobStates
  <2>7. ASSUME NEW u \in Urls, Expire(u) PROVE TypeOK'
    BY <2>7 DEF Expire, TypeOK, requestVars, slotVars, JobTypeOK, jobVars
  <2>8. ASSUME NEW p \in Procs, Crash(p) PROVE TypeOK'
    BY <2>8 DEF Crash, TypeOK, Phases, InProgress, Answers, Stages, JobTypeOK, jobVars
  <2>9. CASE Rest \/ UNCHANGED vars
    BY <2>9 DEF Rest, vars, TypeOK, requestVars, slotVars, JobTypeOK, jobVars
  <2> QED
    BY <2>1, <2>2, <2>3, <2>4, <2>5, <2>6, <2>7, <2>8, <2>9 DEF Next
<1> QED
  BY <1>1, <1>2, PTL DEF Spec

-----------------------------------------------------------------------------
(* Adding a job disturbs no active one. *)
LEMMA AddKeepsActive ==
    ASSUME NEW u \in Urls, NEW v \in Urls, JobTypeOK, AddJob(u),
           status[v] = "active"
    PROVE  status'[v] = "active"
BY DEF AddJob, JobTypeOK, jobVars

(* Completing a job disturbs no other active one. *)
LEMMA CompleteKeepsActive ==
    ASSUME NEW u \in Urls, NEW v \in Urls, JobTypeOK, Complete(u),
           status[v] = "active", v # u
    PROVE  status'[v] = "active"
<1>1. CASE status' = [status EXCEPT ![u] = "completed"]
  BY <1>1 DEF JobTypeOK
<1>2. ASSUME NEW old \in CompletedJobs,
             status' = [status EXCEPT ![u] = "completed", ![old] = "absent"]
      PROVE  status'[v] = "active"
  <2>1. old # v
    BY DEF CompletedJobs
  <2> QED
    BY <1>2, <2>1 DEF JobTypeOK
<1> QED
  BY <1>1, <1>2 DEF Complete

(* A step of a request leaves slots and runs alone and active jobs active.  *)
LEMMA ProgressFrame ==
    ASSUME TypeOK, NEW r \in Requests, Progress(r)
    PROVE  /\ UNCHANGED <<cache, takes, slotVars, target>>
           /\ \A v \in Urls : status[v] = "active" => status'[v] = "active"
<1> USE DEF TypeOK
<1>1. target[r] \in Urls
  BY DEF Progress, Lookup, LookupHit, LookupMiss, LookupFails, CheckQueue, Add,
         QueueFails, Poll, PollHit, PollMiss, Wake, Moves, InProgress
<1>2. CASE Lookup(r)
  BY <1>2 DEF Lookup, jobVars, slotVars
<1>3. CASE CheckQueue(r)
  BY <1>3 DEF CheckQueue, jobVars, slotVars
<1>4. CASE Add(r)
  BY <1>1, <1>4, AddKeepsActive DEF Add, slotVars
<1>5. CASE QueueFails(r)
  BY <1>1, <1>5, AddKeepsActive DEF QueueFails, jobVars, slotVars
<1>6. CASE Poll(r)
  BY <1>6 DEF Poll, PollHit, PollMiss, jobVars, slotVars
<1>7. CASE Wake(r)
  BY <1>7 DEF Wake, jobVars, slotVars
<1> QED
  BY <1>2, <1>3, <1>4, <1>5, <1>6, <1>7 DEF Progress

(* Slots that do not change keep their locks while active jobs stay active. *)
LEMMA LockFrame ==
    ASSUME TypeOK, LockInv, UNCHANGED <<takes, slotVars>>,
           \A v \in Urls : status[v] = "active" /\ Locked(v) => status'[v] = "active"
    PROVE  LockInv'
BY DEF TypeOK, LockInv, slotVars, Locked

(* No step makes a held lock wrong: crash, lost lock and recovery included. *)
LEMMA LockStep == TypeOK /\ LockInv /\ [Next]_vars => LockInv'
<1> SUFFICES ASSUME TypeOK, LockInv, [Next]_vars PROVE LockInv'
  OBVIOUS
<1> USE AuditFlowAssumption
<1>1. ASSUME NEW r \in Requests, NEW u \in Urls, Arrive(r, u) PROVE LockInv'
  BY <1>1, LockFrame DEF Arrive, jobVars
<1>2. ASSUME NEW r \in Requests, Progress(r) PROVE LockInv'
  BY <1>2, ProgressFrame, LockFrame
<1>3. ASSUME NEW r \in Requests, DeadlinePasses(r) PROVE LockInv'
  BY <1>3, LockFrame DEF DeadlinePasses, jobVars
<1>4. ASSUME NEW w \in Workers, NEW u \in Urls, Take(w, u) PROVE LockInv'
  <2> USE DEF TypeOK
  <2>1. ASSUME NEW v \in Workers, held[v] PROVE v # w /\ task[v] # u
    BY <1>4, <2>1 DEF Take, Activate, LockInv
  <2>2. status' = [status EXCEPT ![u] = "active"]
    BY <1>4 DEF Take, Activate
  <2> QED
    BY <1>4, <2>1, <2>2 DEF Take, LockInv, JobTypeOK
<1>5. ASSUME NEW w \in Workers, Store(w) PROVE LockInv'
  BY <1>5 DEF Store, LockInv, TypeOK, jobVars
<1>6. ASSUME NEW w \in Workers, Finish(w) PROVE LockInv'
  <2> USE DEF TypeOK
  <2>1. \A v \in Workers \ {w} : held[v] => status'[task[v]] = "active"
    BY <1>6, CompleteKeepsActive DEF Finish, LockInv, jobVars
  <2> QED
    BY <1>6, <2>1 DEF Finish, Release, LockInv
<1>7. ASSUME NEW w \in Workers, LoseLock(w) PROVE LockInv'
  BY <1>7 DEF LoseLock, LockInv, TypeOK, jobVars
<1>8. ASSUME NEW u \in Urls, RecoverStalled(u) PROVE LockInv'
  BY <1>8, LockFrame DEF RecoverStalled, Recover, TypeOK, JobTypeOK
<1>9. ASSUME NEW u \in Urls, ForgetFailed(u) PROVE LockInv'
  BY <1>9, LockFrame DEF ForgetFailed, Forget, TypeOK, JobTypeOK
<1>10. ASSUME NEW u \in Urls, Expire(u) PROVE LockInv'
  BY <1>10, LockFrame DEF Expire, jobVars
<1>11. ASSUME NEW p \in Procs, Crash(p) PROVE LockInv'
  BY <1>11 DEF Crash, LockInv, TypeOK, jobVars
<1>12. CASE Rest \/ UNCHANGED vars
  BY <1>12, LockFrame DEF Rest, vars, jobVars
<1> QED
  BY <1>1, <1>2, <1>3, <1>4, <1>5, <1>6, <1>7, <1>8, <1>9, <1>10, <1>11, <1>12
  DEF Next

(* Without the fault "lock" no step leaves a slot at work without its lock. *)
LEMMA LocksKeptStep == TypeOK /\ LocksKept /\ [Next]_vars => LocksKept'
<1> SUFFICES ASSUME TypeOK, "lock" \notin Faults, [Next]_vars,
                    \A w \in Workers : stage[w] # "free" => held[w]
             PROVE  \A w \in Workers : stage'[w] # "free" => held'[w]
  BY DEF LocksKept
<1> USE DEF TypeOK
<1>1. ASSUME UNCHANGED <<stage, held>>
      PROVE  \A w \in Workers : stage'[w] # "free" => held'[w]
  BY <1>1
<1>2. ASSUME NEW r \in Requests, Progress(r) PROVE UNCHANGED <<stage, held>>
  BY <1>2, ProgressFrame DEF slotVars
<1>3. ASSUME NEW w \in Workers, NEW u \in Urls, Take(w, u)
      PROVE  \A v \in Workers : stage'[v] # "free" => held'[v]
  BY <1>3 DEF Take
<1>4. ASSUME NEW w \in Workers, Store(w)
      PROVE  \A v \in Workers : stage'[v] # "free" => held'[v]
  BY <1>4 DEF Store
<1>5. ASSUME NEW w \in Workers, Finish(w)
      PROVE  \A v \in Workers : stage'[v] # "free" => held'[v]
  BY <1>5 DEF Finish, Release
<1>6. ASSUME NEW w \in Workers PROVE ~LoseLock(w)
  BY DEF LoseLock
<1>7. ASSUME NEW p \in Procs, Crash(p)
      PROVE  \A v \in Workers : stage'[v] # "free" => held'[v]
  BY <1>7 DEF Crash
<1>8. ASSUME NEW r \in Requests,
             (\E u \in Urls : Arrive(r, u)) \/ DeadlinePasses(r)
      PROVE  UNCHANGED <<stage, held>>
  BY <1>8 DEF Arrive, DeadlinePasses, slotVars
<1>9. ASSUME NEW u \in Urls, RecoverStalled(u) \/ ForgetFailed(u) \/ Expire(u)
      PROVE  UNCHANGED <<stage, held>>
  BY <1>9 DEF RecoverStalled, ForgetFailed, Expire, slotVars
<1>10. Rest \/ UNCHANGED vars => UNCHANGED <<stage, held>>
  BY DEF Rest, vars, slotVars
<1> QED
  BY <1>1, <1>2, <1>3, <1>4, <1>5, <1>6, <1>7, <1>8, <1>9, <1>10 DEF Next

(* Requests whose URL, cache entry and run count stay as they are keep what *)
(* FreshInv says of them.                                                   *)
LEMMA FreshFrame ==
    ASSUME TypeOK, FreshInv, UNCHANGED <<phase, target, base, cache, takes>>
    PROVE  FreshInv'
BY DEF FreshInv

(* No step caches a result older than what a request has missed. *)
LEMMA FreshStep == TypeOK /\ LockInv /\ LocksKept /\ FreshInv /\ [Next]_vars => FreshInv'
<1> SUFFICES ASSUME TypeOK, LockInv, LocksKept, FreshInv, [Next]_vars
             PROVE  FreshInv'
  OBVIOUS
<1> USE DEF TypeOK
<1>1. ASSUME NEW r \in Requests, NEW u \in Urls, Arrive(r, u) PROVE FreshInv'
  BY <1>1 DEF Arrive, FreshInv, InProgress
<1>2. ASSUME NEW r \in Requests, Lookup(r) PROVE FreshInv'
  <2>1. target[r] \in Urls
    BY <1>2 DEF Lookup, LookupHit, LookupMiss, LookupFails, Moves, InProgress
  <2>2. base'[r] <= takes'[target'[r]]
    BY <1>2, <2>1 DEF Lookup, LookupHit, LookupMiss, LookupFails, Moves, FreshInv
  <2> QED
    BY <1>2, <2>1, <2>2 DEF Lookup, LookupHit, LookupMiss, LookupFails, Moves, FreshInv
<1>3. ASSUME NEW r \in Requests,
             CheckQueue(r) \/ Add(r) \/ QueueFails(r) \/ Poll(r) \/ Wake(r)
      PROVE  FreshInv'
  BY <1>3 DEF CheckQueue, Add, QueueFails, Poll, PollHit, PollMiss, Wake, Moves, FreshInv, InProgress
<1>4. ASSUME NEW r \in Requests, DeadlinePasses(r) PROVE FreshInv'
  BY <1>4, FreshFrame DEF DeadlinePasses
<1>5. ASSUME NEW w \in Workers, NEW u \in Urls, Take(w, u) PROVE FreshInv'
  BY <1>5 DEF Take, FreshInv, requestVars, InProgress
<1>6. ASSUME NEW w \in Workers, Store(w) PROVE FreshInv'
  <2>1. task[w] \in Urls
    BY <1>6 DEF Store
  <2>2. "lock" \notin Faults => stamp[w] = takes[task[w]]
    BY <1>6 DEF Store, LockInv, LocksKept
  <2>3. CASE UNCHANGED cache
    BY <1>6, <2>3, FreshFrame DEF Store, requestVars
  <2>4. CASE cache' = [cache EXCEPT ![task[w]] = stamp[w]]
    BY <1>6, <2>1, <2>2, <2>4 DEF Store, requestVars, FreshInv
  <2> QED
    BY <1>6, <2>3, <2>4 DEF Store
<1>7. ASSUME NEW w \in Workers, Finish(w) \/ LoseLock(w) PROVE FreshInv'
  BY <1>7, FreshFrame DEF Finish, LoseLock, requestVars
<1>8. ASSUME NEW u \in Urls, RecoverStalled(u) \/ ForgetFailed(u) PROVE FreshInv'
  BY <1>8, FreshFrame DEF RecoverStalled, ForgetFailed, requestVars
<1>9. ASSUME NEW u \in Urls, Expire(u) PROVE FreshInv'
  BY <1>9 DEF Expire, requestVars, FreshInv
<1>10. ASSUME NEW p \in Procs, Crash(p) PROVE FreshInv'
  BY <1>10 DEF Crash, FreshInv
<1>11. CASE Rest \/ UNCHANGED vars
  BY <1>11, FreshFrame DEF Rest, vars, requestVars
<1> QED
  BY <1>1, <1>2, <1>3, <1>4, <1>5, <1>6, <1>7, <1>8, <1>9, <1>10, <1>11
  DEF Next, Progress

(* The inductive invariant: who holds a lock runs the newest audit of an    *)
(* active job, and nothing cached is older than what a request has missed.  *)
THEOREM InductiveInvariant == Spec => []IInv
<1>1. Init => IInv
  BY DEF Init, IInv, LockInv, LocksKept, FreshInv, InProgress
<1>2. TypeOK /\ IInv /\ [Next]_vars => IInv'
  BY LockStep, LocksKeptStep, FreshStep DEF IInv
<1> QED
  BY <1>1, <1>2, Typing, PTL DEF Spec

(* One audit per URL at a time, for any number of processes and slots, with *)
(* crashes, recovered jobs and failing calls (queue.service.ts:14-15).      *)
THEOREM OneAuditPerUrl == Spec => []SingleFlight
<1>1. IInv => SingleFlight
  BY DEF IInv, LockInv, SingleFlight
<1> QED
  BY <1>1, InductiveInvariant, PTL

(* No result is overwritten by that of an older run, except by a slot that  *)
(* lost its lock (CacheService.set called by AuditProcessor.process).       *)
THEOREM NewestRunWins == Spec => NewestWins
<1>1. TypeOK /\ IInv /\ [Next]_vars => [NewestWrites]_vars
  <2> SUFFICES ASSUME TypeOK, IInv, [Next]_vars, NEW u \in Urls,
                      cache'[u] \notin {0, cache[u]}
               PROVE  \/ cache'[u] = takes[u]
                      \/ \E w \in Workers :
                            task[w] = u /\ ~held[w] /\ cache'[u] = stamp[w]
    BY DEF NewestWrites
  <2> USE DEF TypeOK
  <2>1. ~UNCHANGED cache
    OBVIOUS
  <2>2. ASSUME NEW r \in Requests,
               (\E v \in Urls : Arrive(r, v)) \/ Progress(r) \/ DeadlinePasses(r)
        PROVE  UNCHANGED cache
    BY <2>2, ProgressFrame DEF Arrive, DeadlinePasses
  <2>3. ASSUME NEW w \in Workers, Store(w)
        PROVE  \/ cache'[u] = takes[u]
               \/ task[w] = u /\ ~held[w] /\ cache'[u] = stamp[w]
    BY <2>3 DEF Store, IInv, LockInv
  <2>4. ASSUME NEW w \in Workers,
               (\E v \in Urls : Take(w, v)) \/ Finish(w) \/ LoseLock(w)
        PROVE  UNCHANGED cache
    BY <2>4 DEF Take, Finish, LoseLock
  <2>5. ASSUME NEW v \in Urls, RecoverStalled(v) \/ ForgetFailed(v)
        PROVE  UNCHANGED cache
    BY <2>5 DEF RecoverStalled, ForgetFailed
  <2>6. ASSUME NEW v \in Urls PROVE ~Expire(v)
    BY DEF Expire
  <2>7. ASSUME NEW p \in Procs, Crash(p) PROVE UNCHANGED cache
    BY <2>7 DEF Crash
  <2>8. Rest \/ UNCHANGED vars => UNCHANGED cache
    BY DEF Rest, vars
  <2> QED
    BY <2>1, <2>2, <2>3, <2>4, <2>5, <2>6, <2>7, <2>8 DEF Next
<1> QED
  BY <1>1, Typing, InductiveInvariant, PTL DEF Spec, NewestWins

(* As long as no slot loses its lock, a request that found nothing cached   *)
(* is never answered with the result of a run that had been superseded by   *)
(* then (AuditService.waitForResult).                                       *)
THEOREM AnswersAreFresh == ASSUME "lock" \notin Faults PROVE Spec => FreshAnswer
<1>1. TypeOK /\ IInv /\ [Next]_vars => [AnswersFresh]_vars
  <2> SUFFICES ASSUME TypeOK, IInv, [Next]_vars, NEW r \in Requests,
                      phase[r] = "poll", phase'[r] = "live"
               PROVE  cache[target[r]] >= base[r]
    BY DEF AnswersFresh
  <2> USE DEF TypeOK
  <2>1. cache[target[r]] # 0
    <3>1. ASSUME NEW q \in Requests, Progress(q) PROVE cache[target[r]] # 0
      BY <3>1 DEF Progress, Lookup, LookupHit, LookupMiss, LookupFails, CheckQueue,
                  Add, QueueFails, Poll, PollHit, PollMiss, Wake, Moves
    <3>2. ASSUME NEW q \in Requests,
                 (\E v \in Urls : Arrive(q, v)) \/ DeadlinePasses(q)
          PROVE  phase'[r] # "live"
      BY <3>2 DEF Arrive, DeadlinePasses
    <3>3. ASSUME NEW w \in Workers,
                 (\E v \in Urls : Take(w, v)) \/ Store(w) \/ Finish(w) \/ LoseLock(w)
          PROVE  UNCHANGED phase
      BY <3>3 DEF Take, Store, Finish, LoseLock, requestVars
    <3>4. ASSUME NEW v \in Urls, RecoverStalled(v) \/ ForgetFailed(v) \/ Expire(v)
          PROVE  UNCHANGED phase
      BY <3>4 DEF RecoverStalled, ForgetFailed, Expire, requestVars
    <3>5. ASSUME NEW p \in Procs, Crash(p) PROVE phase'[r] # "live"
      BY <3>5 DEF Crash
    <3>6. Rest \/ UNCHANGED vars => UNCHANGED phase
      BY DEF Rest, vars, requestVars
    <3> QED
      BY <3>1, <3>2, <3>3, <3>4, <3>5, <3>6 DEF Next
  <2> QED
    BY <2>1 DEF IInv, FreshInv, InProgress
<1> QED
  BY <1>1, Typing, InductiveInvariant, PTL DEF Spec, FreshAnswer

-----------------------------------------------------------------------------
(* Steps that add neither to the fresh jobs nor to the requests about to    *)
(* add one keep the bound.                                                  *)
LEMMA OvershootFrame ==
    ASSUME OvershootInv, IsFiniteSet(WaitingJobs'),
           FreshlyWaiting' \subseteq FreshlyWaiting, Adding' \subseteq Adding
    PROVE  OvershootInv'
<1>1. IsFiniteSet(FreshlyWaiting) /\ IsFiniteSet(Adding)
  BY FS_Subset, AuditFlowAssumption DEF OvershootInv, FreshlyWaiting, Adding
<1>2. /\ Cardinality(FreshlyWaiting') <= Cardinality(FreshlyWaiting)
      /\ Cardinality(Adding') <= Cardinality(Adding)
  BY <1>1, FS_Subset
<1>3. /\ Cardinality(FreshlyWaiting) \in Nat /\ Cardinality(FreshlyWaiting') \in Nat
      /\ Cardinality(Adding) \in Nat /\ Cardinality(Adding') \in Nat
      /\ Cardinality(Requests) \in Nat
  BY <1>1, FS_Subset, FS_CardinalityType, AuditFlowAssumption
<1> QED
  BY <1>2, <1>3, AuditFlowAssumption DEF OvershootInv, QueueOvershootBounded

(* A request that leaves the add step may add one job.                      *)
LEMMA OvershootAdd ==
    ASSUME TypeOK, OvershootInv, NEW r \in Requests, phase[r] = "add",
           NEW to \in Phases \ {"add"}, phase' = [phase EXCEPT ![r] = to],
           AddJob(target[r]) \/ UNCHANGED jobVars
    PROVE  OvershootInv'
<1> USE DEF TypeOK
<1> DEFINE u == target[r]
<1>1. u \in Urls
  BY DEF InProgress
<1>2. Adding' = Adding \ {r} /\ r \in Adding
  BY DEF Adding
<1>3. /\ FreshlyWaiting' \subseteq FreshlyWaiting \cup {u}
      /\ WaitingJobs' \subseteq WaitingJobs \cup {u}
  BY <1>1 DEF FreshlyWaiting, WaitingJobs, AddJob, JobTypeOK, jobVars
<1>4. IsFiniteSet(FreshlyWaiting) /\ IsFiniteSet(Adding)
  BY FS_Subset, AuditFlowAssumption DEF OvershootInv, FreshlyWaiting, Adding
<1>5. IsFiniteSet(WaitingJobs')
  BY <1>3, FS_AddElement, FS_Subset DEF OvershootInv
<1>6. Cardinality(FreshlyWaiting') <= Cardinality(FreshlyWaiting) + 1
  <2>1. /\ IsFiniteSet(FreshlyWaiting \cup {u})
        /\ Cardinality(FreshlyWaiting \cup {u}) \in
              {Cardinality(FreshlyWaiting), Cardinality(FreshlyWaiting) + 1}
    BY <1>4, FS_AddElement
  <2>2. /\ Cardinality(FreshlyWaiting') <= Cardinality(FreshlyWaiting \cup {u})
        /\ IsFiniteSet(FreshlyWaiting')
    BY <1>3, <2>1, FS_Subset
  <2> QED
    BY <1>4, <2>1, <2>2, FS_CardinalityType
<1>7. Cardinality(Adding') = Cardinality(Adding) - 1
  BY <1>2, <1>4, FS_RemoveElement
<1>8. /\ Cardinality(FreshlyWaiting) \in Nat /\ Cardinality(FreshlyWaiting') \in Nat
      /\ Cardinality(Adding) \in Nat /\ Cardinality(Requests) \in Nat
  <2>1. IsFiniteSet(FreshlyWaiting')
    BY <1>3, <1>4, FS_AddElement, FS_Subset
  <2> QED
    BY <1>4, <2>1, FS_CardinalityType, AuditFlowAssumption
<1> QED
  BY <1>5, <1>6, <1>7, <1>8, AuditFlowAssumption DEF OvershootInv, QueueOvershootBounded

(* A request passes the check while fewer than MaxQueueSize jobs wait.      *)
LEMMA OvershootCheck ==
    ASSUME TypeOK, OvershootInv, NEW r \in Requests, CheckQueue(r)
    PROVE  OvershootInv'
<1> USE DEF TypeOK
<1>1. UNCHANGED jobVars
  BY DEF CheckQueue
<1>2. FreshlyWaiting' = FreshlyWaiting /\ WaitingJobs' = WaitingJobs
  BY <1>1 DEF FreshlyWaiting, WaitingJobs, jobVars
<1>3. CASE Moves(r, "check", "queueFull")
  <2>1. Adding' \subseteq Adding
    BY <1>3 DEF Adding, Moves
  <2> QED
    BY <1>2, <2>1, OvershootFrame DEF OvershootInv
<1>4. CASE Cardinality(WaitingJobs) < MaxQueueSize
  <2>1. /\ IsFiniteSet(FreshlyWaiting)
        /\ Cardinality(FreshlyWaiting) <= Cardinality(WaitingJobs)
    BY FS_Subset DEF OvershootInv, FreshlyWaiting
  <2>2. /\ IsFiniteSet(Adding')
        /\ Cardinality(Adding') <= Cardinality(Requests)
    BY FS_Subset, AuditFlowAssumption DEF Adding
  <2>3. /\ Cardinality(WaitingJobs) \in Nat /\ Cardinality(FreshlyWaiting) \in Nat
        /\ Cardinality(Adding') \in Nat /\ Cardinality(Requests) \in Nat
    BY <2>1, <2>2, FS_CardinalityType, AuditFlowAssumption DEF OvershootInv
  <2> QED
    BY <1>2, <1>4, <2>1, <2>2, <2>3, AuditFlowAssumption
    DEF OvershootInv, QueueOvershootBounded
<1> QED
  BY <1>3, <1>4 DEF CheckQueue

(* No step drives the waiting list over its overshoot. *)
LEMMA OvershootStep == TypeOK /\ OvershootInv /\ [Next]_vars => OvershootInv'
<1> SUFFICES ASSUME TypeOK, OvershootInv, [Next]_vars PROVE OvershootInv'
  OBVIOUS
<1> USE DEF TypeOK
<1>1. ASSUME UNCHANGED status, UNCHANGED stalls, Adding' \subseteq Adding
      PROVE  OvershootInv'
  BY <1>1, OvershootFrame DEF OvershootInv, FreshlyWaiting, WaitingJobs
<1>2. ASSUME UNCHANGED phase PROVE Adding' = Adding
  BY <1>2 DEF Adding
<1>3. ASSUME UNCHANGED phase, UNCHANGED stalls, WaitingJobs' \subseteq WaitingJobs
      PROVE  OvershootInv'
  BY <1>2, <1>3, OvershootFrame, FS_Subset DEF OvershootInv, FreshlyWaiting
<1>4. ASSUME NEW r \in Requests, NEW u \in Urls, Arrive(r, u) PROVE OvershootInv'
  BY <1>1, <1>4 DEF Arrive, jobVars, Adding
<1>5. ASSUME NEW r \in Requests, Lookup(r) PROVE OvershootInv'
  BY <1>1, <1>5 DEF Lookup, LookupHit, LookupMiss, LookupFails, Moves, jobVars, Adding
<1>6. ASSUME NEW r \in Requests, Add(r) PROVE OvershootInv'
  BY <1>6, OvershootAdd DEF Add, Moves, Phases, InProgress
<1>7. ASSUME NEW r \in Requests, QueueFails(r) PROVE OvershootInv'
  <2>1. CASE Moves(r, "check", "error") /\ UNCHANGED jobVars
    BY <1>1, <2>1 DEF Moves, jobVars, Adding
  <2>2. CASE Moves(r, "add", "error") /\ (AddJob(target[r]) \/ UNCHANGED jobVars)
    BY <2>2, OvershootAdd DEF Moves, Phases, Answers
  <2> QED
    BY <1>7, <2>1, <2>2 DEF QueueFails
<1>8. ASSUME NEW r \in Requests, Poll(r) \/ Wake(r) \/ DeadlinePasses(r)
      PROVE  OvershootInv'
  BY <1>1, <1>8 DEF Poll, PollHit, PollMiss, Wake, DeadlinePasses, Moves, jobVars, Adding
<1>9. ASSUME NEW w \in Workers, NEW u \in Urls, Take(w, u) PROVE OvershootInv'
  <2>1. WaitingJobs' \subseteq WaitingJobs
    BY <1>9 DEF Take, Activate, WaitingJobs, JobTypeOK
  <2> QED
    BY <1>3, <1>9, <2>1 DEF Take, Activate, requestVars
<1>10. ASSUME NEW w \in Workers, Finish(w) PROVE OvershootInv'
  <2>1. task[w] \in Urls
    BY <1>10 DEF Finish
  <2>2. CASE Complete(task[w])
    <3>1. WaitingJobs' \subseteq WaitingJobs
      BY <2>1, <2>2 DEF Complete, WaitingJobs, CompletedJobs, JobTypeOK
    <3> QED
      BY <1>3, <1>10, <2>2, <3>1 DEF Finish, Complete, requestVars
  <2>3. CASE UNCHANGED jobVars
    BY <1>1, <1>2, <1>10, <2>3 DEF Finish, requestVars, jobVars
  <2> QED
    BY <1>10, <2>2, <2>3 DEF Finish
<1>11. ASSUME NEW w \in Workers, Store(w) \/ LoseLock(w) PROVE OvershootInv'
  BY <1>1, <1>2, <1>11 DEF Store, LoseLock, requestVars, jobVars
<1>12. ASSUME NEW u \in Urls, RecoverStalled(u) PROVE OvershootInv'
  <2>1. /\ FreshlyWaiting' \subseteq FreshlyWaiting
        /\ WaitingJobs' \subseteq WaitingJobs \cup {u}
    BY <1>12, JobStoreAssumption
    DEF RecoverStalled, Recover, FreshlyWaiting, WaitingJobs, JobTypeOK
  <2>2. IsFiniteSet(WaitingJobs')
    BY <2>1, FS_AddElement, FS_Subset DEF OvershootInv
  <2>3. Adding' = Adding
    BY <1>2, <1>12 DEF RecoverStalled, requestVars
  <2> QED
    BY <2>1, <2>2, <2>3, OvershootFrame
<1>13. ASSUME NEW u \in Urls, ForgetFailed(u) PROVE OvershootInv'
  <2>1. WaitingJobs' \subseteq WaitingJobs
    BY <1>13 DEF ForgetFailed, Forget, WaitingJobs, JobTypeOK
  <2> QED
    BY <1>3, <1>13, <2>1 DEF ForgetFailed, Forget, requestVars
<1>14. ASSUME NEW u \in Urls, Expire(u) PROVE OvershootInv'
  BY <1>1, <1>2, <1>14 DEF Expire, requestVars, jobVars
<1>15. ASSUME NEW p \in Procs, Crash(p) PROVE OvershootInv'
  BY <1>1, <1>15 DEF Crash, jobVars, Adding
<1>16. CASE Rest \/ UNCHANGED vars
  BY <1>1, <1>2, <1>16 DEF Rest, vars, requestVars, jobVars
<1> QED
  BY <1>4, <1>5, <1>6, <1>7, <1>8, <1>9, <1>10, <1>11, <1>12, <1>13, <1>14,
     <1>15, <1>16, OvershootCheck DEF Next, Progress

(* The race between reading the waiting count and adding a job lets the     *)
(* waiting list overshoot QUEUE_MAX_SIZE by less than the number of         *)
(* concurrent requests (queue.service.ts:69-80).                            *)
THEOREM OvershootIsBounded == Spec => []QueueOvershootBounded
<1>1. Init => OvershootInv
  <2> SUFFICES ASSUME Init PROVE OvershootInv
    OBVIOUS
  <2>1. WaitingJobs = {} /\ FreshlyWaiting = {} /\ Adding = {}
    BY DEF Init, JobInit, WaitingJobs, FreshlyWaiting, Adding
  <2>2. Cardinality(Requests) \in Nat
    BY FS_CardinalityType, AuditFlowAssumption
  <2> QED
    BY <2>1, <2>2, FS_EmptySet, AuditFlowAssumption DEF OvershootInv, QueueOvershootBounded
<1>2. OvershootInv => QueueOvershootBounded
  BY DEF OvershootInv
<1> QED
  BY <1>1, <1>2, OvershootStep, Typing, PTL DEF Spec

-----------------------------------------------------------------------------
(* As long as no result is dropped and no write fails, a completed job has  *)
(* its result in the cache: the slot that completed it had written it.      *)
ResultKept ==
    "set" \notin Faults /\ "expire" \notin Faults =>
        /\ \A w \in Workers : stage[w] # "free" => stamp[w] # 0
        /\ \A w \in Workers : stage[w] = "finishing" => cache[task[w]] # 0
        /\ \A u \in Urls : status[u] = "completed" => cache[u] # 0

(* As long as no lock is lost and no process dies, an active job is locked, *)
(* so that it never stalls and no job fails.                                *)
NeverFails ==
    "lock" \notin Faults /\ "crash" \notin Faults =>
        \A u \in Urls : status[u] # "failed" /\ (status[u] = "active" => Locked(u))

ServedInv == ResultKept /\ NeverFails

(* A step of a request completes, fails and activates no job.               *)
LEMMA ProgressJobs ==
    ASSUME TypeOK, NEW r \in Requests, Progress(r), NEW u \in Urls
    PROVE  status'[u] = status[u] \/ status'[u] = "waiting"
<1> USE DEF TypeOK, JobTypeOK
<1>1. target[r] \in Urls
  BY DEF Progress, Lookup, LookupHit, LookupMiss, LookupFails, CheckQueue, Add,
         QueueFails, Poll, PollHit, PollMiss, Wake, Moves, InProgress
<1>2. CASE UNCHANGED jobVars
  BY <1>2 DEF jobVars
<1>3. CASE AddJob(target[r])
  BY <1>1, <1>3 DEF AddJob, jobVars
<1> QED
  BY <1>2, <1>3 DEF Progress, Lookup, CheckQueue, Add, QueueFails, Poll, PollHit, PollMiss, Wake

(* Slots and results that do not change keep what is said of completed jobs *)
(* as long as no job becomes completed.                                     *)
LEMMA KeptFrame ==
    ASSUME ResultKept, UNCHANGED <<stage, stamp, task, cache>>,
           \A u \in Urls : status'[u] = "completed" => status[u] = "completed"
    PROVE  ResultKept'
BY DEF ResultKept

(* No step completes a job without its result.                              *)
LEMMA KeptStep == TypeOK /\ ResultKept /\ [Next]_vars => ResultKept'
<1> SUFFICES ASSUME TypeOK, ResultKept, [Next]_vars PROVE ResultKept'
  OBVIOUS
<1> USE DEF TypeOK
<1>1. ASSUME NEW r \in Requests, NEW u \in Urls, Arrive(r, u) PROVE ResultKept'
  BY <1>1, KeptFrame DEF Arrive, slotVars, jobVars
<1>2. ASSUME NEW r \in Requests, Progress(r) PROVE ResultKept'
  BY <1>2, KeptFrame, ProgressFrame, ProgressJobs DEF slotVars
<1>3. ASSUME NEW r \in Requests, DeadlinePasses(r) PROVE ResultKept'
  BY <1>3, KeptFrame DEF DeadlinePasses, slotVars, jobVars
<1>4. ASSUME NEW w \in Workers, NEW u \in Urls, Take(w, u) PROVE ResultKept'
  BY <1>4 DEF Take, Activate, ResultKept, JobTypeOK
<1>5. ASSUME NEW w \in Workers, Store(w) PROVE ResultKept'
  <2>1. CASE "set" \in Faults
    BY <2>1 DEF ResultKept
  <2>2. CASE "set" \notin Faults
    <3>1. cache' = [cache EXCEPT ![task[w]] = stamp[w]] /\ task[w] \in Urls
      BY <1>5, <2>2 DEF Store
    <3> QED
      BY <1>5, <2>2, <3>1 DEF Store, ResultKept, jobVars
  <2> QED
    BY <2>1, <2>2
<1>6. ASSUME NEW w \in Workers, Finish(w) PROVE ResultKept'
  <2>1. \A u \in Urls : status'[u] = "completed" => u = task[w] \/ status[u] = "completed"
    BY <1>6 DEF Finish, Complete, CompletedJobs, JobTypeOK, jobVars
  <2> QED
    BY <1>6, <2>1 DEF Finish, Release, ResultKept
<1>7. ASSUME NEW w \in Workers, LoseLock(w) PROVE ResultKept'
  BY <1>7, KeptFrame DEF LoseLock, jobVars
<1>8. ASSUME NEW u \in Urls, RecoverStalled(u) \/ ForgetFailed(u) PROVE ResultKept'
  BY <1>8, KeptFrame
     DEF RecoverStalled, ForgetFailed, Recover, Forget, slotVars, JobTypeOK
<1>9. ASSUME NEW u \in Urls, Expire(u) PROVE ResultKept'
  BY <1>9 DEF Expire, ResultKept
<1>10. ASSUME NEW p \in Procs, Crash(p) PROVE ResultKept'
  BY <1>10 DEF Crash, ResultKept, jobVars
<1>11. CASE Rest \/ UNCHANGED vars
  BY <1>11, KeptFrame DEF Rest, vars, slotVars, jobVars
<1> QED
  BY <1>1, <1>2, <1>3, <1>4, <1>5, <1>6, <1>7, <1>8, <1>9, <1>10, <1>11 DEF Next

(* Slots that do not change keep their jobs as long as no job becomes       *)
(* active or failed.                                                        *)
LEMMA FailFrame ==
    ASSUME NeverFails, UNCHANGED <<held, task>>,
           \A u \in Urls :
               /\ status'[u] = "active" => status[u] = "active"
               /\ status'[u] = "failed" => status[u] = "failed"
    PROVE  NeverFails'
<1>1. \A u \in Urls : Locked(u)' = Locked(u)
  BY DEF Locked
<1> QED
  BY <1>1 DEF NeverFails

(* No step fails a job, or leaves one active without a lock.                *)
LEMMA FailStep == TypeOK /\ LockInv /\ LocksKept /\ NeverFails /\ [Next]_vars => NeverFails'
<1> SUFFICES ASSUME TypeOK, LockInv, LocksKept, NeverFails, [Next]_vars,
                    "lock" \notin Faults, "crash" \notin Faults
             PROVE  NeverFails'
  BY DEF NeverFails
<1> USE DEF TypeOK
<1>1. ASSUME NEW r \in Requests, NEW u \in Urls, Arrive(r, u) PROVE NeverFails'
  BY <1>1, FailFrame DEF Arrive, slotVars, jobVars
<1>2. ASSUME NEW r \in Requests, Progress(r) PROVE NeverFails'
  <2>1. UNCHANGED <<held, task>>
    BY <1>2, ProgressFrame DEF slotVars
  <2>2. \A u \in Urls : status'[u] = status[u] \/ status'[u] = "waiting"
    BY <1>2, ProgressJobs
  <2> QED
    BY <2>1, <2>2, FailFrame
<1>3. ASSUME NEW r \in Requests, DeadlinePasses(r) PROVE NeverFails'
  BY <1>3, FailFrame DEF DeadlinePasses, slotVars, jobVars
<1>4. ASSUME NEW w \in Workers, NEW u \in Urls, Take(w, u) PROVE NeverFails'
  <2>1. status' = [status EXCEPT ![u] = "active"] /\ status[u] = "waiting"
    BY <1>4 DEF Take, Activate
  <2>2. Locked(u)'
    BY <1>4 DEF Take, Locked
  <2>3. ASSUME NEW v \in Urls, v # u, Locked(v) PROVE Locked(v)'
    <3>1. PICK x \in Workers : held[x] /\ task[x] = v
      BY <2>3 DEF Locked
    <3>2. x # w
      BY <1>4, <3>1 DEF Take, LockInv
    <3> QED
      BY <1>4, <3>1, <3>2 DEF Take, Locked
  <2> QED
    BY <2>1, <2>2, <2>3 DEF NeverFails, JobTypeOK
<1>5. ASSUME NEW w \in Workers, Store(w) PROVE NeverFails'
  BY <1>5, FailFrame DEF Store, jobVars
<1>6. ASSUME NEW w \in Workers, Finish(w) PROVE NeverFails'
  <2>1. held[w] /\ task[w] \in Urls /\ Complete(task[w])
    BY <1>6 DEF Finish, LocksKept
  <2>2. \A v \in Urls :
            /\ status'[v] = "active" => status[v] = "active" /\ v # task[w]
            /\ status'[v] = "failed" => status[v] = "failed"
    BY <2>1 DEF Complete, CompletedJobs, JobTypeOK
  <2>3. ASSUME NEW v \in Urls, v # task[w], Locked(v) PROVE Locked(v)'
    <3>1. PICK x \in Workers : held[x] /\ task[x] = v
      BY <2>3 DEF Locked
    <3>2. held'[x] /\ task'[x] = v
      BY <1>6, <2>3, <3>1 DEF Finish, Release
    <3> QED
      BY <3>2 DEF Locked
  <2>4. \A v \in Urls : status[v] # "failed" /\ (status[v] = "active" => Locked(v))
    BY DEF NeverFails
  <2>5. \A v \in Urls : status'[v] # "failed" /\ (status'[v] = "active" => Locked(v)')
    BY <2>2, <2>3, <2>4
  <2> QED
    BY <2>5 DEF NeverFails
<1>7. ASSUME NEW w \in Workers PROVE ~LoseLock(w)
  BY DEF LoseLock
<1>8. ASSUME NEW u \in Urls PROVE ~RecoverStalled(u)
  BY DEF RecoverStalled, Recover, NeverFails
<1>9. ASSUME NEW u \in Urls, ForgetFailed(u) \/ Expire(u) PROVE NeverFails'
  BY <1>9, FailFrame DEF ForgetFailed, Forget, Expire, slotVars, jobVars, JobTypeOK
<1>10. ASSUME NEW p \in Procs PROVE ~Crash(p)
  BY DEF Crash
<1>11. CASE Rest \/ UNCHANGED vars
  BY <1>11, FailFrame DEF Rest, vars, slotVars, jobVars
<1> QED
  BY <1>1, <1>2, <1>3, <1>4, <1>5, <1>6, <1>7, <1>8, <1>9, <1>10, <1>11 DEF Next

(* A request leaves the add step for the polling loop by its own Add.       *)
LEMMA OnlyAddDispatches ==
    ASSUME TypeOK, [Next]_vars, NEW r \in Requests,
           phase[r] = "add", phase'[r] = "poll"
    PROVE  AddJob(target[r])
<1> USE DEF TypeOK
<1>1. ASSUME NEW q \in Requests, (\E u \in Urls : Arrive(q, u)) \/ DeadlinePasses(q)
      PROVE  FALSE
  BY <1>1 DEF Arrive, DeadlinePasses
<1>2. ASSUME NEW q \in Requests, Progress(q) PROVE AddJob(target[r])
  BY <1>2 DEF Progress, Lookup, LookupHit, LookupMiss, LookupFails, CheckQueue, Add,
              QueueFails, Poll, PollHit, PollMiss, Wake, Moves
<1>3. ASSUME NEW w \in Workers,
             (\E u \in Urls : Take(w, u)) \/ Store(w) \/ Finish(w) \/ LoseLock(w)
      PROVE  FALSE
  BY <1>3 DEF Take, Store, Finish, LoseLock, requestVars
<1>4. ASSUME NEW u \in Urls, RecoverStalled(u) \/ ForgetFailed(u) \/ Expire(u)
      PROVE  FALSE
  BY <1>4 DEF RecoverStalled, ForgetFailed, Expire, requestVars
<1>5. ASSUME NEW p \in Procs, Crash(p) PROVE FALSE
  BY <1>5 DEF Crash, InProgress
<1>6. ~Rest /\ ~UNCHANGED vars
  BY DEF Rest, vars, requestVars
<1> QED
  BY <1>1, <1>2, <1>3, <1>4, <1>5, <1>6 DEF Next

(* A job that is dispatched to is on its way or has left its result.        *)
LEMMA DispatchHelps ==
    ASSUME TypeOK, ServedInv, [Next]_vars,
           "set" \notin Faults, "expire" \notin Faults,
           "lock" \notin Faults, "crash" \notin Faults,
           NEW r \in Requests, phase[r] = "add", phase'[r] = "poll"
    PROVE  status'[target[r]] \in {"waiting", "active"} \/ cache[target[r]] # 0
<1>1. target[r] \in Urls
  BY DEF TypeOK, InProgress
<1>2. AddJob(target[r])
  BY OnlyAddDispatches
<1>3. status[target[r]] \in {"absent", "waiting", "active", "completed"}
  BY <1>1 DEF TypeOK, JobTypeOK, JobStates, ServedInv, NeverFails
<1>4. status[target[r]] = "completed" => cache[target[r]] # 0
  BY <1>1 DEF ServedInv, ResultKept
<1> QED
  BY <1>1, <1>2, <1>3, <1>4 DEF AddJob, TypeOK, JobTypeOK, jobVars

(* What is said of completed and active jobs holds in every reachable state.*)
LEMMA ServedIsInvariant == Spec => []ServedInv
<1>1. Init => ServedInv
  BY DEF Init, JobInit, ServedInv, ResultKept, NeverFails
<1>2. TypeOK /\ IInv /\ ServedInv /\ [Next]_vars => ServedInv'
  BY KeptStep, FailStep DEF ServedInv, IInv
<1> QED
  BY <1>1, <1>2, Typing, InductiveInvariant, PTL DEF Spec

(* A request that is told its job was dispatched is not told so in vain, as *)
(* long as results stay cached, locks are kept and no process dies: the job *)
(* will run or its result is there (queue.service.ts:65-86,                 *)
(* audit.service.ts:41-51). Failing reads and queue calls may still happen. *)
THEOREM DispatchesAreServed ==
    ASSUME "set" \notin Faults, "expire" \notin Faults,
           "lock" \notin Faults, "crash" \notin Faults
    PROVE  Spec => DispatchIsServed
<1> DEFINE Served(r) == phase[r] = "add" /\ phase'[r] = "poll" =>
                            \/ status'[target[r]] \in {"waiting", "active"}
                            \/ cache[target[r]] # 0
<1>1. TypeOK /\ ServedInv /\ [Next]_vars => [\A r \in Requests : Served(r)]_vars
  BY DispatchHelps
<1> QED
  BY <1>1, Typing, ServedIsInvariant, PTL DEF Spec, DispatchIsServed

-----------------------------------------------------------------------------
(* The jobs. *)

(* What may happen to the job store, and what it is about. *)
JobNext ==
    \E u \in Urls : AddJob(u) \/ Activate(u) \/ Complete(u) \/ Recover(u) \/ Forget(u)

(* To the job store a step of the flow is one of its own, or none. *)
LEMMA JobStoreSteps ==
    ASSUME TypeOK, [Next]_vars
    PROVE  [JobNext]_jobVars
<1> USE DEF TypeOK
<1>1. ASSUME NEW r \in Requests, NEW u \in Urls, Arrive(r, u) PROVE UNCHANGED jobVars
  BY <1>1 DEF Arrive
<1>2. ASSUME NEW r \in Requests, Progress(r) PROVE [JobNext]_jobVars
  <2>1. target[r] \in Urls
    BY <1>2 DEF Progress, Lookup, LookupHit, LookupMiss, LookupFails, CheckQueue, Add,
           QueueFails, Poll, PollHit, PollMiss, Wake, Moves, InProgress
  <2>2. UNCHANGED jobVars \/ AddJob(target[r])
    BY <1>2 DEF Progress, Lookup, CheckQueue, Add, QueueFails, Poll, PollHit, PollMiss, Wake
  <2> QED
    BY <2>1, <2>2 DEF JobNext
<1>3. ASSUME NEW r \in Requests, DeadlinePasses(r) PROVE UNCHANGED jobVars
  BY <1>3 DEF DeadlinePasses
<1>4. ASSUME NEW w \in Workers, NEW u \in Urls, Take(w, u) PROVE JobNext
  BY <1>4 DEF Take, JobNext
<1>5. ASSUME NEW w \in Workers, Store(w) \/ LoseLock(w) PROVE UNCHANGED jobVars
  BY <1>5 DEF Store, LoseLock
<1>6. ASSUME NEW w \in Workers, Finish(w) PROVE [JobNext]_jobVars
  <2>1. task[w] \in Urls
    BY <1>6 DEF Finish
  <2> QED
    BY <1>6, <2>1 DEF Finish, JobNext
<1>7. ASSUME NEW u \in Urls, RecoverStalled(u) \/ ForgetFailed(u) PROVE JobNext
  BY <1>7 DEF RecoverStalled, ForgetFailed, JobNext
<1>8. ASSUME NEW u \in Urls, Expire(u) PROVE UNCHANGED jobVars
  BY <1>8 DEF Expire
<1>9. ASSUME NEW p \in Procs, Crash(p) PROVE UNCHANGED jobVars
  BY <1>9 DEF Crash
<1>10. CASE Rest \/ UNCHANGED vars
  BY <1>10 DEF Rest, vars, jobVars
<1> QED
  BY <1>1, <1>2, <1>3, <1>4, <1>5, <1>6, <1>7, <1>8, <1>9, <1>10 DEF Next

Unsettled(u) == status[u] \in {"waiting", "active"}

(* What a job that is not settled has still before it: the stalls it may    *)
(* have, and its way through a slot.                                        *)
JobLeft(u) == 2 * (MaxStalled - stalls[u]) + (IF status[u] = "waiting" THEN 1 ELSE 0)

(* Every move of a job brings it nearer to its end, whatever slots lose     *)
(* locks, die and start again: however it is handed back, it is completed   *)
(* or failed after 2 * MaxStalled + 2 moves (audit.processor.ts:49-61,      *)
(* queue.service.ts:42-50). That is the variant behind EveryJobSettles; the *)
(* rest of it is fairness.                                                  *)
THEOREM JobsAdvance ==
    Spec => /\ [](\A u \in Urls : JobLeft(u) \in Nat)
            /\ [][\A u \in Urls :
                      Unsettled(u) /\ Unsettled(u)' /\ status'[u] # status[u]
                          => JobLeft(u)' < JobLeft(u)]_vars
<1> USE JobStoreAssumption DEF TypeOK, JobTypeOK
<1>1. TypeOK => \A u \in Urls : JobLeft(u) \in Nat
  BY SMT DEF JobLeft
<1>2. TypeOK /\ [Next]_vars =>
          [\A u \in Urls : Unsettled(u) /\ Unsettled(u)' /\ status'[u] # status[u]
                              => JobLeft(u)' < JobLeft(u)]_vars
  <2> SUFFICES ASSUME JobTypeOK, [JobNext]_jobVars, NEW u \in Urls,
                      Unsettled(u), Unsettled(u)', status'[u] # status[u]
               PROVE  JobLeft(u)' < JobLeft(u)
    BY JobStoreSteps
  <2>1. PICK t \in Urls : AddJob(t) \/ Activate(t) \/ Complete(t) \/ Recover(t) \/ Forget(t)
    BY DEF JobNext, jobVars
  <2>2. CASE AddJob(t)
    BY <2>2 DEF AddJob, jobVars, Unsettled
  <2>3. CASE Complete(t)
    BY <2>3 DEF Complete, CompletedJobs, Unsettled
  <2>4. CASE Forget(t)
    BY <2>4 DEF Forget, Unsettled
  <2>5. CASE Activate(t)
    <3>1. u = t
      BY <2>5 DEF Activate
    <3>2. status[u] = "waiting" /\ status'[u] = "active" /\ stalls' = stalls
      BY <2>5, <3>1 DEF Activate
    <3> QED
      BY <3>2, SMT DEF JobLeft
  <2>6. CASE Recover(t)
    <3>1. u = t
      BY <2>6 DEF Recover
    <3>2. /\ status[u] = "active" /\ status'[u] = "waiting"
          /\ stalls'[u] = stalls[u] + 1
      BY <2>6, <3>1 DEF Recover, Unsettled
    <3> QED
      BY <3>2, SMT DEF JobLeft
  <2> QED
    BY <2>1, <2>2, <2>3, <2>4, <2>5, <2>6
<1> QED
  BY <1>1, <1>2, Typing, PTL DEF Spec

-----------------------------------------------------------------------------
(* What is waited for. *)

(* A job that is not settled stays so or is completed or failed. *)
LEMMA JobsSettle ==
    ASSUME JobTypeOK, [JobNext]_jobVars, NEW u \in Urls, Unsettled(u)
    PROVE  Unsettled(u)' \/ status'[u] \in {"completed", "failed"}
<1> USE DEF JobTypeOK, Unsettled
<1>1. CASE UNCHANGED jobVars
  BY <1>1 DEF jobVars
<1>2. ASSUME NEW t \in Urls, AddJob(t) \/ Activate(t) \/ Recover(t) \/ Forget(t)
      PROVE  Unsettled(u)' \/ status'[u] \in {"completed", "failed"}
  BY <1>2 DEF AddJob, Activate, Recover, Forget, jobVars
<1>3. ASSUME NEW t \in Urls, Complete(t)
      PROVE  Unsettled(u)' \/ status'[u] \in {"completed", "failed"}
  BY <1>3 DEF Complete, CompletedJobs
<1> QED
  BY <1>1, <1>2, <1>3 DEF JobNext

(* As long as results are written and kept, one that is there stays there,  *)
(* if only as a newer one.                                                  *)
LEMMA ResultsStay ==
    ASSUME TypeOK, ResultKept, [Next]_vars, "set" \notin Faults, "expire" \notin Faults,
           NEW u \in Urls, cache[u] # 0
    PROVE  cache'[u] # 0
<1> USE DEF TypeOK
<1>1. ASSUME NEW w \in Workers, Store(w) PROVE cache'[u] # 0
  BY <1>1 DEF Store, ResultKept
<1>2. ASSUME NEW r \in Requests,
             Progress(r) \/ DeadlinePasses(r) \/ \E v \in Urls : Arrive(r, v)
      PROVE  UNCHANGED cache
  BY <1>2, ProgressFrame DEF DeadlinePasses, Arrive
<1>3. ASSUME NEW w \in Workers, (\E v \in Urls : Take(w, v)) \/ Finish(w) \/ LoseLock(w)
      PROVE  UNCHANGED cache
  BY <1>3 DEF Take, Finish, LoseLock
<1>4. ASSUME NEW v \in Urls, RecoverStalled(v) \/ ForgetFailed(v) \/ Expire(v)
      PROVE  UNCHANGED cache
  BY <1>4 DEF RecoverStalled, ForgetFailed, Expire
<1>5. ASSUME NEW p \in Procs, Crash(p) PROVE UNCHANGED cache
  BY <1>5 DEF Crash
<1>6. Rest \/ UNCHANGED vars => UNCHANGED cache
  BY DEF Rest, vars
<1> QED
  BY <1>1, <1>2, <1>3, <1>4, <1>5, <1>6 DEF Next

(* A request waits for the URL it has waited for before, or has just        *)
(* dispatched it.                                                           *)
LEMMA WaitersStay ==
    ASSUME TypeOK, [Next]_vars, NEW r \in Requests, phase'[r] \in {"poll", "sleep"}
    PROVE  /\ target'[r] = target[r] /\ target[r] \in Urls
           /\ \/ phase[r] \in {"poll", "sleep"}
              \/ phase[r] = "add" /\ phase'[r] = "poll"
<1> USE DEF TypeOK, InProgress
<1>1. ASSUME NEW q \in Requests, NEW u \in Urls, Arrive(q, u)
      PROVE  q # r /\ phase'[r] = phase[r] /\ target'[r] = target[r]
  BY <1>1 DEF Arrive
<1>2. ASSUME NEW q \in Requests, Progress(q)
      PROVE  /\ target' = target
             /\ \/ phase'[r] = phase[r]
                \/ phase[r] = "poll" /\ phase'[r] = "sleep"
                \/ phase[r] = "sleep" /\ phase'[r] = "poll"
                \/ phase[r] = "add" /\ phase'[r] = "poll"
  BY <1>2 DEF Progress, Lookup, LookupHit, LookupMiss, LookupFails, CheckQueue, Add,
              QueueFails, Poll, PollHit, PollMiss, Wake, Moves
<1>3. ASSUME NEW q \in Requests, DeadlinePasses(q) PROVE UNCHANGED <<phase, target>>
  BY <1>3 DEF DeadlinePasses
<1>4. ASSUME NEW w \in Workers,
             (\E u \in Urls : Take(w, u)) \/ Store(w) \/ Finish(w) \/ LoseLock(w)
      PROVE  UNCHANGED <<phase, target>>
  BY <1>4 DEF Take, Store, Finish, LoseLock, requestVars
<1>5. ASSUME NEW u \in Urls, RecoverStalled(u) \/ ForgetFailed(u) \/ Expire(u)
      PROVE  UNCHANGED <<phase, target>>
  BY <1>5 DEF RecoverStalled, ForgetFailed, Expire, requestVars
<1>6. ASSUME NEW p \in Procs, Crash(p)
      PROVE  target' = target /\ (phase'[r] = phase[r] \/ phase'[r] = "lost")
  BY <1>6 DEF Crash
<1>7. Rest \/ UNCHANGED vars => UNCHANGED <<phase, target>>
  BY DEF Rest, vars, requestVars
<1> QED
  BY <1>1, <1>2, <1>3, <1>4, <1>5, <1>6, <1>7 DEF Next

(* A request that polls has something to wait for at every moment, under    *)
(* the same conditions: no job it waits for ends without its result, no     *)
(* result goes, however jobs are pushed out of the queue in the meantime    *)
(* (audit.service.ts:67-85, audit.processor.ts:149-158,                     *)
(* queue.service.ts:42-45).                                                 *)
THEOREM WaitersAreServed ==
    ASSUME "set" \notin Faults, "expire" \notin Faults,
           "lock" \notin Faults, "crash" \notin Faults
    PROVE  Spec => []NobodyWaitsInVain
<1>1. Init => NobodyWaitsInVain
  BY DEF Init, NobodyWaitsInVain
<1>2. TypeOK /\ ServedInv /\ ServedInv' /\ NobodyWaitsInVain /\ [Next]_vars
          => NobodyWaitsInVain'
  <2> SUFFICES ASSUME TypeOK, ServedInv, ServedInv', NobodyWaitsInVain, [Next]_vars,
                      NEW r \in Requests, phase'[r] \in {"poll", "sleep"}
               PROVE  status'[target'[r]] \in {"waiting", "active"} \/ cache'[target'[r]] # 0
    BY DEF NobodyWaitsInVain
  <2> DEFINE u == target[r]
  <2>1. /\ target'[r] = u /\ u \in Urls
        /\ phase[r] \in {"poll", "sleep"} \/ (phase[r] = "add" /\ phase'[r] = "poll")
    BY WaitersStay
  <2>2. CASE cache[u] # 0
    BY <2>1, <2>2, ResultsStay DEF ServedInv
  <2>3. CASE phase[r] = "add" /\ phase'[r] = "poll" /\ cache[u] = 0
    BY <2>1, <2>3, DispatchHelps
  <2>4. CASE Unsettled(u)
    <3>1. Unsettled(u)' \/ status'[u] \in {"completed", "failed"}
      BY <2>1, <2>4, JobStoreSteps, JobsSettle DEF TypeOK
    <3>2. status'[u] # "failed" /\ (status'[u] = "completed" => cache'[u] # 0)
      BY <2>1 DEF ServedInv, ResultKept, NeverFails
    <3> QED
      BY <2>1, <3>1, <3>2 DEF Unsettled
  <2> QED
    BY <2>1, <2>2, <2>3, <2>4 DEF NobodyWaitsInVain, Unsettled
<1> QED
  BY <1>1, <1>2, Typing, ServedIsInvariant, PTL DEF Spec
=============================================================================
