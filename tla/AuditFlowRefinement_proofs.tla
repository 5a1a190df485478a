---------------------- MODULE AuditFlowRefinement_proofs ----------------------
(***************************************************************************)
(* The audit flow implements its contract, for any number of requests,     *)
(* slots, processes and URLs, whatever fails, as long as no slot loses its *)
(* lock: every step is a step of the contract or leaves it as it is.       *)
(***************************************************************************)
EXTENDS AuditFlowRefinement, AuditFlow_proofs

(* What the contract sees. *)
Flight == [u \in Urls |-> FlightOf(u)]
Shelf == [u \in Urls |-> cache[u] # 0]
Client == [r \in Requests |-> ClientOf(r)]

(* What FlightOf makes of a job's state and of its lock. *)
LEMMA FlightCases ==
    ASSUME NEW u \in Urls, JobTypeOK
    PROVE  /\ FlightOf(u) = "none" <=> status[u] \in {"absent", "completed", "failed"}
           /\ FlightOf(u) = "airborne" <=> status[u] = "active" /\ Locked(u)
           /\ FlightOf(u) = "queued" <=>
                 status[u] = "waiting" \/ (status[u] = "active" /\ ~Locked(u))
<1>1. status[u] \in JobStates
  BY DEF JobTypeOK
<1> QED
  BY <1>1 DEF FlightOf, JobStates

(* What ClientOf makes of a request's phase. *)
LEMMA ClientCases ==
    ASSUME NEW r \in Requests, phase[r] \in Phases
    PROVE  /\ phase[r] = "idle" => ClientOf(r) = "out"
           /\ phase[r] \in {"lookup", "check", "add"} => ClientOf(r) = "asking"
           /\ phase[r] \in {"poll", "sleep"} => ClientOf(r) = "waiting"
           /\ phase[r] = "cached" => ClientOf(r) = "cached"
           /\ phase[r] = "live" => ClientOf(r) = "live"
           /\ phase[r] \in {"queueFull", "timeout", "error", "lost"} => ClientOf(r) = "declined"
           /\ ClientOf(r) \in {"asking", "waiting"} <=> phase[r] \in InProgress
BY DEF ClientOf, Phases, InProgress, Answers

(* The same of the phase after a step. *)
LEMMA ClientCasesNext ==
    ASSUME NEW r \in Requests
    PROVE  /\ phase'[r] \in {"lookup", "check", "add"} => ClientOf(r)' = "asking"
           /\ phase'[r] \in {"poll", "sleep"} => ClientOf(r)' = "waiting"
           /\ phase'[r] = "cached" => ClientOf(r)' = "cached"
           /\ phase'[r] = "live" => ClientOf(r)' = "live"
           /\ phase'[r] \in {"queueFull", "timeout", "error", "lost"} => ClientOf(r)' = "declined"
BY DEF ClientOf

(* A slot at work has the number of a run. *)
StampInv == \A w \in Workers : stage[w] # "free" => stamp[w] # 0

(* A slot gets a number when it takes a job and keeps it while at work. *)
LEMMA StampStep == TypeOK /\ StampInv /\ [Next]_vars => StampInv'
<1> SUFFICES ASSUME TypeOK, StampInv, [Next]_vars PROVE StampInv'
  OBVIOUS
<1> USE DEF TypeOK, StampInv
<1>1. ASSUME UNCHANGED slotVars PROVE StampInv'
  BY <1>1 DEF slotVars
<1>2. ASSUME NEW r \in Requests,
             (\E u \in Urls : Arrive(r, u)) \/ Progress(r) \/ DeadlinePasses(r)
      PROVE  UNCHANGED slotVars
  BY <1>2, ProgressFrame DEF Arrive, DeadlinePasses
<1>3. ASSUME NEW w \in Workers, NEW u \in Urls, Take(w, u) PROVE StampInv'
  <2>1. takes[u] + 1 # 0
    OBVIOUS
  <2> QED
    BY <1>3, <2>1 DEF Take
<1>4. ASSUME NEW w \in Workers, Store(w) \/ LoseLock(w) PROVE StampInv'
  BY <1>4 DEF Store, LoseLock
<1>5. ASSUME NEW w \in Workers, Finish(w) PROVE StampInv'
  BY <1>5 DEF Finish, Release
<1>6. ASSUME NEW u \in Urls, RecoverStalled(u) \/ ForgetFailed(u) \/ Expire(u)
      PROVE  UNCHANGED slotVars
  BY <1>6 DEF RecoverStalled, ForgetFailed, Expire
<1>7. ASSUME NEW p \in Procs, Crash(p) PROVE StampInv'
  BY <1>7 DEF Crash
<1>8. Rest \/ UNCHANGED vars => UNCHANGED slotVars
  BY DEF Rest, vars
<1> QED
  BY <1>1, <1>2, <1>3, <1>4, <1>5, <1>6, <1>7, <1>8 DEF Next

-----------------------------------------------------------------------------
(* What the contract sees does not change with what it does not see. *)
LEMMA FlightFrame == UNCHANGED <<status, task, held>> => Flight' = Flight
BY DEF Flight, FlightOf, Locked

(* The shelf is the cache. *)
LEMMA ShelfFrame == UNCHANGED cache => Shelf' = Shelf
BY DEF Shelf

(* The clients are the phases. *)
LEMMA ClientFrame == UNCHANGED phase => Client' = Client
BY DEF Client, ClientOf

(* A request's move is its client's. *)
LEMMA ClientMoves ==
    ASSUME TypeOK, TypeOK', NEW r \in Requests, NEW from, NEW to, Moves(r, from, to)
    PROVE  /\ Client[r] = ClientOf(r)
           /\ Client' = [Client EXCEPT ![r] = ClientOf(r)']
BY DEF Client, ClientOf, Moves, TypeOK

-----------------------------------------------------------------------------
(* Steps of the contract, as the flow takes them. *)

Stutter == UNCHANGED <<Flight, Shelf, Client, target>>

(* Adding a job launches its audit, or finds one pending. *)
LEMMA AddLaunches ==
    ASSUME JobTypeOK, NEW u \in Urls, AddJob(u), UNCHANGED <<task, held>>
    PROVE  \/ Flight[u] = "none" /\ Flight' = [Flight EXCEPT ![u] = "queued"]
           \/ Flight' = Flight
<1>1. CASE status[u] # "absent"
  BY <1>1, FlightFrame DEF AddJob, jobVars
<1>2. CASE status[u] = "absent"
  <2>1. status' = [status EXCEPT ![u] = "waiting"]
    BY <1>2 DEF AddJob
  <2>2. FlightOf(u) = "none" /\ FlightOf(u)' = "queued"
    BY <1>2, <2>1 DEF FlightOf, JobTypeOK
  <2>3. ASSUME NEW v \in Urls, v # u PROVE FlightOf(v)' = FlightOf(v)
    BY <2>1, <2>3 DEF FlightOf, Locked, JobTypeOK
  <2> QED
    BY <2>2, <2>3 DEF Flight
<1> QED
  BY <1>1, <1>2

(* A step of a request (audit.service.ts:25-86, queue.service.ts:65-83) is  *)
(* one of the contract (Ask, AnswerCached, Join, AnswerLive or Decline) or  *)
(* is not seen in it.                                                       *)
LEMMA RequestSteps ==
    ASSUME TypeOK, TypeOK', NEW r \in Requests,
           (\E u \in Urls : Arrive(r, u)) \/ Progress(r) \/ DeadlinePasses(r)
    PROVE  Stutter \/ Contract!Next
<1> USE DEF Contract!Next, Contract!Becomes, Contract!Busy, Contract!Launch
<1> DEFINE Becomes(answer) == Client' = [Client EXCEPT ![r] = answer]
<1>1. /\ Client[r] = ClientOf(r) /\ phase[r] \in Phases /\ phase'[r] \in Phases
      /\ \A from, to : Moves(r, from, to) =>
            phase[r] = from /\ phase'[r] = to /\ Becomes(ClientOf(r)')
  BY ClientMoves DEF TypeOK, Client, Moves
<1>2. phase[r] \in InProgress => target[r] \in Urls
  BY DEF TypeOK
<1>3. ASSUME NEW u \in Urls, Arrive(r, u)
      PROVE  Contract!Ask(r, u)
  <2>1. Client[r] \notin {"asking", "waiting"}
    BY <1>1, <1>3, ClientCases, ClientCasesNext DEF Arrive
  <2>2. Becomes("asking")
    BY <1>3 DEF Arrive, Client, ClientOf, TypeOK
  <2> QED
    BY <1>3, <2>1, <2>2, FlightFrame, ShelfFrame
       DEF Contract!Ask, Arrive, jobVars, slotVars, Flight, Shelf, Client
<1>4. ASSUME NEW from, NEW to, Moves(r, from, to), UNCHANGED <<cache, target, status, task, held>>,
             from \in {"lookup", "check", "add"}, to \in {"lookup", "check", "add"}
      PROVE  Stutter
  BY <1>1, <1>4, ClientCases, ClientCasesNext, FlightFrame, ShelfFrame DEF Stutter, Client, TypeOK
<1>5. ASSUME NEW from, NEW to, Moves(r, from, to), UNCHANGED <<cache, target, status, task, held>>,
             from \in {"poll", "sleep"}, to \in {"poll", "sleep"}
      PROVE  Stutter
  BY <1>1, <1>5, ClientCases, ClientCasesNext, FlightFrame, ShelfFrame DEF Stutter, Client, TypeOK
<1>6. ASSUME NEW from \in InProgress, NEW to \in {"queueFull", "timeout", "error"},
             Moves(r, from, to), UNCHANGED <<cache, target, status, task, held>>
      PROVE  Contract!Decline(r)
  <2>1. Client[r] \in {"asking", "waiting"} /\ Becomes("declined")
    BY <1>1, <1>6, ClientCases, ClientCasesNext
  <2> QED
    BY <1>6, <2>1, FlightFrame, ShelfFrame DEF Contract!Decline, Flight, Shelf, Client
<1>7. CASE Lookup(r)
  <2>1. ASSUME Moves(r, "lookup", "cached"), cache[target[r]] # 0
        PROVE  Contract!AnswerCached(r)
    <3>1. Client[r] = "asking" /\ Becomes("cached") /\ target[r] \in Urls
      BY <1>1, <1>2, <2>1, ClientCases, ClientCasesNext DEF InProgress
    <3> QED
      BY <1>7, <2>1, <3>1, FlightFrame, ShelfFrame
         DEF Lookup, Contract!AnswerCached, jobVars, slotVars, Flight, Shelf, Client
  <2> QED
    BY <1>4, <1>7, <2>1
       DEF Lookup, LookupHit, LookupMiss, LookupFails, jobVars, slotVars
<1>8. CASE CheckQueue(r)
  BY <1>4, <1>6, <1>8 DEF CheckQueue, jobVars, slotVars, InProgress
<1>9. CASE Add(r)
  <2>1. Client[r] = "asking" /\ Becomes("waiting") /\ target[r] \in Urls
    BY <1>1, <1>2, <1>9, ClientCases, ClientCasesNext DEF Add, InProgress
  <2>2. \/ Flight[target[r]] = "none" /\ Flight' = [Flight EXCEPT ![target[r]] = "queued"]
        \/ Flight' = Flight
    BY <1>9, <2>1, AddLaunches DEF Add, TypeOK, slotVars
  <2> QED
    BY <1>9, <2>1, <2>2, ShelfFrame DEF Add, Contract!Join, slotVars, Flight, Shelf, Client
<1>10. CASE QueueFails(r)
  <2>1. CASE UNCHANGED jobVars
    BY <1>6, <1>10, <2>1 DEF QueueFails, jobVars, slotVars, InProgress
  <2>2. CASE Moves(r, "add", "error") /\ AddJob(target[r])
    <3>1. Client[r] = "asking" /\ Becomes("declined") /\ target[r] \in Urls
      BY <1>1, <1>2, <2>2, ClientCases, ClientCasesNext DEF InProgress
    <3>2. \/ Flight[target[r]] = "none" /\ Flight' = [Flight EXCEPT ![target[r]] = "queued"]
          \/ Flight' = Flight
      BY <1>10, <2>2, <3>1, AddLaunches DEF QueueFails, TypeOK, slotVars
    <3> QED
      BY <1>10, <3>1, <3>2, ShelfFrame
         DEF QueueFails, Contract!Decline, slotVars, Flight, Shelf, Client
  <2> QED
    BY <1>10, <2>1, <2>2 DEF QueueFails
<1>11. CASE Poll(r)
  <2>1. ASSUME Moves(r, "poll", "live"), cache[target[r]] # 0, PollHit(r)
        PROVE  Contract!AnswerLive(r)
    <3>1. Client[r] = "waiting" /\ Becomes("live") /\ target[r] \in Urls
      BY <1>1, <1>2, <2>1, ClientCases, ClientCasesNext DEF InProgress
    <3> QED
      BY <2>1, <3>1, FlightFrame, ShelfFrame
         DEF PollHit, Contract!AnswerLive, jobVars, slotVars, Flight, Shelf, Client
  <2> QED
    BY <1>5, <1>11, <2>1 DEF Poll, PollHit, PollMiss, jobVars, slotVars
<1>12. CASE Wake(r)
  BY <1>5, <1>6, <1>12 DEF Wake, jobVars, slotVars, InProgress
<1>13. CASE DeadlinePasses(r)
  BY <1>13, FlightFrame, ShelfFrame, ClientFrame
     DEF DeadlinePasses, Stutter, jobVars, slotVars
<1> QED
  BY <1>3, <1>7, <1>8, <1>9, <1>10, <1>11, <1>12, <1>13 DEF Progress

-----------------------------------------------------------------------------
(* A step of a slot (audit.processor.ts:80-167) is Depart, Publish or Land, *)
(* or is not seen in the contract.                                          *)
LEMMA SlotStepsMap ==
    ASSUME TypeOK, TypeOK', LockInv, LocksKept, StampInv, "lock" \notin Faults,
           NEW w \in Workers, (\E u \in Urls : Take(w, u)) \/ Store(w) \/ Finish(w) \/ LoseLock(w)
    PROVE  Stutter \/ Contract!Next
<1> USE DEF Contract!Next, TypeOK
<1>1. ASSUME NEW u \in Urls, Take(w, u)
      PROVE  Contract!Depart(u)
  <2>1. FlightOf(u) = "queued" /\ FlightOf(u)' = "airborne"
    BY <1>1 DEF Take, Activate, FlightOf, Locked, JobTypeOK
  <2>2. ASSUME NEW v \in Urls, v # u PROVE FlightOf(v)' = FlightOf(v)
    <3>1. status'[v] = status[v] /\ ~held[w]
      BY <1>1, <2>2 DEF Take, Activate, JobTypeOK, LockInv
    <3>2. Locked(v)' <=> Locked(v)
      BY <1>1, <2>2, <3>1 DEF Take, Locked
    <3> QED
      BY <3>1, <3>2 DEF FlightOf
  <2>3. Flight[u] = "queued" /\ Flight' = [Flight EXCEPT ![u] = "airborne"]
    BY <2>1, <2>2 DEF Flight
  <2> QED
    BY <1>1, <2>3, ShelfFrame, ClientFrame
       DEF Take, requestVars, Contract!Depart, Flight, Shelf, Client
<1>2. CASE Store(w)
  <2>1. CASE UNCHANGED cache
    BY <1>2, <2>1, FlightFrame, ShelfFrame, ClientFrame
       DEF Store, Stutter, requestVars, jobVars
  <2>2. CASE cache' = [cache EXCEPT ![task[w]] = stamp[w]]
    <3>1. PICK u \in Urls : u = task[w]
      BY <1>2 DEF Store
    <3>2. held[w] /\ status[u] = "active" /\ stamp[w] # 0
      BY <1>2, <3>1 DEF Store, LocksKept, LockInv, StampInv
    <3>3. Flight[u] = "airborne"
      BY <3>1, <3>2, FlightCases DEF Flight, Locked
    <3>4. Shelf' = [Shelf EXCEPT ![u] = TRUE]
      BY <2>2, <3>1, <3>2 DEF Shelf
    <3>5. Contract!Publish(u)
      BY <1>2, <3>3, <3>4, FlightFrame, ClientFrame
         DEF Store, requestVars, jobVars, Contract!Publish, Flight, Shelf, Client
    <3> QED
      BY <3>5, Zenon
  <2> QED
    BY <1>2, <2>1, <2>2 DEF Store
<1>3. CASE Finish(w)
  <2>1. PICK u \in Urls : u = task[w]
    BY <1>3 DEF Finish
  <2>2. held[w] /\ status[u] = "active" /\ Complete(u)
    BY <1>3, <2>1 DEF Finish, LocksKept, LockInv
  <2>3. FlightOf(u) = "airborne"
    BY <2>1, <2>2, FlightCases DEF Locked
  <2>4. FlightOf(u)' = "none"
    <3>1. status'[u] = "completed"
      BY <2>2 DEF Complete, CompletedJobs, JobTypeOK
    <3> QED
      BY <3>1 DEF FlightOf
  <2>5. ASSUME NEW v \in Urls, v # u PROVE FlightOf(v)' = FlightOf(v)
    <3>1. Locked(v)' <=> Locked(v)
      BY <1>3, <2>1, <2>5 DEF Finish, Release, Locked
    <3>2. \/ status'[v] = status[v]
          \/ status[v] = "completed" /\ status'[v] = "absent"
      BY <2>2, <2>5 DEF Complete, CompletedJobs, JobTypeOK
    <3> QED
      BY <3>1, <3>2 DEF FlightOf
  <2>6. Flight[u] # "none" /\ Flight' = [Flight EXCEPT ![u] = "none"]
    BY <2>3, <2>4, <2>5 DEF Flight
  <2>7. Contract!Land(u)
    BY <1>3, <2>6, ShelfFrame, ClientFrame
       DEF Finish, requestVars, Contract!Land, Flight, Shelf, Client
  <2> QED
    BY <2>7, Zenon
<1>4. ~LoseLock(w)
  BY DEF LoseLock
<1> QED
  BY <1>1, <1>2, <1>3, <1>4

-----------------------------------------------------------------------------
(* A stalled job that comes back, a job that is forgotten and a result that *)
(* expires are steps of the contract, or are not seen.                      *)
LEMMA JobSteps ==
    ASSUME TypeOK, TypeOK', NEW u \in Urls, RecoverStalled(u) \/ ForgetFailed(u) \/ Expire(u)
    PROVE  Stutter \/ Contract!Next
<1> USE DEF Contract!Next, TypeOK
<1>1. ASSUME NEW v \in Urls, v # u, RecoverStalled(u) \/ ForgetFailed(u)
      PROVE  FlightOf(v)' = FlightOf(v)
  <2>1. status'[v] = status[v] /\ UNCHANGED <<task, held>>
    BY <1>1 DEF RecoverStalled, Recover, ForgetFailed, Forget, JobTypeOK, slotVars
  <2> QED
    BY <2>1 DEF FlightOf, Locked
<1>2. CASE RecoverStalled(u)
  <2>1. FlightOf(u) = "queued"
    BY <1>2, FlightCases DEF RecoverStalled, Recover
  <2>2. /\ UNCHANGED <<cache, phase, target>>
        /\ status'[u] = "failed" \/ (status'[u] = "waiting")
    BY <1>2 DEF RecoverStalled, Recover, JobTypeOK, requestVars
  <2>3. CASE status'[u] = "waiting"
    <3>1. FlightOf(u)' = "queued"
      BY <2>3 DEF FlightOf
    <3>2. Flight' = Flight
      BY <1>1, <1>2, <2>1, <3>1 DEF Flight
    <3> QED
      BY <2>2, <3>2, ShelfFrame, ClientFrame DEF Stutter
  <2>4. CASE status'[u] = "failed"
    <3>1. FlightOf(u)' = "none"
      BY <2>4 DEF FlightOf
    <3>2. Flight[u] # "none" /\ Flight' = [Flight EXCEPT ![u] = "none"]
      BY <1>1, <1>2, <2>1, <3>1 DEF Flight
    <3>3. Contract!Land(u)
      BY <2>2, <3>2, ShelfFrame, ClientFrame DEF Contract!Land, Flight, Shelf, Client
    <3> QED
      BY <3>3, Zenon
  <2> QED
    BY <2>2, <2>3, <2>4
<1>3. CASE ForgetFailed(u)
  <2>1. FlightOf(u) = "none" /\ FlightOf(u)' = "none"
    BY <1>3 DEF ForgetFailed, Forget, FlightOf, JobTypeOK
  <2>2. Flight' = Flight
    BY <1>1, <1>3, <2>1 DEF Flight
  <2> QED
    BY <1>3, <2>2, ShelfFrame, ClientFrame DEF ForgetFailed, Stutter, requestVars
<1>4. CASE Expire(u)
  <2>1. Shelf[u] /\ Shelf' = [Shelf EXCEPT ![u] = FALSE]
    BY <1>4 DEF Expire, Shelf
  <2>2. Contract!Perish(u)
    BY <1>4, <2>1, FlightFrame, ClientFrame
       DEF Expire, requestVars, slotVars, jobVars, Contract!Perish, Flight, Shelf, Client
  <2> QED
    BY <2>2, Zenon
<1> QED
  BY <1>2, <1>3, <1>4

(* The crash of a process is an Outage: its requests are declined and its   *)
(* audits are queued again.                                                 *)
LEMMA CrashStep ==
    ASSUME TypeOK, NEW p \in Procs, Crash(p)
    PROVE  Contract!Outage
<1> USE DEF TypeOK
<1> DEFINE lost == {r \in Requests : Home[r] = p /\ phase[r] \in InProgress}
           grounded == {u \in Urls : FlightOf(u) = "airborne" /\ FlightOf(u)' # "airborne"}
<1>1. /\ lost \in SUBSET {r \in Requests : Client[r] \in {"asking", "waiting"}}
      /\ Client' = [r \in Requests |-> IF r \in lost THEN "declined" ELSE Client[r]]
  <2>1. ASSUME NEW r \in Requests
        PROVE  /\ r \in lost => Client[r] \in {"asking", "waiting"} /\ Client'[r] = "declined"
               /\ r \notin lost => Client'[r] = Client[r]
    BY ClientCases, ClientCasesNext DEF Crash, Client, ClientOf
  <2> QED
    BY <2>1 DEF Client
<1>2. ASSUME NEW u \in Urls
      PROVE  FlightOf(u)' = IF u \in grounded THEN "queued" ELSE FlightOf(u)
  <2>1. status'[u] = status[u] /\ (Locked(u)' => Locked(u))
    BY DEF Crash, Locked, jobVars
  <2> QED
    BY <2>1, FlightCases DEF FlightOf
<1>3. /\ grounded \in SUBSET {u \in Urls : Flight[u] = "airborne"}
      /\ Flight' = [u \in Urls |-> IF u \in grounded THEN "queued" ELSE Flight[u]]
  BY <1>2 DEF Flight
<1> HIDE DEF lost, grounded
<1> QED
  BY <1>1, <1>3, ShelfFrame
     DEF Crash, Contract!Outage, Contract!Busy, Flight, Shelf, Client

(* The audit flow (audit.service.ts:25-86, queue.service.ts:65-83,          *)
(* audit.processor.ts:80-167) implements the contract, if no slot loses its *)
(* lock.                                                                    *)
THEOREM FlowImplementsContract ==
    ASSUME "lock" \notin Faults PROVE Spec => ImplementsContract
<1>1. Init => Contract!Init
  BY DEF Init, JobInit, FlightOf, ClientOf, Contract!Init
<1>2. TypeOK /\ TypeOK' /\ IInv /\ StampInv /\ [Next]_vars => [Contract!Next]_Contract!vars
  <2> SUFFICES ASSUME TypeOK, TypeOK', IInv, StampInv, [Next]_vars
               PROVE  Stutter \/ Contract!Next
    BY DEF Stutter, Flight, Shelf, Client, Contract!vars
  <2>1. ASSUME NEW r \in Requests,
               (\E u \in Urls : Arrive(r, u)) \/ Progress(r) \/ DeadlinePasses(r)
        PROVE  Stutter \/ Contract!Next
    BY <2>1, RequestSteps
  <2>2. ASSUME NEW w \in Workers,
               (\E u \in Urls : Take(w, u)) \/ Store(w) \/ Finish(w) \/ LoseLock(w)
        PROVE  Stutter \/ Contract!Next
    BY <2>2, SlotStepsMap DEF IInv
  <2>3. ASSUME NEW u \in Urls, RecoverStalled(u) \/ ForgetFailed(u) \/ Expire(u)
        PROVE  Stutter \/ Contract!Next
    BY <2>3, JobSteps
  <2>4. ASSUME NEW p \in Procs, Crash(p)
        PROVE  Contract!Next
    BY <2>4, CrashStep DEF Contract!Next
  <2>5. CASE Rest \/ UNCHANGED vars
    BY <2>5, FlightFrame, ShelfFrame, ClientFrame
       DEF Rest, vars, requestVars, slotVars, jobVars, Stutter
  <2> QED
    BY <2>1, <2>2, <2>3, <2>4, <2>5 DEF Next
<1>3. Spec => []StampInv
  <2>1. Init => StampInv
    BY DEF Init, StampInv
  <2> QED
    BY <2>1, StampStep, Typing, PTL DEF Spec
<1> QED
  BY <1>1, <1>2, <1>3, Typing, InductiveInvariant, PTL
     DEF Spec, ImplementsContract, Contract!Spec
=============================================================================
