------------------------------- MODULE JobStore -------------------------------
(***************************************************************************)
(* The job queue AuditFlow runs on: BullMQ's state in Redis, modelled from *)
(* the way queue.service.ts and audit.processor.ts configure and call it   *)
(* (external code: none of it is in this repository).                      *)
(*                                                                         *)
(* queue.service.ts gives a job the id audit_<base64url(url)>, so there is *)
(* at most one job per URL and a job is named by its URL here.             *)
(***************************************************************************)
EXTENDS Naturals, FiniteSets

CONSTANTS
    Urls,           \* the URLs clients ask about
    KeepCompleted,  \* removeOnComplete.count: completed jobs kept by id
    MaxStalled      \* how often a job may stall before it is failed

ASSUME JobStoreAssumption ==
    /\ KeepCompleted \in Nat \ {0}
    /\ MaxStalled \in Nat

VARIABLES
    status,  \* status[u]: where the job of u is
    stalls   \* stalls[u]: how often the job of u was recovered after a stall

jobVars == <<status, stalls>>

JobStates == {"absent", "waiting", "active", "completed", "failed"}

(* The types: a job is never recovered more than MaxStalled times. *)
JobTypeOK ==
    /\ status \in [Urls -> JobStates]
    /\ stalls \in [Urls -> 0..MaxStalled]

JobInit ==
    /\ status = [u \in Urls |-> "absent"]
    /\ stalls = [u \in Urls |-> 0]

WaitingJobs == {u \in Urls : status[u] = "waiting"}

CompletedJobs == {u \in Urls : status[u] = "completed"}

-----------------------------------------------------------------------------
(* A version of AddJob that does not deduplicate by job id. *)
AddJobAlways(u) ==
    /\ status' = [status EXCEPT ![u] = "waiting"]
    /\ stalls' = [stalls EXCEPT ![u] = 0]

(* Queue.add with a custom jobId: a job of that id that is still stored, in *)
(* whatever state, makes the call a no-op that returns the same id.         *)
AddJob(u) ==
    \/ /\ status[u] = "absent"
       /\ status' = [status EXCEPT ![u] = "waiting"]
       /\ stalls' = [stalls EXCEPT ![u] = 0]
    \/ /\ status[u] # "absent"
       /\ UNCHANGED jobVars

(* A worker slot fetches a waiting job and locks it. The order in which     *)
(* waiting jobs are fetched is left open.                                   *)
Activate(u) ==
    /\ status[u] = "waiting"
    /\ status' = [status EXCEPT ![u] = "active"]
    /\ UNCHANGED stalls

(* The processor returned and the slot still holds the lock. The completed  *)
(* job stays under its id until KeepCompleted later ones push it out; which *)
(* of the older ones goes is left open.                                     *)
Complete(u) ==
    /\ status[u] = "active"
    /\ \/ /\ Cardinality(CompletedJobs) < KeepCompleted
          /\ status' = [status EXCEPT ![u] = "completed"]
       \/ /\ Cardinality(CompletedJobs) >= KeepCompleted
          /\ \E old \in CompletedJobs :
                status' = [status EXCEPT ![u] = "completed", ![old] = "absent"]
    /\ UNCHANGED stalls

(* A version of Recover that forgets the limit on stalls. *)
RecoverAlways(u) ==
    /\ status[u] = "active"
    /\ status' = [status EXCEPT ![u] = "waiting"]
    /\ stalls' = [stalls EXCEPT ![u] = @ + 1]

(* A version of Recover that leaves a job alone that stalls too often. *)
RecoverOnce(u) ==
    /\ status[u] = "active"
    /\ stalls[u] < MaxStalled
    /\ status' = [status EXCEPT ![u] = "waiting"]
    /\ stalls' = [stalls EXCEPT ![u] = @ + 1]

(* The stalled-job check finds an active job whose lock is gone: back to    *)
(* waiting, or failed when it has stalled MaxStalled times already.         *)
Recover(u) ==
    /\ status[u] = "active"
    /\ \/ /\ stalls[u] < MaxStalled
          /\ status' = [status EXCEPT ![u] = "waiting"]
          /\ stalls' = [stalls EXCEPT ![u] = @ + 1]
       \/ /\ stalls[u] >= MaxStalled
          /\ status' = [status EXCEPT ![u] = "failed"]
          /\ UNCHANGED stalls

(* removeOnFail.age: a failed job is dropped once it is old enough. *)
Forget(u) ==
    /\ status[u] = "failed"
    /\ status' = [status EXCEPT ![u] = "absent"]
    /\ UNCHANGED stalls
=============================================================================
