-------------------------- MODULE AuditFlowRefinement --------------------------
(***************************************************************************)
(* AuditFlow implements AuditContract as long as no slot loses its lock: a *)
(* job is in flight while it waits or is active, and airborne while a slot *)
(* holds its lock.                                                         *)
(***************************************************************************)
EXTENDS AuditFlow

FlightOf(u) ==
    CASE status[u] \in {"absent", "completed", "failed"} -> "none"
      [] status[u] = "active" /\ Locked(u) -> "airborne"
      [] OTHER -> "queued"

ClientOf(r) ==
    CASE phase[r] = "idle" -> "out"
      [] phase[r] \in {"lookup", "check", "add"} -> "asking"
      [] phase[r] \in {"poll", "sleep"} -> "waiting"
      [] phase[r] \in {"cached", "live"} -> phase[r]
      [] OTHER -> "declined"

Contract == INSTANCE AuditContract WITH
    Clients <- Requests,
    flight <- [u \in Urls |-> FlightOf(u)],
    shelf <- [u \in Urls |-> cache[u] # 0],
    client <- [r \in Requests |-> ClientOf(r)],
    want <- target

(* Every behaviour of the audit flow is one AuditContract allows: results   *)
(* come only from an audit in flight, whatever requests, workers, crashes,  *)
(* evictions and lost calls interleave.                                     *)
ImplementsContract == Contract!Spec
=============================================================================
