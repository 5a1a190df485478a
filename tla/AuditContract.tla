---------------------------- MODULE AuditContract ----------------------------
(***************************************************************************)
(* What the audit service promises its clients, without saying how: one    *)
(* audit of a URL is in flight at a time, only an audit in flight puts a   *)
(* result on the shelf, and every result a client gets comes from there.   *)
(* AuditFlow implements it (AuditFlowRefinement).                          *)
(***************************************************************************)
CONSTANTS
    Urls,     \* what clients may ask about
    Clients,  \* clients that ask, one question at a time
    NoUrl     \* what a client wants before its first question

VARIABLES
    flight,  \* flight[u]: "none", "queued" or "airborne"
    shelf,   \* shelf[u]: is a result for u available?
    client,  \* client[c]: what c is doing, or the answer it had last
    want     \* want[c]: the URL c asked about last

vars == <<flight, shelf, client, want>>

Busy == {"asking", "waiting"}

Init ==
    /\ flight = [u \in Urls |-> "none"]
    /\ shelf = [u \in Urls |-> FALSE]
    /\ client = [c \in Clients |-> "out"]
    /\ want = [c \in Clients |-> NoUrl]

Becomes(c, answer) == client' = [client EXCEPT ![c] = answer]

(* Asking for an audit of u makes one pending if none is. *)
Launch(u) ==
    /\ flight[u] = "none"
    /\ flight' = [flight EXCEPT ![u] = "queued"]

Ask(c, u) ==
    /\ client[c] \notin Busy
    /\ Becomes(c, "asking")
    /\ want' = [want EXCEPT ![c] = u]
    /\ UNCHANGED <<flight, shelf>>

AnswerCached(c) ==
    /\ client[c] = "asking"
    /\ shelf[want[c]]
    /\ Becomes(c, "cached")
    /\ UNCHANGED <<flight, shelf, want>>

Join(c) ==
    /\ client[c] = "asking"
    /\ Launch(want[c]) \/ UNCHANGED flight
    /\ Becomes(c, "waiting")
    /\ UNCHANGED <<shelf, want>>

AnswerLive(c) ==
    /\ client[c] = "waiting"
    /\ shelf[want[c]]
    /\ Becomes(c, "live")
    /\ UNCHANGED <<flight, shelf, want>>

(* No result: queue full, out of time, or an error, which may come after    *)
(* the audit was launched.                                                  *)
Decline(c) ==
    /\ client[c] \in Busy
    /\ \/ client[c] = "asking" /\ Launch(want[c])
       \/ UNCHANGED flight
    /\ Becomes(c, "declined")
    /\ UNCHANGED <<shelf, want>>

Depart(u) ==
    /\ flight[u] = "queued"
    /\ flight' = [flight EXCEPT ![u] = "airborne"]
    /\ UNCHANGED <<shelf, client, want>>

Publish(u) ==
    /\ flight[u] = "airborne"
    /\ shelf' = [shelf EXCEPT ![u] = TRUE]
    /\ UNCHANGED <<flight, client, want>>

(* An audit ends once it had its chance to publish, or is given up. *)
Land(u) ==
    /\ flight[u] # "none"
    /\ flight' = [flight EXCEPT ![u] = "none"]
    /\ UNCHANGED <<shelf, client, want>>

Perish(u) ==
    /\ shelf[u]
    /\ shelf' = [shelf EXCEPT ![u] = FALSE]
    /\ UNCHANGED <<flight, client, want>>

(* An outage declines some of the busy clients and grounds some flights. *)
Outage ==
    /\ \E lost \in SUBSET {c \in Clients : client[c] \in Busy} :
          client' = [c \in Clients |-> IF c \in lost THEN "declined" ELSE client[c]]
    /\ \E grounded \in SUBSET {u \in Urls : flight[u] = "airborne"} :
          flight' = [u \in Urls |-> IF u \in grounded THEN "queued" ELSE flight[u]]
    /\ UNCHANGED <<shelf, want>>

Next ==
    \/ \E c \in Clients :
          \/ \E u \in Urls : Ask(c, u)
          \/ AnswerCached(c)
          \/ Join(c)
          \/ AnswerLive(c)
          \/ Decline(c)
    \/ \E u \in Urls : Depart(u) \/ Publish(u) \/ Land(u) \/ Perish(u)
    \/ Outage

Spec == Init /\ [][Next]_vars
=============================================================================
