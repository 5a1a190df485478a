----------------------------- MODULE RateLimiter -----------------------------
(***************************************************************************)
(* RateLimitGuard.canActivate and CacheService.increment for one client    *)
(* address: a Redis counter, raised by INCR and given a time to live by    *)
(* EXPIRE NX. The two commands travel in one pipeline, which is not a      *)
(* transaction: concurrent requests, also from other processes, come       *)
(* between them, and the second can be lost.                               *)
(*                                                                         *)
(* A tick is a second, the unit of EXPIRE.                                 *)
(***************************************************************************)
EXTENDS Integers, FiniteSetsExt

CONSTANTS
    Requests,     \* concurrent requests of the address, used again and again
    RateLimitMax, \* RATE_LIMIT_MAX
    WindowMs,     \* RATE_LIMIT_WINDOW_MS
    MsPerSecond,  \* 1000 in the code, smaller here so that windows are short
    CountCap,     \* bound: the counter, and what recent counts, are not
                  \* told apart beyond it
    Faults        \* a subset of {"incr", "expire", "evict"}

ASSUME RateLimiterAssumption ==
    /\ RateLimitMax \in Nat \ {0}
    /\ WindowMs \in Nat \ {0}
    /\ MsPerSecond \in Nat \ {0}
    /\ CountCap \in Nat /\ CountCap > 2 * RateLimitMax
    /\ Faults \subseteq {"incr", "expire", "evict"}

NoTtl == -1

(* The constructor: Math.floor(windowMs / 1000). *)
WindowSeconds == WindowMs \div MsPerSecond

VARIABLES
    count,   \* the counter; 0 when the key does not exist
    ttl,     \* seconds until the key expires, NoTtl when it has no expiry
    at,      \* at[r]: where request r is
    seen,    \* seen[r]: what INCR returned to r
    waited,  \* waited[r]: seconds since r was rejected, up to a window
    behind,  \* behind[r]: the key that had r rejected, and that had an expiry
             \* by then, still exists
    recent   \* recent[a]: requests counted within the limit in the last a
             \* seconds, this one among them, and not before an eviction

requestVars == <<at, seen, waited, behind>>
vars == <<count, ttl, requestVars, recent>>

Ages == 0..WindowSeconds

Init ==
    /\ count = 0
    /\ ttl = NoTtl
    /\ at = [r \in Requests |-> "idle"]
    /\ seen = [r \in Requests |-> 0]
    /\ waited = [r \in Requests |-> 0]
    /\ behind = [r \in Requests |-> FALSE]
    /\ recent = [a \in Ages |-> 0]

(* A version of Allowed that admits one request too many. *)
AllowedLate(n) == n <= RateLimitMax + 1

Allowed(n) == n <= RateLimitMax

Raised == Min({count + 1, CountCap})

(* The counter is gone: it starts anew, without an expiry. *)
Drop ==
    /\ count' = 0
    /\ ttl' = NoTtl
    /\ behind' = [r \in Requests |-> FALSE]

(* canActivate calls increment; Redis executes INCR. *)
Count(r) ==
    /\ at[r] # "counted"
    /\ at' = [at EXCEPT ![r] = "counted"]
    /\ count' = Raised
    /\ seen' = [seen EXCEPT ![r] = Raised]
    /\ waited' = [waited EXCEPT ![r] = 0]
    /\ behind' = [behind EXCEPT ![r] = FALSE]
    /\ recent' = [a \in Ages |->
                     IF a > 0 /\ Allowed(Raised)
                     THEN Min({recent[a] + 1, CountCap}) ELSE recent[a]]
    /\ UNCHANGED ttl

(* The pipeline fails, or INCR's reply is an error: the request is let      *)
(* through, whether INCR was executed or not.                               *)
FailOpen(r) ==
    /\ "incr" \in Faults
    /\ at[r] # "counted"
    /\ at' = [at EXCEPT ![r] = "admitted"]
    /\ count' \in {count, Raised}
    /\ waited' = [waited EXCEPT ![r] = 0]
    /\ behind' = [behind EXCEPT ![r] = FALSE]
    /\ UNCHANGED <<ttl, seen, recent>>

(* A version of SetExpiry without NX: every request prolongs the window. *)
SetExpiryAlways ==
    ttl' = IF WindowSeconds > 0 /\ count > 0 THEN WindowSeconds ELSE ttl

(* A version of SetExpiry that takes milliseconds for seconds. *)
SetExpiryInMs ==
    ttl' = IF count > 0 /\ ttl = NoTtl THEN WindowMs ELSE ttl

(* EXPIRE key windowSeconds NX, which increment leaves out for 0 seconds.   *)
SetExpiry ==
    ttl' = IF WindowSeconds > 0 /\ count > 0 /\ ttl = NoTtl
           THEN WindowSeconds ELSE ttl

Verdict(r) == IF Allowed(seen[r]) THEN "admitted" ELSE "rejected"

(* The replies arrive and canActivate decides on that of INCR. *)
Answer(r) ==
    /\ at[r] = "counted"
    /\ at' = [at EXCEPT ![r] = Verdict(r)]
    /\ behind' = [behind EXCEPT ![r] =
                     Verdict(r) = "rejected" /\ count > 0 /\ ttl' # NoTtl]
    /\ seen' = [seen EXCEPT ![r] = 0]
    /\ UNCHANGED <<count, waited, recent>>

Decide(r) == SetExpiry /\ Answer(r)

(* EXPIRE got lost, which canActivate does not notice. *)
DecideUnset(r) ==
    /\ "expire" \in Faults
    /\ UNCHANGED ttl
    /\ Answer(r)

(* A second passes in Redis and for everybody. *)
Tick ==
    /\ \/ ttl = 1 /\ Drop
       \/ /\ ttl # 1
          /\ ttl' = IF ttl = NoTtl THEN NoTtl ELSE ttl - 1
          /\ UNCHANGED <<count, behind>>
    /\ waited' = [r \in Requests |->
                     IF at[r] = "rejected"
                     THEN Min({waited[r] + 1, WindowSeconds}) ELSE 0]
    /\ recent' = [a \in Ages |-> IF a <= 1 THEN 0 ELSE recent[a - 1]]
    /\ UNCHANGED <<at, seen>>

(* Redis evicts the key: maxmemory-policy volatile-lru picks among the keys *)
(* that have an expiry.                                                     *)
Evict ==
    /\ "evict" \in Faults
    /\ ttl # NoTtl
    /\ Drop
    /\ recent' = [a \in Ages |-> 0]
    /\ UNCHANGED <<at, seen, waited>>

Next ==
    \/ \E r \in Requests : Count(r) \/ FailOpen(r) \/ Decide(r) \/ DecideUnset(r)
    \/ Tick
    \/ Evict

Spec == Init /\ [][Next]_vars

(* The clock runs, a pipeline that was sent is answered, and not every      *)
(* EXPIRE is lost.                                                          *)
FairSpec ==
    /\ Spec
    /\ WF_vars(Tick)
    /\ \A r \in Requests : WF_vars(Decide(r) \/ DecideUnset(r)) /\ SF_vars(Decide(r))

-----------------------------------------------------------------------------
(* The types: a time to live is never longer than a window. *)
TypeOK ==
    /\ count \in 0..CountCap
    /\ ttl \in {NoTtl} \cup 1..WindowSeconds
    /\ at \in [Requests -> {"idle", "counted", "admitted", "rejected"}]
    /\ seen \in [Requests -> 0..CountCap]
    /\ waited \in [Requests -> 0..WindowSeconds]
    /\ behind \in [Requests -> BOOLEAN]
    /\ recent \in [Ages -> 0..CountCap]

(* In no stretch of WindowSeconds seconds are more than two limits' worth   *)
(* of counted requests let through: the stretch meets two fixed windows at  *)
(* most, also when an EXPIRE is lost or comes late. (An eviction starts the *)
(* count over.)                                                             *)
TwoWindowBound == recent[WindowSeconds] <= 2 * RateLimitMax

(* A client that honours Retry-After is not turned away on account of the   *)
(* counter that rejected it, whatever other requests of its address did in  *)
(* the meantime, if that counter had an expiry when it rejected the client  *)
(* (with its EXPIRE lost it has none until the next request sets it).       *)
RetryAfterHonest ==
    \A r \in Requests :
        at[r] = "rejected" /\ waited[r] >= WindowSeconds => ~behind[r]

(* An address that is over the limit does not stay there, however often it  *)
(* asks: it comes back under it, or it stops asking and a counter left      *)
(* without an expiry by failed calls waits for its next request.            *)
Asks == \E r \in Requests : at[r] = "counted"
LockoutEnds == []<>Asks => (count > RateLimitMax ~> count <= RateLimitMax)
=============================================================================
