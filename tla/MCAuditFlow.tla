----------------------------- MODULE MCAuditFlow -----------------------------
(* Instances of AuditFlow for TLC: two processes, each serving one request *)
(* and running one worker slot, or one process with all of them.           *)
EXTENDS AuditFlowRefinement, TLC

CONSTANTS r1, r2, w1, w2, p1, p2

TwoProcesses == (r1 :> p1) @@ (r2 :> p2) @@ (w1 :> p1) @@ (w2 :> p2)

(* Renaming the URLs, and swapping the two processes with all they hold.   *)
Same == [x \in {r1, r2, w1, w2, p1, p2} |-> x]
Swapped == (r1 :> r2) @@ (r2 :> r1) @@ (w1 :> w2) @@ (w2 :> w1) @@ (p1 :> p2) @@ (p2 :> p1)
Symmetry == {f @@ g : f \in Permutations(Urls), g \in {Same, Swapped}}

(* The contract does not tell results apart by their run, and base is only  *)
(* recorded: states that differ in nothing else have the same steps.        *)
WithoutHistory ==
    <<phase, target, [r \in Requests |-> late[r] /\ phase[r] \in {"poll", "sleep"}],
      [u \in Urls |-> cache[u] # 0], stage, task, held, arrivals, jobVars>>

OneRequest == (r1 :> p1) @@ (w1 :> p1) @@ (w2 :> p2)

OneProcess == [x \in Requests \cup Workers |-> p1]
=============================================================================
