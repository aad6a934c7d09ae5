---------------------------- MODULE RequestBudget ----------------------------
(* What one evaluation's budget promises (src/src/evaluation_budget.rs): its *)
(* requests are granted one at a time up to the limit, and the first refusal *)
(* ends the evaluation.                                                      *)
EXTENDS Naturals

CONSTANT MaxRequests

VARIABLES granted, denied
vars == <<granted, denied>>

Init == granted = 0 /\ denied = FALSE

Grant ==
    /\ ~denied /\ granted < MaxRequests
    /\ granted' = granted + 1
    /\ UNCHANGED denied

Deny ==
    /\ granted = MaxRequests
    /\ denied' = TRUE
    /\ UNCHANGED granted

Next == Grant \/ Deny
Spec == Init /\ [][Next]_vars
=============================================================================
