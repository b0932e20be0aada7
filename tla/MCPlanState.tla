------------------------------ MODULE MCPlanState ------------------------------
(* One or two overlapping requests of visitors and the owner's next to them. *)
EXTENDS PlanState, TLC
MCSymmetry == Permutations(Requests)
=============================================================================
