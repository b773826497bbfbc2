-------------------------- MODULE MCGreedyPlanner --------------------------
(***************************************************************************)
(* Constants for model checking the planner: three badges whose costs and  *)
(* crafts admit ties, free badges, a best ratio that exhausts the budget   *)
(* and a cheap badge with a poor ratio.                                    *)
(***************************************************************************)
EXTENDS PlanQuality

MCCosts   == {0, 2, 5, 10}
MCCrafts  == {0, 1, 3}
MCBudgets == {None, 10, 11}
MCTargets == {None, 100, 400}

=============================================================================
