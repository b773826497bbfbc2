---------------------------- MODULE PlanQuality ----------------------------
(***************************************************************************)
(* How good the plan of build_plan is, measured against every other        *)
(* selection of complete badges: what docs/optimizer-model.md says of the  *)
(* greedy order, and the limit it admits at a tight budget.                *)
(***************************************************************************)
EXTENDS GreedyPlanner, Functions

CostOf(S) == SumFunction([b \in S |-> cost[b]])
XpOf(S)   == SumFunction([b \in S |-> Xp(b)])

Selections == SUBSET Rankable

\* As long as the budget has turned no badge away, what the plan yields cannot
\* be had for less: the greedy order is exact for the XP it stops at ("The
\* argument above is a statement about *ordering*, and it holds", optimizer-model.md:51).
PrefixOptimal ==
    skipped = {} => \A S \in Selections : XpOf(S) >= xp => CostOf(S) >= total

\* The loss at a tight budget (optimizer-model.md:50-66) is less than one
\* badge: some badge that was turned away makes up for it.
GapBounded ==
    finished /\ budget # None /\ ~TargetMet =>
        \A S \in Selections :
            CostOf(S) <= budget =>
                \/ XpOf(S) <= xp
                \/ \E b \in skipped : XpOf(S) < xp + Xp(b)

\* Exact until the budget turns a badge away, and then less than one badge short.
NearOptimal == PrefixOptimal /\ GapBounded

=============================================================================
