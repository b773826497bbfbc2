--------------------------- MODULE GreedyPlanner ---------------------------
(***************************************************************************)
(* build_plan (optimize/greedy.py): complete badges are ranked by cost per *)
(* expected XP, then by cost, and taken in that order while they fit the   *)
(* budget, until the XP target is met.  One behavior is one call; Init     *)
(* chooses its inputs.  Amounts are integer cents.                         *)
(***************************************************************************)
EXTENDS Integers, Sequences, FiniteSets

CONSTANTS
    Badges,   \* the badges of the cost report
    Costs,    \* the known_cost a badge can have, in cents
    Crafts,   \* the crafts_needed a badge can have
    Budgets,  \* the budgets a call can have, in cents
    Targets   \* the XP targets a call can have

\* An optional argument that is not given.
None == -1
XpPerCraft == 100

ASSUME PlannerAssumption ==
    /\ IsFiniteSet(Badges)
    /\ Costs \subseteq Nat /\ Crafts \subseteq Nat
    /\ Budgets \subseteq Nat \cup {None} /\ Targets \subseteq Nat \cup {None}

VARIABLES
    cost, crafts, complete,  \* the cost report
    budget, target,          \* the optional limits
    ranked,                  \* the complete badges in the order of the plan
    next,                    \* index of the badge the loop looks at
    chosen, skipped,         \* the plan so far
    total, xp,               \* its cost and its XP
    finished                 \* the plan has been returned

input == <<cost, crafts, complete, budget, target, ranked>>
vars  == <<input, next, chosen, skipped, total, xp, finished>>

Xp(b) == crafts[b] * XpPerCraft

\* _cost_per_xp(a) <= _cost_per_xp(b), exact fractions.
NotDearer(a, b) == cost[a] * Xp(b) <= cost[b] * Xp(a)

\* Mutant: cheapest badge first, whatever its XP.
SortedByCost(s) ==
    \A i, j \in 1..Len(s) : i < j => cost[s[i]] <= cost[s[j]]

\* Mutant: the order is reversed.
SortedDearestFirst(s) == \A i, j \in 1..Len(s) : i < j => NotDearer(s[j], s[i])

\* Ascending by cost per XP, ties by cost (further ties are in report order,
\* which is arbitrary here).
Sorted(s) ==
    \A i, j \in 1..Len(s) :
        i < j => /\ NotDearer(s[i], s[j])
                 /\ NotDearer(s[j], s[i]) => cost[s[i]] <= cost[s[j]]

\* Mutant: badges with no craft left are ranked too (they cost nothing).
CompleteBadges == {b \in Badges : complete[b]}

\* complete_badges(): fully known and priced, with a craft left to do.
Rankable == {b \in Badges : complete[b] /\ crafts[b] > 0}

\* The sequences that hold every element of S once.
Enumerations(S) ==
    {s \in [1..Cardinality(S) -> S] : {s[i] : i \in 1..Cardinality(S)} = S}

Init ==
    /\ cost \in [Badges -> Costs] /\ crafts \in [Badges -> Crafts]
    /\ complete \in [Badges -> BOOLEAN]
    /\ budget \in Budgets /\ target \in Targets
    /\ ranked \in {s \in Enumerations(Rankable) : Sorted(s)}
    /\ next = 1 /\ chosen = <<>> /\ skipped = {}
    /\ total = 0 /\ xp = 0 /\ finished = FALSE

-----------------------------------------------------------------------------
TargetMet == target # None /\ xp >= target

Fits(b) == budget = None \/ total + cost[b] <= budget

Here == ranked[next]
Looking == ~finished /\ next <= Len(ranked) /\ ~TargetMet

Take ==
    /\ Looking /\ Fits(Here)
    /\ chosen' = Append(chosen, Here)
    /\ total' = total + cost[Here] /\ xp' = xp + Xp(Here)
    /\ next' = next + 1
    /\ UNCHANGED <<input, skipped, finished>>

\* Mutant: the first badge that does not fit ends the plan.
StopAtFirstMisfit ==
    /\ Looking /\ ~Fits(Here)
    /\ next' = Len(ranked) + 1
    /\ UNCHANGED <<input, chosen, skipped, total, xp, finished>>

Skip ==
    /\ Looking /\ ~Fits(Here)
    /\ skipped' = skipped \cup {Here}
    /\ next' = next + 1
    /\ UNCHANGED <<input, chosen, total, xp, finished>>

Finish ==
    /\ ~finished /\ (next > Len(ranked) \/ TargetMet)
    /\ finished' = TRUE
    /\ UNCHANGED <<input, next, chosen, skipped, total, xp>>

Next == Take \/ Skip \/ Finish

Spec == Init /\ [][Next]_vars

-----------------------------------------------------------------------------
(* Properties.                                                             *)

\* Every variable has its type, and every badge of the plan adds a craft or more.
TypeOK ==
    /\ cost \in [Badges -> Nat] /\ crafts \in [Badges -> Nat]
    /\ complete \in [Badges -> BOOLEAN]
    /\ budget \in Nat \cup {None} /\ target \in Nat \cup {None}
    /\ ranked \in Seq(Rankable) /\ next \in 1..(Len(ranked) + 1)
    /\ chosen \in Seq(Rankable) /\ skipped \subseteq Rankable
    /\ total \in Nat /\ xp \in Nat /\ finished \in BOOLEAN
    /\ xp >= XpPerCraft * Len(chosen)

ChosenSet == {chosen[i] : i \in DOMAIN chosen}

\* "never exceeding the budget" (greedy.py:66), and nothing is left out for
\* the budget's sake that the money left would still buy: a plan that ends
\* short of its target (or has none) holds every complete badge it can afford.
BudgetUsedUp ==
    /\ budget # None => total <= budget
    /\ finished /\ ~TargetMet =>
           \A b \in Rankable \ ChosenSet : budget # None /\ total + cost[b] > budget

\* "cheapest-cost-per-XP badges first" (greedy.py:65): no complete badge that
\* the loop has not looked at is cheaper per XP than one in the plan.
NothingCheaperLeft ==
    \A c \in ChosenSet, b \in Rankable :
        b \notin ChosenSet \cup skipped => NotDearer(c, b)

\* "stopping at the XP target" (greedy.py:65): without its last purchase the
\* plan misses the target, so it never buys a badge it no longer needs.
LastPurchaseNeeded ==
    target # None /\ chosen # <<>> => xp - Xp(chosen[Len(chosen)]) < target

\* Both limits: the plan ends neither before nor after what they allow.
LimitsKept == BudgetUsedUp /\ LastPurchaseNeeded

=============================================================================
