CONSTANTS
    Badges = {b1, b2, b3}
    Costs <- MCCosts
    Crafts <- MCCrafts
    Budgets <- MCBudgets
    Targets <- MCTargets
SPECIFICATION Spec
INVARIANTS TypeOK LimitsKept NothingCheaperLeft NearOptimal
CHECK_DEADLOCK FALSE
