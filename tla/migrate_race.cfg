CONSTANTS
    Procs = {p1, p2, p3}
    Sizes <- MCSizes
    Repeatable <- MCRepeatable
    MaxFaults = 1
SPECIFICATION FairSpec
INVARIANTS TypeOK SchemaWhole
PROPERTIES ForwardOnly EveryoneOpens
CHECK_DEADLOCK FALSE
