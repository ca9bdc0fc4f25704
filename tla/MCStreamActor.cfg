SPECIFICATION FairSpec
CONSTANTS
    e1 = e1
    e2 = e2
    l1 = l1
    q1 = q1
    p1 = p1
    i1 = i1
    i2 = i2
    Execs <- MCExecs
    Queries <- MCQueries
    Plans <- MCPlans
    Images <- MCImages
    Locals <- MCLocals
    MaxRuns = 2
    MaxPasses = 2
    MaxDisconnects = 1
    MaxFaults = 1
INVARIANTS NothingTwice 
PROPERTIES KeepsContract 
CHECK_DEADLOCK FALSE
