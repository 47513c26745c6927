CONSTANTS
    o1 = o1
    o2 = o2
    s1 = s1
    s2 = s2
    Seed <- OwnSeeds
    None = None
    Torn = Torn
    Operators = {o1}
    EnvIds <- NoOverrides
    MaxKeys = 6
    MaxRuns = 2
SPECIFICATION Spec
INVARIANT
    SetupLeavesLiveTree
CHECK_DEADLOCK FALSE
