CONSTANTS
    o1 = o1
    o2 = o2
    s1 = s1
    s2 = s2
    Seed <- OwnSeeds
    None = None
    Torn = Torn
    Operators = {o1, o2}
    EnvIds <- SharedPrograms
    MaxKeys = 3
    MaxRuns = 1
SPECIFICATION Spec
INVARIANT
    ConfirmedTxTookEffect
CHECK_DEADLOCK FALSE
