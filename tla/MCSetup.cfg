CONSTANTS
    o1 = o1
    o2 = o2
    s1 = s1
    s2 = s2
    Seed <- OneSeed
    None = None
    Torn = Torn
    Operators = {o1, o2}
    EnvIds <- SharedRegistration
    MaxKeys = 10
    MaxRuns = 2
SPECIFICATION FairSpec
INVARIANTS
    RecordedProgramsDeployed
    ConfigTreasuryStored
    FinishedTreeIsConfigured
PROPERTY
    SetupTerminates
CHECK_DEADLOCK FALSE
