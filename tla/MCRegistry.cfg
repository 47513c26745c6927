CONSTANTS
    c1 = c1
    c2 = c2
    s1 = s1
    s2 = s2
    p1 = p1
    t1 = t1
    t2 = t2
    m1 = m1
    m2 = m2
    LastSecond = 6
    Empty = Empty
    ZERO = ZERO
    Commitments = {c1, c2}
    Secrets = {s1, s2}
    hash_single <- Hash
    Payers = {p1}
    Treasuries = {t1, t2}
    MerklePrograms = {m1, m2}
    Deployments <- SmallDeployments
    RateLimits <- Rates
    Instants <- Seconds
    InitialBalance <- Balances
    MIN_RATE_LIMIT = 1
    MAX_RATE_LIMIT = 2
    TREE_LEAVES = 3
    CLOCK_CLAIM_TOLERANCE_MS = 1000
    U64_MAX = 20000
    U128_MAX = 6
SPECIFICATION Spec
INVARIANTS
    TypeOK
    CountersMatchMembers
    LiveRateWithinCap
    LeavesMatchMembers
    OnlyConfiguredTree
    PaidTimeHonoured
    RevenueExact
    RenewalHorizon
    Reclaimable
PROPERTIES
    RemovalJustified
    SlotsFilledOnce
CHECK_DEADLOCK FALSE
