CONSTANTS
    c1 = c1
    s1 = s1
    p1 = p1
    t1 = t1
    m1 = m1
    m2 = m2
    LastSecond = 4
    Empty = Empty
    ZERO = ZERO
    None = None
    Commitments = {c1}
    Secrets = {s1}
    hash_single <- Hash
    Payers = {p1}
    Treasuries = {t1}
    MerklePrograms = {m1, m2}
    Deployments <- SmallDeployments
    RateLimits <- Rates
    Instants <- Seconds
    InitialBalance <- Balances
    MIN_RATE_LIMIT = 1
    MAX_RATE_LIMIT = 2
    TREE_LEAVES = 2
    CLOCK_CLAIM_TOLERANCE_MS = 1000
    U64_MAX = 20000
    U128_MAX = 20
    Jobs <- AllJobs
    Reserves = {0, 1}
SPECIFICATION ClientSpec
INVARIANTS
    HonestTxPassesAsserts
    QuietTxSucceeds
    ReturnedIndexIsNew
    AbsentMeansGone
PROPERTY
    ReportMatchesPrograms
CHECK_DEADLOCK FALSE
