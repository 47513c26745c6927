CONSTANTS
    c1 = c1
    s1 = s1
    p1 = p1
    a1 = a1
    a2 = a2
    m1 = m1
    m2 = m2
    r1 = r1
    r2 = r2
    t1 = t1
    t2 = t2
    LastSecond = 3
    Empty = Empty
    ZERO = ZERO
    None = None
    Refused = Refused
    Foreign = Foreign
    CLOCK_50 = CLOCK_50
    ClockProgram = ClockProgram
    NATIVE_TOKEN_PROGRAM_ID = NATIVE_TOKEN_PROGRAM_ID
    Commitments = {c1}
    Secrets = {s1}
    hash_single <- Hash
    Payers = {p1}
    Treasuries = {a1, a2}
    MerklePrograms = {m1, m2}
    RegistrationPrograms = {r1}
    TreeIds = {t1, t2}
    Registries <- TwoTrees
    Home <- First
    Deployments <- SmallDeployments
    RateLimits = {1}
    Instants <- Seconds
    InitialBalance <- Balances
    MIN_RATE_LIMIT = 1
    MAX_RATE_LIMIT = 1
    TREE_LEAVES = 2
    CLOCK_CLAIM_TOLERANCE_MS = 0
    U64_MAX = 20000
    U128_MAX = 20
SPECIFICATION Spec
INVARIANTS
    GrantOnlyConfigured
    TreasuriesExact
PROPERTIES
    RegistriesIsolated
    ImplementsRegistry
CHECK_DEADLOCK FALSE
