CONSTANTS
    Commands = {"register_commitments"}
    COUNT = 2
    PRICE = 50
    MAX_GAS_EXEC = 100
    ASSUMED_DATA_BYTES = 1
    ASSUMED_BASE_FEE = 64
    BASE_FEE_HEADROOM = 2
    HEADROOM_BLOCKS = 5
    GasLimits = {100, 101}
    GasUsed = {60}
    Starts <- SmallStarts
    Transfers = {1000}
    MAX_HEIGHT = 6
    ATTEMPTS = 1
    U128_MAX = 100000000
    None = None
SPECIFICATION Spec
INVARIANT
    ClosingLineTrue
CHECK_DEADLOCK FALSE
