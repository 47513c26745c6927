CONSTANTS
    TREE_DEPTH = 2
    h1 = h1
    h2 = h2
    Hashes = {h1, h2}
    Default = d
    OFFSETS = 7
SPECIFICATION Spec
INVARIANTS
    EntriesSorted
    ReadsLastWrite
