CONSTANTS
    TREE_DEPTH = 2
    CIRCUIT_DEPTH = 4
    ROOT_HISTORY_SIZE = 2
    OFFSETS = 7
    a = a
    b = b
    ZERO = ZERO
    Empty = Empty
    None = None
    FieldElements = {a, b, ZERO}
SYMMETRY Symmetry
SPECIFICATION ProofSpec
INVARIANTS
    TypeOK
    NodesMatchLeaves
    PaddedPathMeetsFoldedRoot
    ProofSurvivesWindow
    AcceptedProofIsRecent
PROPERTY
    ImplementsLeafVector
