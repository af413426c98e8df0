CONSTANTS
    MP_ALIGNMENT = 4
    PoolSize = 3
    NodeSize = 4
    HeaderSize = 2
    HeadGap = 4
    ResetsHead = TRUE
    size = 8
    max = 8
    FailLimit = 0
    Probes = 2
    Requests <- MCRequests
    Larges = {x1, x2, x3}
    None = None
    MaxNodes = 4
    MaxOffset = 20
SPECIFICATION Spec
CHECK_DEADLOCK FALSE
INVARIANTS
    BlocksDisjoint
    InsideOrBehind
    LargeIsListed
