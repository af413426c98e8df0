CONSTANTS
    Ids = {t1, t2, t3}
    Mutexes = {m1, m2}
    Nobody = Nobody
    NoLock = NoLock
    MAX = 5
    Junk <- MCJunk
SPECIFICATION HooksSpec
INVARIANTS
    EveryEntryIsReached
    OwnersAreListed
    EdgesAreBlocks
SYMMETRY Symmetry
CHECK_DEADLOCK FALSE
