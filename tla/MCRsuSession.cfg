CONSTANTS
    Lws = {c1, c2}
    NULL = NULL
    MaxLen = 3
    ReplyLen = 2
    MaxMessages = 4
SPECIFICATION RsuSpec
INVARIANTS
    WsiIsTheUnit
    FramesAreMessages
    DiesOnlyInTheGap
SYMMETRY Symmetry
CHECK_DEADLOCK FALSE
