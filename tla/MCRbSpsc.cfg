CONSTANTS
    Bytes = {a, nl}
    Newline = nl
    Requested = 3
    Wrap = 8
    MaxRequest = 2
    AnyTime = FALSE
SPECIFICATION Spec
INVARIANT WriterKeepsOff
PROPERTY ImplementsFifo
