CONSTANTS
    Bytes = {a, b}
    size = 4
    Wrap = 8
SPECIFICATION Spec
INVARIANT OneByteASlot
PROPERTY ImplementsFifo
