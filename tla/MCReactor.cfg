CONSTANTS
    Conns = {c1, c2}
    NoConn = NoConn
    MaxFd = 2
    MAX_EPOLL_EVENTS = 2
    BUFFER_LENGTH = 2
    MaxSend = 2
SPECIFICATION FairSpec
CHECK_DEADLOCK FALSE
INVARIANTS
    WatchedAsRecorded
    EventsAreCurrent
    OwnBytesInOrder
PROPERTIES
    ImplementsEcho
    EveryByteAnswered
    DescriptorsAreFreed
