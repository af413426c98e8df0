CONSTANTS
    c1 = c1
    c2 = c2
    Conns = {c1, c2}
    NoConn = NoConn
    MaxFd = 1
    MAX_EPOLL_EVENTS = 2
    BUFFER_LENGTH = 4
    MaxSend = 6
    Stream <- MCStream
    ZeroDigest = {c2}
SPECIFICATION WsSpec
CHECK_DEADLOCK FALSE
INVARIANTS
    OneRequestEach
    AnswerThenBytes
    MessagesAreAnswered
