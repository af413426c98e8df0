CONSTANTS
    Threads = {t1, t2, t3, t4}
    Conns = {c1, c2, c3}
    NoConn = NoConn
    m_db_max_conn_cnt = 2
SPECIFICATION FairSpec
INVARIANTS
    ExclusiveUse
    NoLostWakeup
PROPERTIES
    ImplementsLease
    AbortEndsEveryCall
    IdleConnIsHandedOut
