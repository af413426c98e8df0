CONSTANTS
    Threads = {t1, t2, t3}
    Conns = {c1, c2}
    NoConn = NoConn
    m_db_max_conn_cnt = 2
SPECIFICATION Spec
INVARIANT NoConnLost
