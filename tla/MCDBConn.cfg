CONSTANTS
    Threads = {t1, t2}
    Conns = {c1, c2}
    NoConn = NoConn
    m_db_max_conn_cnt = 2
    MaxWrites = 3
SPECIFICATION SessSpec
INVARIANTS
    SessionsAreTheirs
    TransactionsAreKept
SYMMETRY Symmetry
