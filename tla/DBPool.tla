------------------------------- MODULE DBPool -------------------------------
(***************************************************************************)
(* The MySQL connection pool, class CDBPool of                             *)
(* connectpool/mysql_pool/DBPool.{h,cpp}.                                  *)
(*                                                                         *)
(* Every method but init() runs under m_mutex and gives it up only inside  *)
(* m_cond_var.wait / wait_for, so one critical section is one step.  A     *)
(* call is split where other threads can run in between: before the mutex  *)
(* is obtained ("entering", "returning") and while the thread waits on the *)
(* condition variable ("asleep", then "notified" until it has the mutex).  *)
(*                                                                         *)
(* Callers respect the contract of the class: they start calls only on a   *)
(* pool whose init() succeeded and whose destructor has not begun, and     *)
(* release a connection once.  The destructor may run while calls are      *)
(* under way, which is what m_abort_request is there for.                  *)
(***************************************************************************)
EXTENDS Naturals, Sequences, FiniteSets

CONSTANTS Threads,            \* threads that borrow connections
          Conns,              \* addresses of CDBConn objects
          NoConn,             \* NULL, where a CDBConn* is expected
          m_db_max_conn_cnt   \* constructor argument max_conn_cnt

MIN_DB_CONN_CNT == 1

ASSUME MaxAssumption == /\ m_db_max_conn_cnt \in Nat
                        /\ m_db_max_conn_cnt >= MIN_DB_CONN_CNT
ASSUME NoConnAssumption == NoConn \notin Conns

VARIABLES ready,              \* init() has returned 0
          m_free_list,        \* idle connections, front first
          m_used_list,        \* connections handed out, as the code records it
          m_db_cur_conn_cnt,
          m_abort_request,
          opened,             \* CDBConn objects allocated and not deleted
          pc,                 \* where each thread is in its current call
          timed,              \* the call was made with timeout_ms > 0
          conn                \* the connection each thread has, or NoConn

poolVars == <<m_free_list, m_used_list, m_db_cur_conn_cnt, opened>>
vars == <<ready, m_free_list, m_used_list, m_db_cur_conn_cnt,
          m_abort_request, opened, pc, timed, conn>>

Waiting == {"asleep", "notified"}
HasConn(t) == pc[t] \in {"holding", "returning"}
FreeConns == {m_free_list[i] : i \in DOMAIN m_free_list}

Init == /\ ready = FALSE
        /\ m_free_list = <<>>
        /\ m_used_list = {}
        /\ m_db_cur_conn_cnt = MIN_DB_CONN_CNT
        /\ m_abort_request = FALSE
        /\ opened = {}
        /\ pc = [t \in Threads |-> "idle"]
        /\ timed = [t \in Threads |-> FALSE]
        /\ conn = [t \in Threads |-> NoConn]
-----------------------------------------------------------------------------
(* CDBPool::init, run by the owner before the pool is shared.  Its loop    *)
(* makes m_db_cur_conn_cnt = MIN_DB_CONN_CNT = 1 turns.  A connection that *)
(* fails to connect is deleted and init() returns an error: the owner may  *)
(* only try again, which changes nothing here.                             *)
PoolInit ==
    /\ ~ready
    /\ \E c \in Conns \ opened : /\ m_free_list' = Append(m_free_list, c)
                                 /\ opened' = opened \cup {c}
    /\ ready' = TRUE
    /\ UNCHANGED <<m_used_list, m_db_cur_conn_cnt, m_abort_request, pc, timed, conn>>

(* A thread calls GetDBConn(timeout_ms) and goes for m_mutex. *)
CallGet(t, hasTimeout) ==
    /\ ready /\ ~m_abort_request
    /\ pc[t] = "idle"
    /\ pc' = [pc EXCEPT ![t] = "entering"]
    /\ timed' = [timed EXCEPT ![t] = hasTimeout]
    /\ UNCHANGED <<ready, poolVars, m_abort_request, conn>>

ReturnNull(t) == /\ pc' = [pc EXCEPT ![t] = "idle"]
                 /\ UNCHANGED <<poolVars, conn>>

(* m_free_list.pop_front(), and its omission (mutant). *)
NotPopped == m_free_list
Popped == Tail(m_free_list)

(* Lines 236-239: the front of the free list becomes the caller's. *)
TakeFront(t) ==
    /\ m_free_list' = Popped
    /\ m_used_list' = m_used_list \cup {Head(m_free_list)}
    /\ conn' = [conn EXCEPT ![t] = Head(m_free_list)]
    /\ pc' = [pc EXCEPT ![t] = "holding"]
    /\ UNCHANGED <<m_db_cur_conn_cnt, opened>>

(* Line 192: may the pool grow? *)
MayGrow == m_db_cur_conn_cnt < m_db_max_conn_cnt

(* A connection is made and counted. *)
Open(c) == opened' = opened \cup {c} /\ m_db_cur_conn_cnt' = m_db_cur_conn_cnt + 1

(* Lines 221-239: a new connection goes through the empty free list to the *)
(* caller; connecting may fail, and then the object is deleted.            *)
CreateConn(t) ==
    \/ ReturnNull(t)
    \/ \E c \in Conns \ opened :
          /\ Open(c)
          /\ m_used_list' = m_used_list \cup {c}
          /\ conn' = [conn EXCEPT ![t] = c]
          /\ pc' = [pc EXCEPT ![t] = "holding"]
          /\ UNCHANGED m_free_list

(* GetDBConn from the lock to a return or to the wait. *)
EnterGet(t) ==
    /\ pc[t] = "entering"
    /\ \/ /\ m_abort_request
          /\ ReturnNull(t)
       \/ /\ ~m_abort_request /\ m_free_list # <<>>
          /\ TakeFront(t)
       \/ /\ ~m_abort_request /\ m_free_list = <<>> /\ MayGrow
          /\ CreateConn(t)
       \/ /\ ~m_abort_request /\ m_free_list = <<>> /\ ~MayGrow
          /\ pc' = [pc EXCEPT ![t] = "asleep"]
          /\ UNCHANGED <<poolVars, conn>>
    /\ UNCHANGED <<ready, m_abort_request, timed>>

(* The predicate of both waits; the mutant forgets the abort request. *)
WaitOverIgnoresAbort == m_free_list # <<>>
WaitOver == m_free_list # <<>> \/ m_abort_request

(* The check of line 213; the mutant makes it on an empty list only.       *)
AbortCheckIfEmpty == m_abort_request /\ m_free_list = <<>>
AbortCheck == m_abort_request

(* Lines 209-217 and 236-239: what follows wait and wait_for. *)
AfterWait(t) ==
    IF AbortCheck \/ (timed[t] /\ m_free_list = <<>>) THEN ReturnNull(t) ELSE TakeFront(t)

(* A notified thread has the mutex again: it leaves the wait if the        *)
(* predicate holds and waits again otherwise.                              *)
Wake(t) ==
    /\ pc[t] = "notified"
    /\ \/ WaitOver /\ AfterWait(t)
       \/ /\ ~WaitOver
          /\ pc' = [pc EXCEPT ![t] = "asleep"]
          /\ UNCHANGED <<poolVars, conn>>
    /\ UNCHANGED <<ready, m_abort_request, timed>>

(* wait_for gives up: it returns whatever the predicate says by now. *)
Timeout(t) ==
    /\ pc[t] \in Waiting
    /\ timed[t]
    /\ AfterWait(t)
    /\ UNCHANGED <<ready, m_abort_request, timed>>

(* std::condition_variable may wake a thread nobody notified. *)
SpuriousWakeup(t) ==
    /\ pc[t] = "asleep"
    /\ pc' = [pc EXCEPT ![t] = "notified"]
    /\ UNCHANGED <<ready, poolVars, m_abort_request, timed, conn>>
-----------------------------------------------------------------------------
CallRel(t) ==
    /\ ready /\ ~m_abort_request
    /\ pc[t] = "holding"
    /\ pc' = [pc EXCEPT ![t] = "returning"]
    /\ UNCHANGED <<ready, poolVars, m_abort_request, timed, conn>>

(* A release that notifies nobody (mutant). *)
NotifyNobody(t) == pc' = [pc EXCEPT ![t] = "idle"]

(* m_cond_var.notify_one() by a thread that goes back to "idle" itself. *)
NotifyOne(t) ==
    \/ \E w \in Threads :
          /\ pc[w] = "asleep"
          /\ pc' = [pc EXCEPT ![w] = "notified", ![t] = "idle"]
    \/ /\ \A w \in Threads : pc[w] # "asleep"
       /\ pc' = [pc EXCEPT ![t] = "idle"]

(* RelDBConn.  The search loop meant to find pConn in the free list has    *)
(* `*it = pConn` for its test: on a free list that is not empty it stores  *)
(* pConn over the first entry and stops there, so the call takes the error *)
(* branch, and what the first entry held is in no list any more.           *)
RelDBConn(t) ==
    /\ pc[t] = "returning"
    /\ \/ /\ m_free_list = <<>>
          /\ m_used_list' = m_used_list \ {conn[t]}
          /\ m_free_list' = Append(m_free_list, conn[t])
          /\ NotifyOne(t)
       \/ /\ m_free_list # <<>>
          /\ m_free_list' = [m_free_list EXCEPT ![1] = conn[t]]
          /\ pc' = [pc EXCEPT ![t] = "idle"]
          /\ UNCHANGED m_used_list
    /\ conn' = [conn EXCEPT ![t] = NoConn]
    /\ UNCHANGED <<ready, m_db_cur_conn_cnt, m_abort_request, opened, timed>>

(* ~CDBPool: abort, wake every waiter, delete the idle connections.        *)
Destroy ==
    /\ ready /\ ~m_abort_request
    /\ m_abort_request' = TRUE
    /\ pc' = [t \in Threads |-> IF pc[t] = "asleep" THEN "notified" ELSE pc[t]]
    /\ opened' = opened \ FreeConns
    /\ m_free_list' = <<>>
    /\ UNCHANGED <<ready, m_used_list, m_db_cur_conn_cnt, timed, conn>>

(* The end: the destructor has run and no call is under way. *)
Finished ==
    /\ m_abort_request
    /\ \A t \in Threads : pc[t] \in {"idle", "holding"}
    /\ UNCHANGED vars

Get(t) == (\E b \in BOOLEAN : CallGet(t, b)) \/ EnterGet(t) \/ Wake(t) \/ Timeout(t)
Rel(t) == CallRel(t) \/ RelDBConn(t)

Next == \/ PoolInit
        \/ \E t \in Threads : Get(t) \/ Rel(t) \/ SpuriousWakeup(t)
        \/ Destroy
        \/ Finished

Spec == Init /\ [][Next]_vars

(* A thread that is inside a call keeps running: the mutex is only held    *)
(* for finite sections and a notified thread gets it back.  Nothing obliges*)
(* a caller to call, a timeout to expire or the owner to destroy the pool. *)
Fairness == \A t \in Threads : WF_vars(EnterGet(t) \/ Wake(t) \/ RelDBConn(t))

FairSpec == Spec /\ Fairness
-----------------------------------------------------------------------------
(* Every variable has its type, and the pool never counts more connections *)
(* than the constructor's max_conn_cnt allows.                             *)
TypeOK ==
    /\ ready \in BOOLEAN
    /\ m_abort_request \in BOOLEAN
    /\ m_free_list \in Seq(Conns)
    /\ m_used_list \subseteq Conns
    /\ opened \subseteq Conns
    /\ m_db_cur_conn_cnt \in MIN_DB_CONN_CNT..m_db_max_conn_cnt
    /\ pc \in [Threads -> {"idle", "entering", "asleep", "notified",
                           "holding", "returning"}]
    /\ timed \in [Threads -> BOOLEAN]
    /\ conn \in [Threads -> Conns \cup {NoConn}]

(* A connection a caller got from GetDBConn and has not released is a live *)
(* object (the destructor has not deleted it), is not idle in the pool and *)
(* is nobody else's, however releases, waits and the destructor interleave *)
(* and whatever RelDBConn overwrites in the free list.                     *)
ExclusiveUse ==
    /\ \A t \in Threads : HasConn(t) => conn[t] \in opened \ FreeConns
    /\ \A t, u \in Threads : HasConn(t) /\ HasConn(u) /\ conn[t] = conn[u] => t = u

(* No lost wake-up: if a thread sleeps in GetDBConn while a connection is  *)
(* idle, some thread has been notified and will look at the free list.     *)
(* RelDBConn's error branch stores a connection and notifies nobody; this  *)
(* says that doing so never strands a sleeper.                             *)
NoLostWakeup ==
    (m_free_list # <<>> /\ \E t \in Threads : pc[t] = "asleep")
        => \E t \in Threads : pc[t] = "notified"

(* A thread sleeps in GetDBConn only while some other thread can end that: *)
(* one that holds a connection or is releasing it, or one already notified.*)
(* The connections RelDBConn loses never leave the pool with waiters and   *)
(* no connection at all.                                                   *)
NobodyWaitsInVain ==
    (\E t \in Threads : pc[t] = "asleep")
        => \E t \in Threads : pc[t] \in {"notified", "holding", "returning"}

(* While the pool is open, m_db_cur_conn_cnt is the number of connections  *)
(* that exist, through failed connects and lost connections alike.         *)
ConnCountExact ==
    ready /\ ~m_abort_request => m_db_cur_conn_cnt = Cardinality(opened)

(* Once the destructor runs, every call under way ends: no thread stays    *)
(* blocked in GetDBConn or RelDBConn.                                      *)
AbortEndsEveryCall ==
    m_abort_request ~> \A t \in Threads : pc[t] \in {"idle", "holding"}

(* A connection does not stay idle while a thread waits for one: either it *)
(* is handed out or nobody waits any more.                                 *)
IdleConnIsHandedOut ==
    (m_free_list # <<>> /\ \E t \in Threads : pc[t] \in Waiting)
        ~> (m_free_list = <<>> \/ \A t \in Threads : pc[t] \notin Waiting)

(* DBPool.h:64 says RelDBConn gives the connection back: while the pool is *)
(* open, every connection that exists is idle in the pool or with a caller.*)
NoConnLost ==
    ready /\ ~m_abort_request
        => opened = FreeConns \cup {conn[t] : t \in {u \in Threads : HasConn(u)}}

(* The pool implements the lease: a thread that has a connection leases it,*)
(* and the lease office closes when the destructor begins.                 *)
Lease == INSTANCE ConnLease WITH
            leases <- {<<t, conn[t]>> : t \in {u \in Threads : HasConn(u)}},
            closed <- m_abort_request,
            Limit <- m_db_max_conn_cnt

(* Every step of the pool is a lease, a return, the closing or invisible:  *)
(* no connection is given out twice, never more of them than max_conn_cnt  *)
(* are out, whatever was lost or failed to connect, and none is given out  *)
(* once the destructor has begun, even to a thread inside GetDBConn.       *)
ImplementsLease == Lease!Spec
=============================================================================
