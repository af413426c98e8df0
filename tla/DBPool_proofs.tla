--------------------------- MODULE DBPool_proofs ---------------------------
(***************************************************************************)
(* Proofs about DBPool, and about DBConn on top of it, for every set of    *)
(* threads and connections and every max_conn_cnt.                         *)
(***************************************************************************)
EXTENDS DBConn, FiniteSetTheorems, TLAPS

(* The free list never has more than one entry: RelDBConn appends only to  *)
(* an empty list, and GetDBConn creates only when the list is empty.       *)
OneIdle == m_free_list = <<>> \/ \E c \in Conns : m_free_list = <<c>>

(* What else the safety properties need to be inductive. *)
Support ==
    /\ FreeConns \subseteq opened
    /\ ~ready => m_free_list = <<>> /\ \A t \in Threads : pc[t] = "idle"
    /\ m_abort_request => \A t \in Threads : pc[t] # "asleep"
    /\ ready /\ ~m_abort_request => m_free_list # <<>> \/ \E t \in Threads : HasConn(t)

IInv == TypeOK /\ OneIdle /\ Support /\ ExclusiveUse /\ NoLostWakeup

(* What the list operations of DBPool do on lists of at most one entry. *)
LEMMA ShortLists ==
    /\ {<<>>[i] : i \in DOMAIN <<>>} = {}
    /\ \A c : /\ <<c>> # <<>>
              /\ {<<c>>[i] : i \in DOMAIN <<c>>} = {c}
              /\ Head(<<c>>) = c
              /\ Tail(<<c>>) = <<>>
              /\ Append(<<>>, c) = <<c>>
              /\ \A d : [<<c>> EXCEPT ![1] = d] = <<d>>
    /\ <<>> \in Seq(Conns)
    /\ \A c \in Conns : <<c>> \in Seq(Conns)
  OBVIOUS

LEMMA IdleSet ==
  ASSUME IInv
  PROVE  \/ m_free_list = <<>> /\ FreeConns = {}
         \/ \E c \in Conns : m_free_list = <<c>> /\ FreeConns = {c}
  BY ShortLists DEF IInv, OneIdle, FreeConns

(* A thread that takes the front connection keeps the invariant. *)
LEMMA TakeFrontKeeps ==
  ASSUME IInv, NEW t \in Threads, ~HasConn(t), ready, ~m_abort_request,
         m_free_list # <<>>, TakeFront(t),
         UNCHANGED <<ready, m_abort_request, timed>>
  PROVE  IInv'
<1>1. PICK c \in Conns : m_free_list = <<c>> /\ FreeConns = {c}
  BY IdleSet
<1>2. /\ m_free_list' = <<>> /\ FreeConns' = {}
      /\ conn' = [conn EXCEPT ![t] = c]
      /\ pc' = [pc EXCEPT ![t] = "holding"]
      /\ UNCHANGED <<m_db_cur_conn_cnt, opened>>
      /\ m_used_list' = m_used_list \cup {c}
  BY <1>1, ShortLists DEF TakeFront, Popped, FreeConns
<1>3. TypeOK'
  BY <1>2, ShortLists DEF IInv, TypeOK
<1>4. OneIdle' /\ NoLostWakeup'
  BY <1>2 DEF OneIdle, NoLostWakeup
<1>5. Support'
  BY <1>2 DEF IInv, Support, TypeOK, HasConn
<1>6. ExclusiveUse'
  BY <1>1, <1>2 DEF IInv, ExclusiveUse, Support, TypeOK, HasConn
<1> QED
  BY <1>3, <1>4, <1>5, <1>6 DEF IInv

(* A thread that returns without a connection keeps the invariant, unless  *)
(* it was the one notified about an idle connection.                       *)
LEMMA ReturnNullKeeps ==
  ASSUME IInv, NEW t \in Threads, ~HasConn(t), ReturnNull(t),
         pc[t] # "notified" \/ m_free_list = <<>> \/ m_abort_request,
         UNCHANGED <<ready, m_abort_request, timed>>
  PROVE  IInv'
<1>1. /\ pc' = [pc EXCEPT ![t] = "idle"]
      /\ UNCHANGED <<m_free_list, m_used_list, m_db_cur_conn_cnt, opened, conn>>
      /\ FreeConns' = FreeConns
  BY DEF ReturnNull, poolVars, FreeConns
<1>2. TypeOK' /\ OneIdle'
  BY <1>1 DEF IInv, TypeOK, OneIdle
<1>3. Support' /\ ExclusiveUse'
  BY <1>1 DEF IInv, Support, ExclusiveUse, TypeOK, HasConn
<1>4. NoLostWakeup'
  BY <1>1 DEF IInv, NoLostWakeup, TypeOK, Support
<1> QED
  BY <1>2, <1>3, <1>4 DEF IInv

(* A thread that creates a connection, or fails to, keeps the invariant. *)
LEMMA CreateConnKeeps ==
  ASSUME IInv, NEW t \in Threads, pc[t] = "entering", ~m_abort_request,
         m_free_list = <<>>, MayGrow, CreateConn(t),
         UNCHANGED <<ready, m_abort_request, timed>>
  PROVE  IInv'
<1>1. CASE ReturnNull(t)
  BY <1>1, ReturnNullKeeps DEF HasConn
<1>2. CASE ~ReturnNull(t)
  <2>1. PICK c \in Conns \ opened :
          /\ opened' = opened \cup {c}
          /\ m_db_cur_conn_cnt' = m_db_cur_conn_cnt + 1
          /\ m_used_list' = m_used_list \cup {c}
          /\ conn' = [conn EXCEPT ![t] = c]
          /\ pc' = [pc EXCEPT ![t] = "holding"]
          /\ UNCHANGED m_free_list
    BY <1>2 DEF CreateConn, Open
  <2>2. FreeConns = {} /\ FreeConns' = {}
    BY <2>1, ShortLists DEF FreeConns
  <2>3. TypeOK'
    BY <2>1, MaxAssumption DEF IInv, TypeOK, MIN_DB_CONN_CNT, MayGrow
  <2>4. OneIdle' /\ NoLostWakeup'
    BY <2>1 DEF OneIdle, NoLostWakeup
  <2>5. Support'
    BY <2>1, <2>2 DEF IInv, Support, TypeOK, HasConn
  <2>6. ExclusiveUse'
    BY <2>1, <2>2 DEF IInv, ExclusiveUse, TypeOK, HasConn
  <2> QED
    BY <2>3, <2>4, <2>5, <2>6 DEF IInv
<1> QED
  BY <1>1, <1>2

(* A thread that goes to sleep, having found nothing, keeps the invariant. *)
LEMMA SleepKeeps ==
  ASSUME IInv, NEW t \in Threads, ~HasConn(t), ready, ~m_abort_request,
         m_free_list = <<>>, pc' = [pc EXCEPT ![t] = "asleep"],
         UNCHANGED <<ready, poolVars, m_abort_request, timed, conn>>
  PROVE  IInv'
<1>1. /\ UNCHANGED <<m_free_list, m_used_list, m_db_cur_conn_cnt, opened>>
      /\ FreeConns' = FreeConns
  BY DEF poolVars, FreeConns
<1>2. TypeOK' /\ OneIdle' /\ NoLostWakeup'
  BY <1>1 DEF IInv, TypeOK, OneIdle, NoLostWakeup
<1>3. Support' /\ ExclusiveUse'
  BY <1>1 DEF IInv, Support, ExclusiveUse, TypeOK, HasConn
<1> QED
  BY <1>2, <1>3 DEF IInv

(* So does what a thread does after wait or wait_for. *)
LEMMA AfterWaitKeeps ==
  ASSUME IInv, NEW t \in Threads, pc[t] \in Waiting, ready, AfterWait(t),
         WaitOver \/ timed[t], UNCHANGED <<ready, m_abort_request, timed>>
  PROVE  IInv'
<1> ~HasConn(t)
  BY DEF Waiting, HasConn
<1>1. CASE m_abort_request \/ (timed[t] /\ m_free_list = <<>>)
  BY <1>1, ReturnNullKeeps DEF AfterWait, AbortCheck
<1>2. CASE ~(m_abort_request \/ (timed[t] /\ m_free_list = <<>>))
  BY <1>2, TakeFrontKeeps DEF AfterWait, AbortCheck, WaitOver
<1> QED
  BY <1>1, <1>2

LEMMA RelDBConnKeeps ==
  ASSUME IInv, NEW t \in Threads, RelDBConn(t)
  PROVE  IInv'
<1> DEFINE d == conn[t]
<1>1. /\ pc[t] = "returning" /\ HasConn(t) /\ ready
      /\ d \in opened \ FreeConns /\ d \in Conns
      /\ conn' = [conn EXCEPT ![t] = NoConn]
      /\ UNCHANGED <<ready, m_db_cur_conn_cnt, m_abort_request, opened, timed>>
      /\ m_used_list' \subseteq m_used_list
  BY DEF RelDBConn, HasConn, IInv, ExclusiveUse, Support, TypeOK
<1>2. m_free_list' = <<d>> /\ FreeConns' = {d}
  <2>1. m_free_list' = <<d>>
    <3>1. CASE m_free_list = <<>>
      BY <3>1, ShortLists DEF RelDBConn
    <3>2. ASSUME NEW c \in Conns, m_free_list = <<c>>
          PROVE  m_free_list' = <<d>>
      BY <3>2, ShortLists DEF RelDBConn
    <3> QED
      BY <3>1, <3>2, IdleSet
  <2> QED
    BY <2>1, ShortLists DEF FreeConns
<1>3. CASE m_free_list = <<>> /\ NotifyOne(t)
  <2>1. TypeOK' /\ OneIdle'
    BY <1>1, <1>2, <1>3, ShortLists DEF IInv, TypeOK, OneIdle, NotifyOne
  <2>2. NoLostWakeup'
    BY <1>1, <1>3 DEF IInv, NoLostWakeup, TypeOK, NotifyOne
  <2>3. Support' /\ ExclusiveUse'
    BY <1>1, <1>2, <1>3 DEF IInv, Support, ExclusiveUse, TypeOK, HasConn, NotifyOne
  <2> QED
    BY <2>1, <2>2, <2>3 DEF IInv
<1>4. CASE m_free_list # <<>> /\ pc' = [pc EXCEPT ![t] = "idle"]
  <2>1. TypeOK' /\ OneIdle'
    BY <1>1, <1>2, <1>4, ShortLists DEF IInv, TypeOK, OneIdle
  <2>2. NoLostWakeup'
    BY <1>1, <1>4 DEF IInv, NoLostWakeup, TypeOK
  <2>3. Support' /\ ExclusiveUse'
    BY <1>1, <1>2, <1>4 DEF IInv, Support, ExclusiveUse, TypeOK, HasConn
  <2> QED
    BY <2>1, <2>2, <2>3 DEF IInv
<1> QED
  BY <1>3, <1>4 DEF RelDBConn

LEMMA DestroyKeeps ==
  ASSUME IInv, Destroy
  PROVE  IInv'
<1>1. /\ m_abort_request' = TRUE
      /\ pc' = [t \in Threads |-> IF pc[t] = "asleep" THEN "notified" ELSE pc[t]]
      /\ opened' = opened \ FreeConns
      /\ m_free_list' = <<>> /\ FreeConns' = {}
      /\ UNCHANGED <<ready, m_used_list, m_db_cur_conn_cnt, timed, conn>>
      /\ ready
  BY ShortLists DEF Destroy, FreeConns
<1>2. TypeOK' /\ OneIdle' /\ NoLostWakeup'
  BY <1>1, ShortLists DEF IInv, TypeOK, OneIdle, NoLostWakeup
<1>3. \A t \in Threads : HasConn(t)' = HasConn(t)
  BY <1>1 DEF HasConn, IInv, TypeOK
<1>4. Support' /\ ExclusiveUse'
  BY <1>1, <1>3 DEF IInv, Support, ExclusiveUse, TypeOK
<1> QED
  BY <1>2, <1>4 DEF IInv

(* The invariant is inductive. *)
LEMMA IInvStep ==
  ASSUME IInv, [Next]_vars
  PROVE  IInv'
<1>1. CASE PoolInit
  <2>1. PICK c \in Conns \ opened : /\ m_free_list' = Append(m_free_list, c)
                                    /\ opened' = opened \cup {c}
    BY <1>1 DEF PoolInit
  <2>2. m_free_list' = <<c>> /\ FreeConns' = {c}
    BY <1>1, <2>1, ShortLists DEF PoolInit, IInv, Support, FreeConns
  <2>3. /\ ready' /\ \A t \in Threads : pc[t] = "idle"
        /\ UNCHANGED <<m_used_list, m_db_cur_conn_cnt, m_abort_request, pc, timed, conn>>
    BY <1>1 DEF PoolInit, IInv, Support
  <2> QED
    BY <2>1, <2>2, <2>3, ShortLists DEF IInv, TypeOK, OneIdle, Support, ExclusiveUse,
       NoLostWakeup, HasConn
<1>2. ASSUME NEW t \in Threads, NEW b \in BOOLEAN, CallGet(t, b)
      PROVE  IInv'
  BY <1>2, SMTT(30) DEF CallGet, poolVars, IInv, TypeOK, OneIdle, Support, ExclusiveUse,
     NoLostWakeup, HasConn, FreeConns
<1>3. ASSUME NEW t \in Threads, EnterGet(t)
      PROVE  IInv'
  <2>1. ready /\ ~HasConn(t) /\ pc[t] = "entering"
        /\ UNCHANGED <<ready, m_abort_request, timed>>
    BY <1>3 DEF EnterGet, HasConn, IInv, Support
  <2>2. CASE m_abort_request /\ ReturnNull(t)
    BY <2>1, <2>2, ReturnNullKeeps
  <2>3. CASE ~m_abort_request /\ m_free_list # <<>> /\ TakeFront(t)
    BY <2>1, <2>3, TakeFrontKeeps
  <2>4. CASE /\ ~m_abort_request /\ m_free_list = <<>>
             /\ MayGrow /\ CreateConn(t)
    BY <2>1, <2>4, CreateConnKeeps
  <2>5. CASE /\ ~m_abort_request /\ m_free_list = <<>>
             /\ pc' = [pc EXCEPT ![t] = "asleep"] /\ UNCHANGED <<poolVars, conn>>
    BY <2>1, <2>5, SleepKeeps
  <2> QED
    BY <1>3, <2>2, <2>3, <2>4, <2>5 DEF EnterGet
<1>4. ASSUME NEW t \in Threads, Wake(t)
      PROVE  IInv'
  <2>1. ready /\ ~HasConn(t) /\ pc[t] \in Waiting
        /\ UNCHANGED <<ready, m_abort_request, timed>>
    BY <1>4 DEF Wake, Waiting, HasConn, IInv, Support
  <2>2. CASE WaitOver /\ AfterWait(t)
    BY <2>1, <2>2, AfterWaitKeeps
  <2>3. CASE ~WaitOver /\ pc' = [pc EXCEPT ![t] = "asleep"] /\ UNCHANGED <<poolVars, conn>>
    BY <2>1, <2>3, SleepKeeps DEF WaitOver
  <2> QED
    BY <1>4, <2>2, <2>3 DEF Wake
<1>5. ASSUME NEW t \in Threads, Timeout(t)
      PROVE  IInv'
  BY <1>5, AfterWaitKeeps DEF Timeout, Waiting, IInv, Support
<1>6. ASSUME NEW t \in Threads, SpuriousWakeup(t)
      PROVE  IInv'
  BY <1>6, SMTT(30) DEF SpuriousWakeup, poolVars, IInv, TypeOK, OneIdle, Support,
     ExclusiveUse, NoLostWakeup, HasConn, FreeConns
<1>7. ASSUME NEW t \in Threads, CallRel(t)
      PROVE  IInv'
  BY <1>7, SMTT(30) DEF CallRel, poolVars, IInv, TypeOK, OneIdle, Support,
     ExclusiveUse, NoLostWakeup, HasConn, FreeConns
<1>8. CASE UNCHANGED vars
  BY <1>8, SMTT(30) DEF vars, IInv, TypeOK, OneIdle, Support, ExclusiveUse,
     NoLostWakeup, HasConn, FreeConns
<1> QED
  BY <1>1, <1>2, <1>3, <1>4, <1>5, <1>6, <1>7, <1>8, RelDBConnKeeps, DestroyKeeps
  DEF Next, Get, Rel, Finished

LEMMA IInvInit == Init => IInv
<1> SUFFICES ASSUME Init PROVE IInv
  OBVIOUS
<1>1. TypeOK
  <2>1. m_db_cur_conn_cnt \in MIN_DB_CONN_CNT..m_db_max_conn_cnt
    BY MaxAssumption DEF Init, MIN_DB_CONN_CNT
  <2>2. m_free_list \in Seq(Conns)
    BY ShortLists DEF Init
  <2> QED
    BY <2>1, <2>2 DEF Init, TypeOK
<1>2. FreeConns = {}
  BY ShortLists DEF Init, FreeConns
<1>3. \A t \in Threads : ~HasConn(t) /\ pc[t] = "idle"
  BY DEF Init, HasConn
<1> QED
  BY <1>1, <1>2, <1>3 DEF Init, IInv, OneIdle, Support, ExclusiveUse, NoLostWakeup

LEMMA IInvAlways == Spec => []IInv
  BY IInvInit, IInvStep, PTL DEF Spec

(* Every variable keeps its type and the pool its bound. *)
THEOREM TypeCorrect == Spec => []TypeOK
  BY IInvAlways, PTL DEF IInv

(* No connection is ever used by two callers, used after the destructor    *)
(* deleted it, or idle and in use at once.                                 *)
THEOREM UseIsExclusive == Spec => []ExclusiveUse
  BY IInvAlways, PTL DEF IInv

(* No sleeper is left behind while a connection is idle. *)
THEOREM WakeupsAreNotLost == Spec => []NoLostWakeup
  BY IInvAlways, PTL DEF IInv

(* A sleeper always has somebody who can end its wait. *)
THEOREM WaitersHaveSuppliers == Spec => []NobodyWaitsInVain
<1>1. IInv => NobodyWaitsInVain
  BY DEF IInv, Support, NoLostWakeup, NobodyWaitsInVain, HasConn
<1> QED
  BY <1>1, IInvAlways, PTL

(* m_db_cur_conn_cnt counts the connections that exist, from the one that  *)
(* init() is going to make to the destructor.                              *)
CountInv ==
    /\ ~ready => opened = {} /\ m_db_cur_conn_cnt = MIN_DB_CONN_CNT
    /\ ready /\ ~m_abort_request
         => IsFiniteSet(opened) /\ m_db_cur_conn_cnt = Cardinality(opened)

LEMMA CountStep ==
  ASSUME IInv, CountInv, [Next]_vars
  PROVE  CountInv'
<1>1. CASE PoolInit
  <2>1. PICK c \in Conns : opened' = {c}
    BY <1>1 DEF PoolInit, CountInv
  <2>2. IsFiniteSet(opened') /\ Cardinality(opened') = 1
    BY <2>1, FS_Singleton
  <2> QED
    BY <1>1, <2>2 DEF PoolInit, CountInv, MIN_DB_CONN_CNT
<1>2. ASSUME NEW t \in Threads, EnterGet(t), CreateConn(t), ~m_abort_request
      PROVE  CountInv'
  <2>1. ready /\ UNCHANGED <<ready, m_abort_request>>
    BY <1>2 DEF EnterGet, IInv, Support
  <2>2. CASE ReturnNull(t)
    BY <2>1, <2>2 DEF ReturnNull, poolVars, CountInv
  <2>3. CASE \E c \in Conns \ opened : /\ opened' = opened \cup {c}
                                       /\ m_db_cur_conn_cnt' = m_db_cur_conn_cnt + 1
    BY <1>2, <2>1, <2>3, FS_AddElement DEF CountInv
  <2> QED
    BY <1>2, <2>2, <2>3 DEF CreateConn, Open
<1>3. CASE Destroy
  BY <1>3 DEF Destroy, CountInv
<1>4. CASE UNCHANGED <<ready, m_abort_request, opened, m_db_cur_conn_cnt>>
  BY <1>4 DEF CountInv
<1>5. ASSUME NEW t \in Threads, EnterGet(t), ~(CreateConn(t) /\ ~m_abort_request)
      PROVE  UNCHANGED <<ready, m_abort_request, opened, m_db_cur_conn_cnt>>
  BY <1>5 DEF EnterGet, ReturnNull, TakeFront, poolVars
<1>6. ASSUME NEW t \in Threads, Wake(t) \/ Timeout(t)
      PROVE  UNCHANGED <<ready, m_abort_request, opened, m_db_cur_conn_cnt>>
  BY <1>6 DEF Wake, Timeout, AfterWait, ReturnNull, TakeFront, poolVars
<1>7. ASSUME NEW t \in Threads, \/ \E b \in BOOLEAN : CallGet(t, b)
                                \/ Rel(t) \/ SpuriousWakeup(t)
      PROVE  UNCHANGED <<ready, m_abort_request, opened, m_db_cur_conn_cnt>>
  BY <1>7 DEF CallGet, Rel, CallRel, RelDBConn, SpuriousWakeup, poolVars
<1> QED
  BY <1>1, <1>2, <1>3, <1>4, <1>5, <1>6, <1>7 DEF Next, Get, Finished, vars

(* The count is exact. *)
THEOREM CountIsExact == Spec => []ConnCountExact
<1>1. Init => CountInv
  BY DEF Init, CountInv
<1>2. CountInv => ConnCountExact
  BY DEF CountInv, ConnCountExact
<1> QED
  BY <1>1, <1>2, IInvAlways, CountStep, PTL DEF Spec
-----------------------------------------------------------------------------
(* The refinement. *)
Leases == {<<t, conn[t]>> : t \in {u \in Threads : HasConn(u)}}

LEMMA LeasesUnchanged ==
  ASSUME TypeOK, UNCHANGED conn, \A t \in Threads : HasConn(t)' = HasConn(t)
  PROVE  Leases' = Leases
  BY DEF Leases, TypeOK

(* ConnLease counts with its own instance of FiniteSets. *)
LEMMA SameCount == \A S : Lease!Cardinality(S) = Cardinality(S)
  BY Zenon DEF Lease!Cardinality, Cardinality

(* Leases are counted by their connections. *)
LEMMA FewLeases ==
  ASSUME IInv, NEW S, IsFiniteSet(S), \A u \in Threads : HasConn(u) => conn[u] \in S
  PROVE  IsFiniteSet(Leases) /\ Cardinality(Leases) <= Cardinality(S)
<1> DEFINE f == [l \in Leases |-> l[2]]
<1>1. \A l \in Leases : \E u \in Threads : HasConn(u) /\ l = <<u, conn[u]>>
  BY DEF Leases
<1>2. f \in [Leases -> S]
  BY <1>1
<1>3. \A l, m \in Leases : f[l] = f[m] => l = m
  <2> TAKE l, m \in Leases
  <2>1. PICK u \in Threads : HasConn(u) /\ l = <<u, conn[u]>>
    BY <1>1
  <2>2. PICK v \in Threads : HasConn(v) /\ m = <<v, conn[v]>>
    BY <1>1
  <2>3. f[l] = conn[u] /\ f[m] = conn[v]
    BY <2>1, <2>2
  <2> QED
    BY <2>1, <2>2, <2>3 DEF IInv, ExclusiveUse
<1>4. f \in Injection(Leases, S)
  BY <1>2, <1>3, Zenon DEF Injection, IsInjective
<1> QED
  BY <1>4, FS_Injection

(* One more lease fits if its connection is nobody's. *)
LEMMA LeaseFits ==
  ASSUME IInv, CountInv, ready, ~m_abort_request, NEW c \in Conns,
         c \in opened \/ MayGrow,
         \A u \in Threads : HasConn(u) => conn[u] # c
  PROVE  Cardinality(Leases) < m_db_max_conn_cnt
<1>1. /\ IsFiniteSet(opened) /\ m_db_cur_conn_cnt = Cardinality(opened)
      /\ \A u \in Threads : HasConn(u) => conn[u] \in opened
      /\ m_db_cur_conn_cnt \in Nat /\ m_db_cur_conn_cnt <= m_db_max_conn_cnt
      /\ m_db_max_conn_cnt \in Nat
  BY MaxAssumption DEF CountInv, IInv, ExclusiveUse, TypeOK, MIN_DB_CONN_CNT
<1>2. CASE c \in opened
  <2>1. IsFiniteSet(opened \ {c}) /\ Cardinality(opened \ {c}) = m_db_cur_conn_cnt - 1
    BY <1>1, <1>2, FS_RemoveElement
  <2>2. IsFiniteSet(Leases) /\ Cardinality(Leases) <= Cardinality(opened \ {c})
    BY <1>1, <2>1, FewLeases
  <2>3. Cardinality(Leases) \in Nat
    BY <2>2, FS_CardinalityType
  <2> QED
    BY <1>1, <2>1, <2>2, <2>3
<1>3. CASE MayGrow
  <2>1. IsFiniteSet(Leases) /\ Cardinality(Leases) <= m_db_cur_conn_cnt
    BY <1>1, FewLeases
  <2>2. Cardinality(Leases) \in Nat
    BY <2>1, FS_CardinalityType
  <2> QED
    BY <1>1, <1>3, <2>1, <2>2 DEF MayGrow
<1> QED
  BY <1>2, <1>3

LEMMA StartsLease ==
  ASSUME IInv, CountInv, ready,
         NEW t \in Threads, NEW c \in Conns, ~HasConn(t), ~m_abort_request,
         c \in opened \/ MayGrow,
         \A u \in Threads : HasConn(u) => conn[u] # c,
         conn' = [conn EXCEPT ![t] = c], pc' = [pc EXCEPT ![t] = "holding"],
         UNCHANGED m_abort_request
  PROVE  Lease!Next
<1>1. Leases' = Leases \cup {<<t, c>>}
  BY DEF Leases, IInv, TypeOK, HasConn
<1>2. \A l \in Leases : l[1] # t /\ l[2] # c
  BY DEF Leases
<1>3. Lease!Cardinality(Leases) < m_db_max_conn_cnt
  BY LeaseFits, SameCount
<1> QED
  BY <1>1, <1>2, <1>3 DEF Lease!Next, Lease!Lease, Leases

LEMMA EndsLease ==
  ASSUME IInv, NEW t \in Threads, RelDBConn(t)
  PROVE  Lease!Next
<1>1. /\ HasConn(t) /\ conn[t] \in Conns
      /\ pc'[t] = "idle" /\ conn' = [conn EXCEPT ![t] = NoConn]
      /\ UNCHANGED m_abort_request
  BY DEF RelDBConn, NotifyOne, HasConn, IInv, ExclusiveUse, TypeOK
<1>2. \A u \in Threads : HasConn(u)' = (HasConn(u) /\ u # t)
  BY DEF RelDBConn, NotifyOne, HasConn, IInv, TypeOK
<1>3. Leases' = Leases \ {<<t, conn[t]>>}
  <2>1. \A u \in Threads : u # t => conn'[u] = conn[u]
    BY <1>1 DEF IInv, TypeOK
  <2>2. Leases' = {<<u, conn[u]>> : u \in {v \in Threads : HasConn(v) /\ v # t}}
    BY <1>2, <2>1 DEF Leases
  <2> QED
    BY <2>2 DEF Leases
<1>4. <<t, conn[t]>> \in Leases
  BY <1>1 DEF Leases
<1> QED
  BY <1>1, <1>3, <1>4 DEF Lease!Next, Lease!Return, Leases

LEMMA TakesLease ==
  ASSUME IInv, CountInv, ready, NEW t \in Threads, ~HasConn(t), ~m_abort_request,
         m_free_list # <<>>, TakeFront(t), UNCHANGED m_abort_request
  PROVE  Lease!Next
<1>1. PICK c \in Conns : m_free_list = <<c>> /\ FreeConns = {c}
  BY IdleSet
<1>2. conn' = [conn EXCEPT ![t] = c] /\ pc' = [pc EXCEPT ![t] = "holding"]
  BY <1>1, ShortLists DEF TakeFront, Popped
<1>3. /\ \A u \in Threads : HasConn(u) => conn[u] # c
      /\ c \in opened
  BY <1>1 DEF IInv, ExclusiveUse, Support
<1> QED
  BY <1>2, <1>3, StartsLease

LEMMA LeaseStep ==
  ASSUME IInv, CountInv, [Next]_vars
  PROVE  [Lease!Next]_Lease!leaseVars
<1> USE DEF Lease!leaseVars
<1>1. ASSUME UNCHANGED <<conn, m_abort_request>>,
             \A t \in Threads : HasConn(t)' = HasConn(t)
      PROVE  UNCHANGED Lease!leaseVars
  BY <1>1, LeasesUnchanged DEF Leases, IInv
<1>2. ASSUME NEW t \in Threads, EnterGet(t)
      PROVE  [Lease!Next]_Lease!leaseVars
  <2>1. ~HasConn(t) /\ UNCHANGED m_abort_request /\ ready
    BY <1>2 DEF EnterGet, HasConn, IInv, Support
  <2>2. CASE ~m_abort_request /\ m_free_list # <<>> /\ TakeFront(t)
    BY <2>1, <2>2, TakesLease
  <2>3. ASSUME NEW c \in Conns \ opened, ~m_abort_request, MayGrow,
               conn' = [conn EXCEPT ![t] = c], pc' = [pc EXCEPT ![t] = "holding"]
        PROVE  Lease!Next
    <3>1. \A u \in Threads : HasConn(u) => conn[u] # c
      BY <2>3 DEF IInv, ExclusiveUse
    <3> QED
      BY <2>1, <2>3, <3>1, StartsLease
  <2>4. CASE ReturnNull(t) \/ (pc' = [pc EXCEPT ![t] = "asleep"] /\ UNCHANGED conn)
    BY <2>1, <2>4, <1>1 DEF ReturnNull, IInv, TypeOK, HasConn
  <2> QED
    BY <1>2, <2>2, <2>3, <2>4 DEF EnterGet, CreateConn
<1>3. ASSUME NEW t \in Threads, pc[t] \in Waiting, UNCHANGED m_abort_request,
             AfterWait(t), WaitOver \/ timed[t]
      PROVE  [Lease!Next]_Lease!leaseVars
  <2>1. ~HasConn(t) /\ ready
    BY <1>3 DEF Waiting, HasConn, IInv, Support
  <2>2. CASE ReturnNull(t)
    BY <1>3, <2>1, <2>2, <1>1 DEF ReturnNull, IInv, TypeOK, HasConn
  <2>3. CASE ~ReturnNull(t)
    BY <1>3, <2>1, <2>3, TakesLease DEF AfterWait, AbortCheck, WaitOver
  <2> QED
    BY <2>2, <2>3
<1>4. ASSUME NEW t \in Threads, Wake(t)
      PROVE  [Lease!Next]_Lease!leaseVars
  <2>1. CASE WaitOver /\ AfterWait(t)
    BY <1>4, <2>1, <1>3 DEF Wake, Waiting
  <2>2. CASE pc' = [pc EXCEPT ![t] = "asleep"] /\ UNCHANGED <<poolVars, conn>>
    BY <1>4, <2>2, <1>1 DEF Wake, IInv, TypeOK, HasConn
  <2> QED
    BY <1>4, <2>1, <2>2 DEF Wake
<1>5. ASSUME NEW t \in Threads, Timeout(t)
      PROVE  [Lease!Next]_Lease!leaseVars
  BY <1>5, <1>3 DEF Timeout
<1>6. ASSUME NEW t \in Threads, \/ \E b \in BOOLEAN : CallGet(t, b)
                                \/ CallRel(t) \/ SpuriousWakeup(t)
      PROVE  [Lease!Next]_Lease!leaseVars
  BY <1>6, <1>1 DEF CallGet, CallRel, SpuriousWakeup, IInv, TypeOK, HasConn
<1>7. CASE PoolInit \/ UNCHANGED vars
  BY <1>7, <1>1 DEF PoolInit, vars, HasConn
<1>8. CASE Destroy
  <2>1. UNCHANGED conn /\ \A t \in Threads : HasConn(t)' = HasConn(t)
    BY <1>8 DEF Destroy, HasConn, IInv, TypeOK
  <2> QED
    BY <1>8, <2>1, LeasesUnchanged DEF Destroy, Lease!Next, Lease!Close, Leases, IInv
<1> QED
  BY <1>2, <1>4, <1>5, <1>6, <1>7, <1>8, EndsLease DEF Next, Get, Rel, Finished

(* The pool refines the lease: one caller per connection, one connection   *)
(* per call, at most max_conn_cnt of them, and no connection handed out    *)
(* after the destructor has begun.                                         *)
THEOREM PoolImplementsLease == Spec => ImplementsLease
<1>1. Init => Lease!Init
  BY DEF Init, HasConn, Lease!Init
<1>2. Init => CountInv
  BY DEF Init, CountInv
<1> QED
  BY <1>1, <1>2, IInvAlways, CountStep, LeaseStep, PTL DEF Spec, ImplementsLease, Lease!Spec
-----------------------------------------------------------------------------
(* Sessions.  What else SessionsAreTheirs and TransactionsAreKept need to  *)
(* be inductive: a write belongs to one transaction, open or over.         *)
SessTypeOK ==
    /\ written \in Nat
    /\ session \in [Conns -> [txn : BOOLEAN, pend : SUBSET (1..written)]]
    /\ mine \in [Threads -> SUBSET (1..written)]
    /\ db \subseteq 1..written
    /\ \A f \in fates : f.writes \subseteq 1..written
    /\ believes \subseteq Threads
    /\ intact \subseteq believes

OneTransactionEach ==
    /\ \A t \in Threads \ intact : mine[t] = {}
    /\ \A t, u \in intact : t # u => mine[t] \cap mine[u] = {}
    /\ \A t \in intact, f \in fates : f.writes \cap mine[t] = {}

SInv == /\ SessTypeOK
        /\ \A t \in believes : InUse(t)
        /\ OneTransactionEach
        /\ SessionsAreTheirs
        /\ TransactionsAreKept

(* The pool's part of a step changes no connection of a thread that keeps  *)
(* holding one.                                                            *)
LEMMA HeldConnStays ==
  ASSUME IInv, Next, NEW t \in Threads, InUse(t), InUse(t)'
  PROVE  conn'[t] = conn[t]
<1> USE DEF InUse
<1>1. \A u \in Threads : TakeFront(u) \/ CreateConn(u) => u = t \/ conn'[t] = conn[t]
  BY DEF TakeFront, CreateConn, ReturnNull, IInv, TypeOK
<1>2. ASSUME NEW u \in Threads, EnterGet(u)
      PROVE  conn'[t] = conn[t]
  BY <1>1, <1>2 DEF EnterGet, ReturnNull
<1>3. ASSUME NEW u \in Threads, Wake(u) \/ Timeout(u)
      PROVE  conn'[t] = conn[t]
  BY <1>1, <1>3 DEF Wake, Timeout, AfterWait, ReturnNull, Waiting
<1>4. ASSUME NEW u \in Threads, RelDBConn(u)
      PROVE  conn'[t] = conn[t]
  BY <1>4 DEF RelDBConn, IInv, TypeOK
<1>5. CASE UNCHANGED conn
  BY <1>5
<1> QED
  BY <1>2, <1>3, <1>4, <1>5
  DEF Next, Get, Rel, CallGet, CallRel, SpuriousWakeup, PoolInit, Destroy, Finished, vars

LEMMA PoolStepKeeps ==
  ASSUME IInv, SInv, PoolStep
  PROVE  SInv'
<1>1. UNCHANGED <<session, db, believes, intact, mine, written, fates>>
  BY DEF PoolStep, sessVars
<1>2. \A t \in intact : conn'[t] = conn[t]
  BY HeldConnStays DEF PoolStep, SInv, SessTypeOK
<1>3. SessTypeOK' /\ OneTransactionEach' /\ TransactionsAreKept'
  BY <1>1 DEF SInv, SessTypeOK, OneTransactionEach, TransactionsAreKept
<1>4. SessionsAreTheirs'
  BY <1>1, <1>2 DEF SInv, SessionsAreTheirs
<1> QED
  BY <1>1, <1>3, <1>4 DEF SInv, PoolStep

(* What a statement of t can do, in five kinds. *)
Nothing == /\ UNCHANGED <<session, db, intact, mine, fates>>
           /\ written' \in {written, written + 1}

Opens(t) == /\ t \notin intact
            /\ session' = [session EXCEPT ![conn[t]] = [txn |-> TRUE, pend |-> {}]]
            /\ intact' = intact \cup {t}
            /\ UNCHANGED <<db, mine, fates, written>>

WritesInside(t) ==
    /\ t \in intact
    /\ written' = written + 1
    /\ session' = [session EXCEPT ![conn[t]] =
                       [txn |-> TRUE, pend |-> mine[t] \cup {written + 1}]]
    /\ mine' = [mine EXCEPT ![t] = @ \cup {written + 1}]
    /\ UNCHANGED <<db, intact, fates>>

WritesOutside(t) ==
    /\ t \notin intact
    /\ written' = written + 1
    /\ db' \in {db, db \cup {written + 1}}
    /\ \/ fates' = fates
       \/ /\ fates' = fates \cup {[writes |-> {written + 1}, fate |-> "kept"]}
          /\ written + 1 \in db'
    /\ UNCHANGED <<session, intact, mine>>

Closes(t) ==
    /\ t \in intact
    /\ session' = [session EXCEPT ![conn[t]] = [txn |-> FALSE, pend |-> {}]]
    /\ \E fate \in {"kept", "undone", "unknown"} :
          /\ fates' = fates \cup {[writes |-> mine[t], fate |-> fate]}
          /\ db' \in {db, db \cup mine[t]}
          /\ fate = "kept" => db' = db \cup mine[t]
          /\ fate = "undone" => db' = db
    /\ intact' = intact \ {t}
    /\ mine' = [mine EXCEPT ![t] = {}]
    /\ written' \in {written, written + 1}

(* Where nothing but t's own writes reach the database, what has become of *)
(* the transactions that are over stays so.                                *)
LEMMA KeptStaysKept ==
  ASSUME NEW X, db' = db \cup X, TransactionsAreKept,
         \A f \in fates : f.writes \cap X = {}
  PROVE  \A f \in fates : /\ f.fate # "undone" /\ f.writes \cap db' # {} => f.writes \subseteq db'
                          /\ f.fate = "kept" => f.writes \subseteq db'
                          /\ f.fate = "undone" => f.writes \cap db' = {}
<1> TAKE f \in fates
<1>1. f.writes \cap db' = f.writes \cap db
  BY DEF TransactionsAreKept
<1>2. f.writes \subseteq db => f.writes \subseteq db'
  OBVIOUS
<1> QED
  BY <1>1, <1>2 DEF TransactionsAreKept

LEMMA NothingKeeps ==
  ASSUME SInv, Nothing, \A t \in believes' : InUse(t)', UNCHANGED conn,
         believes' \subseteq Threads, intact \subseteq believes'
  PROVE  SInv'
<1>1. SessTypeOK'
  BY DEF Nothing, SInv, SessTypeOK
<1>2. OneTransactionEach' /\ SessionsAreTheirs' /\ TransactionsAreKept'
  BY DEF Nothing, SInv, OneTransactionEach, SessionsAreTheirs, TransactionsAreKept
<1> QED
  BY <1>1, <1>2 DEF SInv

(* In the lemmas below t holds its connection and nobody else does.        *)
Alone(t) == /\ InUse(t) /\ conn[t] \in Conns
            /\ \A u \in intact : conn[u] \in Conns /\ (u # t => conn[u] # conn[t])

LEMMA OneSessionMoves ==
  ASSUME SInv, NEW t \in Threads, Alone(t), NEW s, session' = [session EXCEPT ![conn[t]] = s]
  PROVE  /\ session'[conn[t]] = s
         /\ \A c \in Conns : c # conn[t] => session'[c] = session[c]
         /\ \A u \in intact : u # t => session'[conn[u]] = session[conn[u]]
  BY DEF SInv, SessTypeOK, Alone

LEMMA OpensKeeps ==
  ASSUME SInv, NEW t \in Threads, Alone(t), Opens(t), UNCHANGED <<pc, conn>>,
         believes' = believes \cup {t}
  PROVE  SInv'
<1> USE DEF Opens
<1>1. SessTypeOK'
  <2>1. session' \in [Conns -> [txn : BOOLEAN, pend : SUBSET (1..written)]]
    <3>1. [txn |-> TRUE, pend |-> {}] \in [txn : BOOLEAN, pend : SUBSET (1..written)]
      OBVIOUS
    <3> QED
      BY <3>1 DEF SInv, SessTypeOK, Alone
  <2>2. believes' \subseteq Threads /\ intact' \subseteq believes'
    BY DEF SInv, SessTypeOK
  <2> QED
    BY <2>1, <2>2 DEF SInv, SessTypeOK
<1>2. mine[t] = {}
  BY DEF SInv, OneTransactionEach
<1>3. OneTransactionEach'
  BY <1>2 DEF SInv, OneTransactionEach
<1>4. TransactionsAreKept'
  BY DEF SInv, TransactionsAreKept
<1>5. SessionsAreTheirs'
  <2>a. /\ session'[conn[t]] = [txn |-> TRUE, pend |-> {}]
        /\ \A c \in Conns : c # conn[t] => session'[c] = session[c]
        /\ \A u \in intact : u # t => session'[conn[u]] = session[conn[u]]
    BY OneSessionMoves
  <2>1. \A u \in intact' : session'[conn[u]] = [txn |-> TRUE, pend |-> mine[u]] /\ mine[u] \cap db = {}
    BY <1>2, <2>a DEF SInv, SessionsAreTheirs
  <2>2. ASSUME NEW c \in Conns, \A u \in intact' : conn[u] # c
        PROVE  session'[c] = [txn |-> FALSE, pend |-> {}]
    BY <2>2, <2>a DEF SInv, SessionsAreTheirs
  <2> QED
    BY <2>1, <2>2 DEF SessionsAreTheirs
<1> QED
  BY <1>1, <1>3, <1>4, <1>5 DEF SInv, Alone, InUse

LEMMA WritesInsideKeeps ==
  ASSUME SInv, NEW t \in Threads, Alone(t), WritesInside(t), UNCHANGED <<pc, conn, believes>>
  PROVE  SInv'
<1> USE DEF WritesInside
<1>1. \A S \in SUBSET (1..written) : written + 1 \notin S /\ S \subseteq 1..(written + 1)
  BY DEF SInv, SessTypeOK
<1>2. written + 1 \in 1..(written + 1) /\ written + 1 \in Nat
  BY DEF SInv, SessTypeOK
<1>3. /\ mine'[t] = mine[t] \cup {written + 1}
      /\ \A u \in Threads \ {t} : mine'[u] = mine[u]
  BY DEF SInv, SessTypeOK
<1>4. SessTypeOK'
  <2>1. mine[t] \cup {written + 1} \in SUBSET (1..(written + 1))
    BY <1>1, <1>2 DEF SInv, SessTypeOK
  <2>2. session' \in [Conns -> [txn : BOOLEAN, pend : SUBSET (1..written')]]
    <3> DEFINE R == [txn : BOOLEAN, pend : SUBSET (1..(written + 1))]
    <3>1. [txn |-> TRUE, pend |-> mine[t] \cup {written + 1}] \in R
      BY <2>1
    <3>2. \A c \in Conns : session[c] \in R
      BY <1>1 DEF SInv, SessTypeOK
    <3>3. session' \in [Conns -> R]
      <4> HIDE DEF R
      <4> QED
        BY <3>1, <3>2 DEF SInv, SessTypeOK
    <3> QED
      BY <3>3
  <2>3. mine' \in [Threads -> SUBSET (1..written')]
    BY <1>1, <2>1 DEF SInv, SessTypeOK
  <2> QED
    BY <1>1, <1>2, <2>2, <2>3 DEF SInv, SessTypeOK
<1>5. OneTransactionEach'
  <2>1. \A u \in Threads : written + 1 \notin mine[u]
    BY <1>1 DEF SInv, SessTypeOK
  <2>2. \A f \in fates : written + 1 \notin f.writes
    BY <1>1 DEF SInv, SessTypeOK
  <2> QED
    BY <1>3, <2>1, <2>2 DEF SInv, OneTransactionEach, SessTypeOK
<1>6. TransactionsAreKept'
  BY DEF SInv, TransactionsAreKept
<1>7. SessionsAreTheirs'
  <2>a. /\ session'[conn[t]] = [txn |-> TRUE, pend |-> mine[t] \cup {written + 1}]
        /\ \A c \in Conns : c # conn[t] => session'[c] = session[c]
        /\ \A u \in intact : u # t => session'[conn[u]] = session[conn[u]]
    BY OneSessionMoves
  <2>1. written + 1 \notin db
    BY <1>1 DEF SInv, SessTypeOK
  <2>2. ASSUME NEW u \in intact
        PROVE  session'[conn[u]] = [txn |-> TRUE, pend |-> mine'[u]] /\ mine'[u] \cap db = {}
    <3>1. CASE u = t
      <4>1. mine[t] \cap db = {}
        BY DEF SInv, SessionsAreTheirs
      <4>2. mine'[t] \cap db = {}
        BY <4>1, <1>3, <2>1
      <4>3. session'[conn[t]] = [txn |-> TRUE, pend |-> mine'[t]]
        BY <1>3, <2>a
      <4> QED
        BY <3>1, <4>2, <4>3
    <3>2. CASE u # t
      BY <3>2, <1>3, <2>a DEF SInv, SessionsAreTheirs, SessTypeOK
    <3> QED
      BY <3>1, <3>2
  <2>3. ASSUME NEW c \in Conns, \A u \in intact : conn[u] # c
        PROVE  session'[c] = [txn |-> FALSE, pend |-> {}]
    BY <2>3, <2>a DEF SInv, SessionsAreTheirs
  <2> QED
    BY <2>2, <2>3 DEF SessionsAreTheirs
<1> QED
  BY <1>4, <1>5, <1>6, <1>7 DEF SInv, InUse

LEMMA WritesOutsideKeeps ==
  ASSUME SInv, NEW t \in Threads, Alone(t), WritesOutside(t), UNCHANGED <<pc, conn, believes>>
  PROVE  SInv'
<1> USE DEF WritesOutside
<1>1. \A S \in SUBSET (1..written) : written + 1 \notin S /\ S \subseteq 1..(written + 1)
  BY DEF SInv, SessTypeOK
<1>2. written + 1 \in 1..(written + 1) /\ written + 1 \in Nat
  BY DEF SInv, SessTypeOK
<1>3. \A u \in Threads : written + 1 \notin mine[u]
  BY <1>1 DEF SInv, SessTypeOK
<1>4. SessTypeOK'
  <2>1. session' \in [Conns -> [txn : BOOLEAN, pend : SUBSET (1..written')]]
    BY <1>1 DEF SInv, SessTypeOK
  <2>2. mine' \in [Threads -> SUBSET (1..written')]
    BY <1>1 DEF SInv, SessTypeOK
  <2>3. db' \subseteq 1..written'
    BY <1>1, <1>2 DEF SInv, SessTypeOK
  <2>4. \A f \in fates' : f.writes \subseteq 1..written'
    BY <1>1, <1>2 DEF SInv, SessTypeOK
  <2> QED
    BY <1>2, <2>1, <2>2, <2>3, <2>4 DEF SInv, SessTypeOK
<1>5. OneTransactionEach'
  <2>1. \A u \in intact, f \in fates' : f.writes \cap mine[u] = {}
    BY <1>3 DEF SInv, OneTransactionEach, SessTypeOK
  <2> QED
    BY <2>1 DEF SInv, OneTransactionEach
<1>6. TransactionsAreKept'
  <2>1. PICK X \in {{}, {written + 1}} : db' = db \cup X
    OBVIOUS
  <2>2. \A f \in fates : f.writes \cap X = {}
    BY <1>1, <2>1 DEF SInv, SessTypeOK
  <2> QED
    BY <2>1, <2>2, KeptStaysKept DEF SInv, TransactionsAreKept
<1>7. SessionsAreTheirs'
  BY <1>3 DEF SInv, SessionsAreTheirs, SessTypeOK
<1> QED
  BY <1>4, <1>5, <1>6, <1>7 DEF SInv, InUse

LEMMA ClosesKeeps ==
  ASSUME SInv, NEW t \in Threads, Alone(t), Closes(t), UNCHANGED <<pc, conn>>,
         believes' \in {believes, believes \ {t}}
  PROVE  SInv'
<1>1. PICK fate \in {"kept", "undone", "unknown"} :
          /\ fates' = fates \cup {[writes |-> mine[t], fate |-> fate]}
          /\ db' \in {db, db \cup mine[t]}
          /\ fate = "kept" => db' = db \cup mine[t]
          /\ fate = "undone" => db' = db
  BY DEF Closes
<1>2. /\ t \in intact /\ intact' = intact \ {t}
      /\ session' = [session EXCEPT ![conn[t]] = [txn |-> FALSE, pend |-> {}]]
      /\ mine' = [mine EXCEPT ![t] = {}]
      /\ written' \in Nat /\ 1..written \subseteq 1..written'
  BY DEF Closes, SInv, SessTypeOK
<1>3. mine'[t] = {} /\ \A u \in Threads \ {t} : mine'[u] = mine[u]
  BY <1>2 DEF SInv, SessTypeOK
<1>4. SessTypeOK'
  <2>1. \A S \in SUBSET (1..written) : S \in SUBSET (1..written')
    BY <1>2
  <2>2. session' \in [Conns -> [txn : BOOLEAN, pend : SUBSET (1..written')]]
    BY <1>2, <2>1 DEF SInv, SessTypeOK, Alone
  <2>3. mine' \in [Threads -> SUBSET (1..written')]
    BY <1>2, <2>1 DEF SInv, SessTypeOK
  <2>4. db' \subseteq 1..written' /\ \A f \in fates' : f.writes \subseteq 1..written'
    BY <1>1, <2>1 DEF SInv, SessTypeOK
  <2> QED
    BY <1>2, <2>2, <2>3, <2>4 DEF SInv, SessTypeOK
<1>5. OneTransactionEach'
  <2>1. \A u \in intact' : mine'[u] = mine[u] /\ mine[u] \cap mine[t] = {}
    BY <1>2, <1>3 DEF SInv, OneTransactionEach, SessTypeOK
  <2>2. \A u \in intact', f \in fates' : f.writes \cap mine'[u] = {}
    BY <1>1, <1>2, <2>1 DEF SInv, OneTransactionEach
  <2> QED
    BY <1>2, <1>3, <2>1, <2>2 DEF SInv, OneTransactionEach
<1>6. TransactionsAreKept'
  <2>1. PICK X \in {{}, mine[t]} : db' = db \cup X
    BY <1>1
  <2>2. \A f \in fates : f.writes \cap X = {}
    BY <1>2, <2>1 DEF SInv, OneTransactionEach
  <2>3. mine[t] \cap db = {}
    BY <1>2 DEF SInv, SessionsAreTheirs
  <2>4. /\ fate # "undone" /\ mine[t] \cap db' # {} => mine[t] \subseteq db'
        /\ fate = "kept" => mine[t] \subseteq db'
        /\ fate = "undone" => mine[t] \cap db' = {}
    BY <1>1, <2>3
  <2> QED
    BY <1>1, <2>1, <2>2, <2>4, KeptStaysKept DEF SInv, TransactionsAreKept
<1>7. SessionsAreTheirs'
  <2>a. /\ session'[conn[t]] = [txn |-> FALSE, pend |-> {}]
        /\ \A c \in Conns : c # conn[t] => session'[c] = session[c]
        /\ \A u \in intact : u # t => session'[conn[u]] = session[conn[u]]
    BY <1>2, OneSessionMoves
  <2>1. ASSUME NEW u \in intact'
        PROVE  session'[conn[u]] = [txn |-> TRUE, pend |-> mine'[u]] /\ mine'[u] \cap db' = {}
    <3>1. u \in intact /\ u # t /\ mine'[u] = mine[u] /\ mine[u] \cap mine[t] = {}
      BY <1>2, <1>3 DEF SInv, OneTransactionEach, SessTypeOK
    <3> QED
      BY <1>1, <1>2, <3>1, <2>a DEF SInv, SessionsAreTheirs
  <2>2. ASSUME NEW c \in Conns, \A u \in intact' : conn[u] # c
        PROVE  session'[c] = [txn |-> FALSE, pend |-> {}]
    BY <1>2, <2>2, <2>a DEF SInv, SessionsAreTheirs
  <2> QED
    BY <2>1, <2>2 DEF SessionsAreTheirs
<1>8. \A u \in believes' : InUse(u)'
  BY DEF SInv, InUse
<1>9. intact' \subseteq believes'
  BY <1>2 DEF SInv, SessTypeOK
<1> QED
  BY <1>4, <1>5, <1>6, <1>7, <1>8 DEF SInv

(* Every statement is of one of the kinds.  On a session that t has no     *)
(* intact transaction in, ending a transaction changes nothing.            *)
LEMMA EndsOutside ==
  ASSUME SInv, NEW t \in Threads, t \notin intact, NEW fate, Ends(t, fate)
  PROVE  UNCHANGED <<intact, mine, fates>>
<1>1. mine[t] = {}
  BY DEF SInv, OneTransactionEach
<1> QED
  BY <1>1 DEF Ends, SInv, SessTypeOK

(* What the statements do to the session of a thread. *)
LEMMA SessionInside ==
  ASSUME SInv, NEW t \in intact
  PROVE  LET n == Now(conn[t]) IN
         /\ n = [txn |-> TRUE, pend |-> mine[t], data |-> db]
         /\ Committed(n) = [txn |-> FALSE, pend |-> {}, data |-> db \cup mine[t]]
         /\ Undone(n) = [txn |-> FALSE, pend |-> {}, data |-> db]
         /\ Undone(Committed(n)) = Committed(n)
         /\ Undone(Undone(n)) = Undone(n)
         /\ \A w : /\ Updated(n, w) = [txn |-> TRUE, pend |-> mine[t] \cup {w}, data |-> db]
                   /\ Undone(Updated(n, w)) = Undone(n)
<1> DEFINE n == Now(conn[t])
<1>1. session[conn[t]] = [txn |-> TRUE, pend |-> mine[t]]
  BY DEF SInv, SessionsAreTheirs
<1>2. n = [txn |-> TRUE, pend |-> mine[t], data |-> db]
  BY <1>1 DEF Now
<1>3. n.txn = TRUE /\ n.pend = mine[t] /\ n.data = db
  BY <1>2
<1> HIDE DEF n
<1>4. Committed(n) = [txn |-> FALSE, pend |-> {}, data |-> db \cup mine[t]]
  BY <1>3 DEF Committed
<1>5. Undone(n) = [txn |-> FALSE, pend |-> {}, data |-> db]
  BY <1>3 DEF Undone
<1>6. ASSUME NEW w
      PROVE  Updated(n, w) = [txn |-> TRUE, pend |-> mine[t] \cup {w}, data |-> db]
  <2>1. Updated(n, w) = [txn |-> TRUE, pend |-> n.pend \cup {w}, data |-> n.data]
    BY <1>3, Zenon DEF Updated
  <2> QED
    BY <2>1, <1>3
<1>7. Committed(n).data = db \cup mine[t] /\ Undone(n).data = db
  BY <1>4, <1>5
<1>8. Undone(Committed(n)) = Committed(n) /\ Undone(Undone(n)) = Undone(n)
  BY <1>4, <1>5, <1>7, Zenon DEF Undone
<1>9. ASSUME NEW w
      PROVE  Undone(Updated(n, w)) = Undone(n)
  <2>1. Updated(n, w).data = db
    BY <1>6
  <2> QED
    BY <1>5, <2>1, Zenon DEF Undone
<1> QED
  BY <1>2, <1>4, <1>5, <1>6, <1>8, <1>9 DEF n

LEMMA SessionOutside ==
  ASSUME SInv, NEW t \in Threads \ intact, Alone(t)
  PROVE  LET n == Now(conn[t]) IN
         /\ n = [txn |-> FALSE, pend |-> {}, data |-> db]
         /\ Committed(n) = n
         /\ Undone(n) = n
         /\ Started(n) = [txn |-> TRUE, pend |-> {}, data |-> db]
         /\ Undone(Started(n)) = n
         /\ \A w : /\ Updated(n, w) = [txn |-> FALSE, pend |-> {}, data |-> db \cup {w}]
                   /\ Undone(Updated(n, w)) = Updated(n, w)
<1> DEFINE n == Now(conn[t])
<1>1. session[conn[t]] = [txn |-> FALSE, pend |-> {}]
  BY DEF SInv, SessionsAreTheirs, Alone
<1>2. n = [txn |-> FALSE, pend |-> {}, data |-> db]
  BY <1>1 DEF Now
<1>3. n.txn = FALSE /\ n.pend = {} /\ n.data = db /\ n.data \cup n.pend = db
  BY <1>2
<1> HIDE DEF n
<1>4. Committed(n) = n /\ Undone(n) = n
  BY <1>2, <1>3, Zenon DEF Committed, Undone
<1>5. Started(n) = [txn |-> TRUE, pend |-> {}, data |-> db]
  BY <1>3, Zenon DEF Started
<1>6. ASSUME NEW w
      PROVE  Updated(n, w) = [txn |-> FALSE, pend |-> {}, data |-> db \cup {w}]
  BY <1>3 DEF Updated
<1>7. Started(n).data = db
  BY <1>5
<1>8. Undone(Started(n)) = n
  BY <1>2, <1>7, Zenon DEF Undone
<1>9. ASSUME NEW w
      PROVE  Undone(Updated(n, w)) = Updated(n, w)
  <2>1. Updated(n, w).data = db \cup {w}
    BY <1>6
  <2> QED
    BY <1>6, <2>1, Zenon DEF Undone
<1> QED
  BY <1>2, <1>4, <1>5, <1>6, <1>8, <1>9 DEF n

(* A statement that leaves the session as it finds it. *)
LEMMA BecomesNow ==
  ASSUME SInv, NEW c \in Conns, Becomes(c, Now(c))
  PROVE  UNCHANGED <<session, db>>
  BY DEF SInv, SessTypeOK, Becomes, Now

LEMMA StatementOutside ==
  ASSUME SInv, NEW t \in Threads \ intact, Alone(t), NEW ran, NEW o,
         ran \in {Now(conn[t]), Committed(Now(conn[t])), Undone(Now(conn[t]))},
         Query(conn[t], ran, o)
  PROVE  UNCHANGED <<session, db>>
<1>1. ran = Now(conn[t]) /\ Undone(ran) = Now(conn[t])
  BY SessionOutside
<1>2. Becomes(conn[t], Now(conn[t]))
  BY <1>1 DEF Query
<1> QED
  BY <1>2, BecomesNow DEF Alone

(* A statement that ends t's intact transaction. *)
LEMMA EndingInside ==
  ASSUME SInv, NEW t \in intact, Alone(t), UNCHANGED <<pc, conn>>,
         believes' \in {believes, believes \ {t}}, written' \in {written, written + 1},
         NEW fate \in {"kept", "undone", "unknown"}, Ends(t, fate),
         NEW D \in {db, db \cup mine[t]},
         Becomes(conn[t], [txn |-> FALSE, pend |-> {}, data |-> D]),
         fate = "kept" => D = db \cup mine[t], fate = "undone" => D = db
  PROVE  SInv'
<1>1. db' = D /\ session' = [session EXCEPT ![conn[t]] = [txn |-> FALSE, pend |-> {}]]
  BY DEF Becomes
<1>2. Closes(t)
  BY <1>1 DEF Closes, Ends
<1>3. t \in Threads
  BY DEF SInv, SessTypeOK
<1> QED
  BY <1>2, <1>3, ClosesKeeps

(* One that would end a transaction t does not have, or no longer. *)
LEMMA EndingOutside ==
  ASSUME SInv, NEW t \in Threads \ intact, UNCHANGED <<pc, conn, session, db>>,
         believes' \in {believes, believes \ {t}}, written' \in {written, written + 1},
         Continues \/ \E fate : Ends(t, fate)
  PROVE  SInv'
<1>1. UNCHANGED <<intact, mine, fates>>
  BY EndsOutside DEF Continues
<1>2. Nothing
  BY <1>1 DEF Nothing
<1>3. /\ \A u \in believes' : InUse(u)'
      /\ believes' \subseteq Threads /\ intact \subseteq believes'
  BY DEF SInv, SessTypeOK, InUse
<1> QED
  BY <1>2, <1>3, NothingKeeps

(* One that the server refuses. *)
LEMMA RefusedKeeps ==
  ASSUME SInv, NEW t \in Threads, Alone(t), UNCHANGED <<pc, conn, believes>>, Continues,
         written' \in {written, written + 1}, Becomes(conn[t], Now(conn[t]))
  PROVE  SInv'
<1>1. UNCHANGED <<session, db>>
  BY BecomesNow DEF Alone
<1> QED
  BY <1>1, NothingKeeps DEF Nothing, Continues, SInv, SessTypeOK, InUse

LEMMA StartTransactionKeeps ==
  ASSUME SInv, NEW t \in Threads, Alone(t), StartTransaction(t), UNCHANGED <<pc, conn>>
  PROVE  SInv'
<1> DEFINE n == Now(conn[t])
<1>1. t \in Threads \ intact
  BY DEF StartTransaction, SInv, SessTypeOK
<1>2. /\ n = [txn |-> FALSE, pend |-> {}, data |-> db]
      /\ Undone(n) = n /\ Undone(Started(n)) = n
      /\ Started(n) = [txn |-> TRUE, pend |-> {}, data |-> db]
  BY <1>1, SessionOutside
<1>3. PICK o \in Outcomes :
          /\ Query(conn[t], Started(n), o)
          /\ IF Returned(o)
             THEN believes' = believes \cup {t} /\ intact' = intact \cup {t}
             ELSE UNCHANGED <<believes, intact>>
  BY DEF StartTransaction
<1>4. UNCHANGED <<mine, written, fates>>
  BY DEF StartTransaction
<1> HIDE DEF n
<1>5. CASE o = "done"
  <2>1. Becomes(conn[t], [txn |-> TRUE, pend |-> {}, data |-> db])
    BY <1>2, <1>3, <1>5, Zenon DEF Query
  <2>2. db' = db /\ session' = [session EXCEPT ![conn[t]] = [txn |-> TRUE, pend |-> {}]]
    BY <2>1 DEF Becomes
  <2>3. Opens(t) /\ believes' = believes \cup {t}
    BY <1>1, <1>3, <1>4, <1>5, <2>2 DEF Opens, Returned
  <2> QED
    BY <2>3, OpensKeeps
<1>6. CASE o # "done"
  <2>1. Becomes(conn[t], n)
    BY <1>2, <1>3, <1>6, Zenon DEF Query, n
  <2> QED
    BY <1>3, <1>4, <1>6, <2>1, RefusedKeeps DEF Returned, Continues, n
<1> QED
  BY <1>5, <1>6

LEMMA ExecuteUpdateKeeps ==
  ASSUME SInv, NEW t \in Threads, Alone(t), ExecuteUpdate(t), UNCHANGED <<pc, conn>>
  PROVE  SInv'
<1> DEFINE n == Now(conn[t])
<1>1. written' = written + 1 /\ UNCHANGED believes
  BY DEF ExecuteUpdate
<1>2. PICK o \in Outcomes :
          /\ Query(conn[t], Updated(n, written'), o)
          /\ IF o = "lost" THEN Ends(t, "undone")
             ELSE /\ mine' = IF Returned(o) /\ t \in intact
                             THEN [mine EXCEPT ![t] = @ \cup {written'}] ELSE mine
                  /\ fates' = IF Returned(o) /\ t \notin believes
                              THEN fates \cup {[writes |-> {written'}, fate |-> "kept"]} ELSE fates
                  /\ UNCHANGED intact
  BY DEF ExecuteUpdate
<1>3. CASE o = "refused"
  <2>1. Becomes(conn[t], n) /\ Continues
    BY <1>2, <1>3 DEF Query, Returned, Continues
  <2> QED
    BY <1>1, <2>1, RefusedKeeps
<1>4. CASE t \in intact /\ o # "refused"
  <2>1. /\ Undone(n) = [txn |-> FALSE, pend |-> {}, data |-> db]
        /\ Updated(n, written') = [txn |-> TRUE, pend |-> mine[t] \cup {written'}, data |-> db]
        /\ Undone(Updated(n, written')) = Undone(n)
    BY <1>4, SessionInside
  <2> HIDE DEF n
  <2>2. CASE o = "done"
    <3>1. Becomes(conn[t], [txn |-> TRUE, pend |-> mine[t] \cup {written'}, data |-> db])
      BY <1>2, <2>1, <2>2, Zenon DEF Query
    <3>2. db' = db /\ session' = [session EXCEPT ![conn[t]] = [txn |-> TRUE, pend |-> mine[t] \cup {written'}]]
      BY <3>1 DEF Becomes
    <3>3. t \in believes
      BY <1>4 DEF SInv, SessTypeOK
    <3>4. WritesInside(t)
      BY <1>1, <1>2, <1>4, <2>2, <3>2, <3>3 DEF WritesInside, Returned
    <3> QED
      BY <1>1, <3>4, WritesInsideKeeps
  <2>3. CASE o = "lost"
    <3>1. Becomes(conn[t], Undone(n))
      BY <1>2, <2>1, <2>3, Zenon DEF Query, n
    <3>2. Becomes(conn[t], [txn |-> FALSE, pend |-> {}, data |-> db])
      BY <2>1, <3>1, Zenon
    <3>3. Ends(t, "undone")
      BY <1>2, <2>3
    <3> QED
      BY <1>1, <1>4, <3>2, <3>3, EndingInside
  <2> QED
    BY <1>4, <2>2, <2>3 DEF Outcomes
<1>5. CASE t \notin intact /\ o # "refused"
  <2>1. /\ n = [txn |-> FALSE, pend |-> {}, data |-> db]
        /\ Undone(n) = n
        /\ Updated(n, written') = [txn |-> FALSE, pend |-> {}, data |-> db \cup {written'}]
        /\ Undone(Updated(n, written')) = Updated(n, written')
    BY <1>5, SessionOutside
  <2>2. session[conn[t]] = [txn |-> FALSE, pend |-> {}]
    BY <1>5 DEF SInv, SessionsAreTheirs, Alone
  <2> HIDE DEF n
  <2>3. \A d : Becomes(conn[t], [txn |-> FALSE, pend |-> {}, data |-> d])
                  => session' = session /\ db' = d
    BY <2>2 DEF Becomes, SInv, SessTypeOK, Alone
  <2>4. CASE o = "done"
    <3>1. Becomes(conn[t], [txn |-> FALSE, pend |-> {}, data |-> db \cup {written'}])
      BY <1>2, <2>1, <2>4, Zenon DEF Query
    <3>2. session' = session /\ db' = db \cup {written'}
      BY <2>3, <3>1
    <3>3. WritesOutside(t)
      BY <1>1, <1>2, <1>5, <2>4, <3>2 DEF WritesOutside
    <3> QED
      BY <1>1, <3>3, WritesOutsideKeeps
  <2>5. CASE o = "lost"
    <3>1. PICK d \in {db, db \cup {written'}} : Becomes(conn[t], [txn |-> FALSE, pend |-> {}, data |-> d])
      <4>1. Becomes(conn[t], n) \/ Becomes(conn[t], Updated(n, written'))
        BY <1>2, <2>1, <2>5, Zenon DEF Query, n
      <4>2. CASE Becomes(conn[t], n)
        <5>1. Becomes(conn[t], [txn |-> FALSE, pend |-> {}, data |-> db])
          BY <2>1, <4>2, Zenon
        <5> QED
          BY <5>1
      <4>3. CASE Becomes(conn[t], Updated(n, written'))
        <5>1. Becomes(conn[t], [txn |-> FALSE, pend |-> {}, data |-> db \cup {written'}])
          BY <2>1, <4>3, Zenon
        <5> QED
          BY <5>1
      <4> QED
        BY <4>1, <4>2, <4>3
    <3>2. session' = session /\ db' \in {db, db \cup {written'}}
      BY <2>3, <3>1
    <3>3. UNCHANGED <<intact, mine, fates>>
      BY <1>2, <1>5, <2>5, EndsOutside
    <3>4. WritesOutside(t)
      BY <1>1, <1>5, <3>2, <3>3 DEF WritesOutside
    <3> QED
      BY <1>1, <3>4, WritesOutsideKeeps
  <2> QED
    BY <1>5, <2>4, <2>5 DEF Outcomes
<1> QED
  BY <1>3, <1>4, <1>5

(* Commit, Rollback, the definitions, the queries and the loss of the      *)
(* session have in common what they may turn the session into.             *)
LEMMA EnderKeeps ==
  ASSUME SInv, NEW t \in Threads, Alone(t), UNCHANGED <<pc, conn, written>>,
         believes' \in {believes, believes \ {t}},
         NEW o \in Outcomes, o = "refused" => UNCHANGED believes,
         NEW ran \in {Now(conn[t]), Committed(Now(conn[t])), Undone(Now(conn[t]))},
         Query(conn[t], ran, o),
         o = "refused" => Continues,
         o = "done" => \/ ran = Now(conn[t]) /\ Continues /\ UNCHANGED believes
                       \/ ran = Committed(Now(conn[t])) /\ Ends(t, "kept")
                       \/ ran = Undone(Now(conn[t])) /\ Ends(t, "undone"),
         o = "lost" => \/ Ends(t, "unknown")
                       \/ ran \in {Now(conn[t]), Undone(Now(conn[t]))} /\ Ends(t, "undone")
  PROVE  SInv'
<1> DEFINE n == Now(conn[t])
<1>1. CASE t \notin intact
  <2>1. UNCHANGED <<session, db>>
    BY <1>1, StatementOutside
  <2>2. Continues \/ \E fate : Ends(t, fate)
    BY DEF Outcomes
  <2> QED
    BY <1>1, <2>1, <2>2, EndingOutside
<1>2. CASE o = "refused"
  <2>1. Becomes(conn[t], Now(conn[t]))
    BY <1>2 DEF Query
  <2> QED
    BY <1>2, <2>1, RefusedKeeps
<1>3. CASE t \in intact /\ o # "refused"
  <2>1. /\ Committed(n) = [txn |-> FALSE, pend |-> {}, data |-> db \cup mine[t]]
        /\ Undone(n) = [txn |-> FALSE, pend |-> {}, data |-> db]
        /\ Undone(Committed(n)) = Committed(n)
        /\ Undone(Undone(n)) = Undone(n)
    BY <1>3, SessionInside
  <2>2. CASE o = "done" /\ ran = n /\ Continues /\ UNCHANGED believes
    <3>1. Becomes(conn[t], Now(conn[t]))
      BY <2>2 DEF Query
    <3> QED
      BY <2>2, <3>1, RefusedKeeps
  <2>3. CASE o = "done" /\ ran = Committed(n) /\ Ends(t, "kept")
    <3>1. Becomes(conn[t], Committed(n))
      BY <2>3 DEF Query
    <3>2. Becomes(conn[t], [txn |-> FALSE, pend |-> {}, data |-> db \cup mine[t]])
      BY <2>1, <3>1, Zenon
    <3> QED
      BY <1>3, <2>3, <3>2, EndingInside
  <2>4. CASE o = "done" /\ ran = Undone(n) /\ Ends(t, "undone")
    <3>1. Becomes(conn[t], Undone(n))
      BY <2>4 DEF Query
    <3>2. Becomes(conn[t], [txn |-> FALSE, pend |-> {}, data |-> db])
      BY <2>1, <3>1, Zenon
    <3> QED
      BY <1>3, <2>4, <3>2, EndingInside
  <2>5. CASE o = "lost"
    <3> HIDE DEF n
    <3>1. Becomes(conn[t], Undone(n)) \/ Becomes(conn[t], Undone(ran))
      BY <2>5, Zenon DEF Query, n
    <3>2. Becomes(conn[t], Undone(n)) => Becomes(conn[t], [txn |-> FALSE, pend |-> {}, data |-> db])
      BY <2>1, Zenon
    <3>3. CASE Ends(t, "undone") /\ ran \in {n, Undone(n)}
      <4>1. Becomes(conn[t], Undone(n))
        BY <2>1, <3>1, <3>3, Zenon
      <4> QED
        BY <1>3, <2>5, <3>2, <3>3, <4>1, EndingInside
    <3>4. CASE Ends(t, "unknown")
      <4>1. Becomes(conn[t], Undone(n)) \/ Becomes(conn[t], Committed(n))
        BY <2>1, <3>1, Zenon DEF n
      <4>2. Becomes(conn[t], Committed(n))
              => Becomes(conn[t], [txn |-> FALSE, pend |-> {}, data |-> db \cup mine[t]])
        BY <2>1, Zenon
      <4> QED
        BY <1>3, <2>5, <3>2, <3>4, <4>1, <4>2, EndingInside
    <3> QED
      BY <2>5, <3>3, <3>4 DEF n
  <2> QED
    BY <1>3, <2>2, <2>3, <2>4, <2>5 DEF Outcomes
<1> QED
  BY <1>1, <1>2, <1>3

LEMMA CommitKeeps ==
  ASSUME SInv, NEW t \in Threads, Alone(t), Commit(t), UNCHANGED <<pc, conn>>
  PROVE  SInv'
<1>1. PICK o \in Outcomes :
          /\ Query(conn[t], Committed(Now(conn[t])), o)
          /\ believes' = IF Returned(o) THEN believes \ {t} ELSE believes
          /\ IF Returned(o) THEN Ends(t, "kept")
             ELSE IF o = "lost" THEN Ends(t, "unknown") ELSE Continues
  BY DEF Commit
<1> QED
  BY <1>1, EnderKeeps DEF Commit, Returned

LEMMA RollbackKeeps ==
  ASSUME SInv, NEW t \in Threads, Alone(t), Rollback(t), UNCHANGED <<pc, conn>>
  PROVE  SInv'
<1>1. PICK o \in Outcomes :
          /\ Query(conn[t], Undone(Now(conn[t])), o)
          /\ believes' = IF Returned(o) THEN believes \ {t} ELSE believes
          /\ IF Returned(o) \/ o = "lost" THEN Ends(t, "undone") ELSE Continues
  BY DEF Rollback
<1> QED
  BY <1>1, EnderKeeps DEF Rollback, Returned

LEMMA ExecuteDefinitionKeeps ==
  ASSUME SInv, NEW t \in Threads, Alone(t), ExecuteDefinition(t), UNCHANGED <<pc, conn>>
  PROVE  SInv'
<1>1. PICK o \in Outcomes :
          /\ Query(conn[t], Committed(Now(conn[t])), o)
          /\ IF Returned(o) THEN Ends(t, "kept")
             ELSE IF o = "lost" THEN Ends(t, "unknown") ELSE Continues
  BY DEF ExecuteDefinition
<1> QED
  BY <1>1, EnderKeeps DEF ExecuteDefinition, Returned

LEMMA ExecuteQueryKeeps ==
  ASSUME SInv, NEW t \in Threads, Alone(t), ExecuteQuery(t), UNCHANGED <<pc, conn>>
  PROVE  SInv'
<1>1. PICK o \in Outcomes : /\ Query(conn[t], Now(conn[t]), o)
                            /\ IF o = "lost" THEN Ends(t, "undone") ELSE Continues
  BY DEF ExecuteQuery
<1> QED
  BY <1>1, EnderKeeps DEF ExecuteQuery

LEMMA SessionLostKeeps ==
  ASSUME SInv, NEW t \in Threads, Alone(t), SessionLost(t), UNCHANGED <<pc, conn>>
  PROVE  SInv'
<1>1. Query(conn[t], Now(conn[t]), "lost")
  BY DEF SessionLost, Query
<1> QED
  BY <1>1, EnderKeeps DEF SessionLost, Outcomes

(* A thread that uses its connection has it for itself. *)
LEMMA UserIsAlone ==
  ASSUME IInv, SInv, NEW t \in Threads, InUse(t)
  PROVE  Alone(t)
<1>1. \A u \in intact : u \in Threads /\ InUse(u)
  BY DEF SInv, SessTypeOK
<1> QED
  BY <1>1 DEF IInv, TypeOK, ExclusiveUse, HasConn, InUse, Alone

LEMMA SessStep ==
  ASSUME IInv, SInv, [SessNext]_allVars
  PROVE  SInv'
<1>1. CASE UNCHANGED allVars
  BY <1>1 DEF allVars, vars, sessVars, SInv, SessTypeOK, InUse, OneTransactionEach,
              SessionsAreTheirs, TransactionsAreKept
<1>2. ASSUME NEW t \in Threads, Works(t), UNCHANGED vars
      PROVE  SInv'
  <2>1. Alone(t)
    BY <1>2, UserIsAlone DEF Works, StartTransaction, ExecuteUpdate, Commit, Rollback,
                             ExecuteDefinition, ExecuteQuery, SessionLost
  <2>2. UNCHANGED <<pc, conn>>
    BY <1>2 DEF vars
  <2> QED
    BY <1>2, <2>1, <2>2, StartTransactionKeeps, ExecuteUpdateKeeps, CommitKeeps, RollbackKeeps,
       ExecuteDefinitionKeeps, ExecuteQueryKeeps, SessionLostKeeps DEF Works
<1> QED
  BY <1>1, <1>2, PoolStepKeeps DEF SessNext

LEMMA SessStart == SessInit => SInv
  BY DEF SessInit, Init, SInv, SessTypeOK, InUse, OneTransactionEach, SessionsAreTheirs,
         TransactionsAreKept

(* What holds of the pool holds of the pool at work. *)
LEMMA PoolAtWork == SessSpec => Spec
<1>1. SessInit => Init
  BY DEF SessInit
<1>2. [SessNext]_allVars => [Next]_vars
  BY DEF SessNext, PoolStep, allVars
<1> QED
  BY <1>1, <1>2, PTL DEF SessSpec, Spec

LEMMA SInvAlways == SessSpec => []SInv
<1>1. SessSpec => []IInv
  BY PoolAtWork, IInvAlways
<1> QED
  BY <1>1, SessStart, SessStep, PTL DEF SessSpec

(* For any threads, connections and statements: a thread whose session was *)
(* not lost finds its own transaction on its connection, and no connection *)
(* has one that the next borrower would inherit.                           *)
THEOREM SessionsAreNotShared == SessSpec => []SessionsAreTheirs
<1>1. SInv => SessionsAreTheirs
  BY DEF SInv
<1> QED
  BY <1>1, SInvAlways, PTL

(* For any of them, what Commit said of a transaction on an unbroken       *)
(* session is true of the database, then and later.                        *)
THEOREM CommitTellsTheTruth == SessSpec => []TransactionsAreKept
<1>1. SInv => TransactionsAreKept
  BY DEF SInv
<1> QED
  BY <1>1, SInvAlways, PTL
=============================================================================
