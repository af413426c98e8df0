------------------------- MODULE Threadpool_proofs -------------------------
(***************************************************************************)
(* Proofs about Threadpool for every finite set of workers, every set of   *)
(* clients and every set of tasks.                                         *)
(***************************************************************************)
EXTENDS Threadpool, FiniteSetTheorems, TLAPS

Running == {w \in Workers : pc[w] = "running"}
Owing(w) == pc[w] \in {"popped", "running", "done"}

PcStates == {"exited", "check", "getting", "asleep", "notified", "popped", "running",
             "done", "idle"} \cup Returned

(* The workers that exist are those in _threads, they leave only after     *)
(* stop(), and hold a task exactly while they are in one.                  *)
Hands ==
    /\ pc \in [Procs -> PcStates]
    /\ \A w \in Workers : pc[w] # "exited" => w \in _threads
    /\ \A w \in _threads : pc[w] = "exited" => _bTerminate
    /\ \A w \in Workers : InTask(w) <=> held[w] # NoTask

(* AtomicExact in the form in which a step preserves it. *)
CountInv == IsFiniteSet(Running) /\ _atomic = Cardinality(Running)

IInv == TypeOK /\ Hands /\ CountInv /\ ClientWillBeTold /\ QueueIsServed

(* A notification only turns sleepers into notified threads. *)
LEMMA Notification ==
  ASSUME NEW S, "notified" \in S, NEW f \in [Procs -> S],
         NEW g, g \in OneNotified(f) \/ g = AllNotified(f)
  PROVE  /\ g \in [Procs -> S]
         /\ \A p \in Procs : g[p] = f[p] \/ (f[p] = "asleep" /\ g[p] = "notified")
<1>1. CASE g = AllNotified(f)
  BY <1>1 DEF AllNotified
<1>2. CASE g = f
  BY <1>2
<1>3. ASSUME NEW q \in Procs, f[q] = "asleep", g = [f EXCEPT ![q] = "notified"]
      PROVE  /\ g \in [Procs -> S]
             /\ \A p \in Procs : g[p] = f[p] \/ (f[p] = "asleep" /\ g[p] = "notified")
  BY <1>3
<1> QED
  BY <1>1, <1>2, <1>3 DEF OneNotified

LEMMA SubmitWakes ==
  ASSUME Hands, NEW k \in Tasks, Submit(k)
  PROVE  /\ pc' \in [Procs -> PcStates]
         /\ \A p \in Procs : pc'[p] = pc[p] \/ (pc[p] = "asleep" /\ pc'[p] = "notified")
<1>1. "notified" \in PcStates /\ pc \in [Procs -> PcStates]
  BY DEF Hands, PcStates
<1> QED
  BY <1>1, Notification DEF Submit

LEMMA TypeStep ==
  ASSUME TypeOK, Hands, CountInv, [Next]_vars
  PROVE  TypeOK'
<1> USE Distinct DEF Hands, Procs, PcStates, Returned
<1>1. CASE UNCHANGED vars
  BY <1>1 DEF TypeOK, vars, poolVars, clientVars, taskVars
<1>2. ASSUME NEW n \in 1..Cardinality(Workers), PoolInit(n)
      PROVE  TypeOK'
  BY <1>2 DEF TypeOK, PoolInit, clientVars, taskVars
<1>3. CASE Start
  BY <1>3 DEF TypeOK, Start, clientVars, taskVars
<1>4. CASE Stop \/ Joined
  BY <1>4 DEF TypeOK, Stop, Joined, AllNotified, clientVars, taskVars
<1>5. ASSUME NEW k \in Tasks, Submit(k)
      PROVE  TypeOK'
  BY <1>5 DEF TypeOK, Submit, OneNotified, poolVars, clientVars, taskVars
<1>6. ASSUME NEW w \in Workers, CheckTerminate(w) \/ BeginTask(w) \/ TellClients(w)
      PROVE  TypeOK'
  BY <1>6 DEF TypeOK, CheckTerminate, BeginTask, CountUp, TellClients, Tell, AllNotified,
     poolVars, clientVars, taskVars
<1>7. ASSUME NEW w \in Workers, EndTask(w)
      PROVE  TypeOK'
  <2>1. _atomic # 0 /\ _atomic - 1 \in Nat
    <3>1. w \in Running
      BY <1>7 DEF EndTask, Running
    <3>2. _atomic # 0
      BY <3>1, FS_EmptySet DEF CountInv
    <3> QED
      BY <3>2 DEF TypeOK
  <2>2. held[w] \in Tasks
    BY <1>7 DEF EndTask, InTask, TypeOK
  <2> QED
    BY <1>7, <2>1, <2>2 DEF TypeOK, EndTask, CountDown, poolVars, clientVars
<1>8. ASSUME NEW w \in Workers, Get(w)
      PROVE  TypeOK'
  <2>1. UNCHANGED <<poolVars, _atomic, submitted, finished, clientVars>>
    BY <1>8 DEF Get
  <2>2. ASSUME NEW x \in {"check", "asleep"}, pc' = [pc EXCEPT ![w] = x],
               UNCHANGED <<_task, held>>
        PROVE  TypeOK'
    BY <2>1, <2>2 DEF TypeOK, poolVars, clientVars
  <2>3. CASE /\ _task # <<>> /\ _task' = Tail(_task)
             /\ held' = [held EXCEPT ![w] = Head(_task)]
             /\ pc' = [pc EXCEPT ![w] = "popped"]
    <3>1. Head(_task) \in Tasks /\ Tail(_task) \in Seq(Tasks)
      BY <2>3 DEF TypeOK
    <3> QED
      BY <2>1, <2>3, <3>1 DEF TypeOK, poolVars, clientVars
  <2>4. \/ \E x \in {"check", "asleep"} :
              pc' = [pc EXCEPT ![w] = x] /\ UNCHANGED <<_task, held>>
        \/ /\ _task # <<>> /\ _task' = Tail(_task)
           /\ held' = [held EXCEPT ![w] = Head(_task)]
           /\ pc' = [pc EXCEPT ![w] = "popped"]
    BY <1>8 DEF Get, GetNow, Popped
  <2> QED
    BY <2>2, <2>3, <2>4
<1>9. ASSUME NEW c \in Clients, (\E b \in BOOLEAN : CallWait(c, b)) \/ WakeClient(c) \/ Timeout(c)
      PROVE  TypeOK'
  BY <1>9 DEF TypeOK, CallWait, WakeClient, Timeout, poolVars, clientVars, taskVars
<1>10. ASSUME NEW p \in Procs, SpuriousWakeup(p)
      PROVE  TypeOK'
  BY <1>10 DEF TypeOK, SpuriousWakeup, poolVars, clientVars, taskVars
<1> QED
  BY <1>1, <1>2, <1>3, <1>4, <1>5, <1>6, <1>7, <1>8, <1>9, <1>10 DEF Next, Worker

LEMMA HandsStep ==
  ASSUME TypeOK, Hands, [Next]_vars
  PROVE  Hands'
<1> USE Distinct DEF Hands, Procs, PcStates, Returned, InTask
<1>1. CASE UNCHANGED vars
  BY <1>1 DEF vars, poolVars, taskVars
<1>2. ASSUME NEW n \in 1..Cardinality(Workers), PoolInit(n)
      PROVE  Hands'
  BY <1>2 DEF PoolInit, taskVars
<1>3. CASE Start
  <2>1. PICK S \in SUBSET Workers :
          /\ _threads' = S
          /\ pc' = [p \in Procs |-> IF p \in S THEN "check" ELSE pc[p]]
    BY <1>3 DEF Start
  <2>2. \A w \in Workers : pc[w] = "exited" /\ held[w] = NoTask
    BY <1>3 DEF Start
  <2>3. UNCHANGED held
    BY <1>3 DEF Start, taskVars
  <2>4. \A w \in Workers : pc'[w] = IF w \in S THEN "check" ELSE "exited"
    BY <2>1, <2>2
  <2>5. pc' \in [Procs -> PcStates]
    BY <2>1
  <2> QED
    BY <2>1, <2>2, <2>3, <2>4, <2>5
<1>4. CASE Stop
  BY <1>4 DEF Stop, AllNotified, taskVars, TypeOK
<1>5. CASE Joined
  BY <1>5 DEF Joined, AllJoined, taskVars
<1>6. ASSUME NEW k \in Tasks, Submit(k)
      PROVE  Hands'
  <2>1. \A w \in Workers : pc'[w] = pc[w] \/ (pc[w] = "asleep" /\ pc'[w] = "notified")
    BY <1>6, SubmitWakes
  <2> QED
    BY <1>6, <2>1, SubmitWakes DEF Submit, poolVars, TypeOK
<1>7. ASSUME NEW w \in Workers, CheckTerminate(w) \/ BeginTask(w)
      PROVE  Hands'
  BY <1>7 DEF CheckTerminate, BeginTask, poolVars, taskVars, TypeOK
<1>8. ASSUME NEW w \in Workers, TellClients(w)
      PROVE  Hands'
  BY <1>8 DEF TellClients, Tell, AllNotified, poolVars, taskVars, TypeOK
<1>9. ASSUME NEW w \in Workers, EndTask(w)
      PROVE  Hands'
  BY <1>9 DEF EndTask, poolVars, TypeOK
<1>10. ASSUME NEW w \in Workers, Get(w)
      PROVE  Hands'
  <2>1. _task # <<>> => Head(_task) \in Tasks
    BY DEF TypeOK
  <2> QED
    BY <1>10, <2>1 DEF Get, GetNow, poolVars, TypeOK
<1>11. ASSUME NEW c \in Clients, (\E b \in BOOLEAN : CallWait(c, b)) \/ WakeClient(c) \/ Timeout(c)
      PROVE  Hands'
  BY <1>11 DEF CallWait, WakeClient, Timeout, poolVars, taskVars, TypeOK
<1>12. ASSUME NEW p \in Procs, SpuriousWakeup(p)
      PROVE  Hands'
  BY <1>12 DEF SpuriousWakeup, poolVars, taskVars, TypeOK
<1> QED
  BY <1>1, <1>2, <1>3, <1>4, <1>5, <1>6, <1>7, <1>8, <1>9, <1>10, <1>11, <1>12 DEF Next, Worker

(* Who is inside a task changes in BeginTask and EndTask only. *)
LEMMA CountStep ==
  ASSUME TypeOK, Hands, CountInv, [Next]_vars
  PROVE  CountInv'
<1> USE Distinct DEF Hands, Procs
<1>1. ASSUME NEW w \in Workers, BeginTask(w)
      PROVE  CountInv'
  <2>1. w \notin Running /\ Running' = Running \cup {w}
    BY <1>1 DEF BeginTask, Running
  <2>2. IsFiniteSet(Running') /\ Cardinality(Running') = Cardinality(Running) + 1
    BY <2>1, FS_AddElement DEF CountInv
  <2> QED
    BY <1>1, <2>2 DEF BeginTask, CountUp, CountInv
<1>2. ASSUME NEW w \in Workers, EndTask(w)
      PROVE  CountInv'
  <2>1. w \in Running /\ Running' = Running \ {w}
    BY <1>2 DEF EndTask, Running
  <2>2. IsFiniteSet(Running') /\ Cardinality(Running') = Cardinality(Running) - 1
    BY <2>1, FS_RemoveElement DEF CountInv
  <2> QED
    BY <1>2, <2>2 DEF EndTask, CountDown, CountInv
<1>3. ASSUME UNCHANGED _atomic, Running' = Running
      PROVE  CountInv'
  BY <1>3 DEF CountInv
<1>4. CASE UNCHANGED vars
  BY <1>4, <1>3 DEF vars, Running
<1>5. ASSUME NEW n \in 1..Cardinality(Workers), PoolInit(n)
      PROVE  CountInv'
  BY <1>5, <1>3 DEF PoolInit, Running
<1>6. CASE Start
  BY <1>6, <1>3 DEF Start, Running, TypeOK
<1>7. CASE Stop \/ Joined
  BY <1>7, <1>3 DEF Stop, Joined, AllNotified, Running
<1>8. ASSUME NEW k \in Tasks, Submit(k)
      PROVE  CountInv'
  BY <1>8, <1>3 DEF Submit, OneNotified, Running
<1>9. ASSUME NEW w \in Workers, CheckTerminate(w) \/ Get(w)
      PROVE  CountInv'
  BY <1>9, <1>3 DEF CheckTerminate, Get, GetNow, Running
<1>10. ASSUME NEW w \in Workers, TellClients(w)
      PROVE  CountInv'
  BY <1>10, <1>3 DEF TellClients, Tell, AllNotified, Running
<1>11. ASSUME NEW c \in Clients, (\E b \in BOOLEAN : CallWait(c, b)) \/ WakeClient(c) \/ Timeout(c)
      PROVE  CountInv'
  BY <1>11, <1>3 DEF CallWait, WakeClient, Timeout, Running
<1>12. ASSUME NEW p \in Procs, SpuriousWakeup(p)
      PROVE  CountInv'
  BY <1>12, <1>3 DEF SpuriousWakeup, Running
<1> QED
  BY <1>1, <1>2, <1>4, <1>5, <1>6, <1>7, <1>8, <1>9, <1>10, <1>11, <1>12 DEF Next, Worker

(* A client sleeps on an empty queue only while some worker owes it the    *)
(* test of line 58.                                                        *)
LEMMA ToldStep ==
  ASSUME TypeOK, Hands, CountInv, ClientWillBeTold, [Next]_vars
  PROVE  ClientWillBeTold'
<1> USE Distinct DEF Hands, Procs, ClientWillBeTold
<1>1. ASSUME \A c \in Clients : pc'[c] = "asleep" => pc[c] = "asleep",
             _task' = <<>> => _task = <<>>,
             \A w \in Workers : Owing(w) => Owing(w)'
      PROVE  ClientWillBeTold'
  BY <1>1 DEF Owing
<1>2. CASE UNCHANGED vars
  BY <1>2 DEF vars
<1>3. ASSUME NEW n \in 1..Cardinality(Workers), PoolInit(n)
      PROVE  ClientWillBeTold'
  BY <1>3 DEF PoolInit
<1>4. CASE Start
  BY <1>4, <1>1 DEF Start, Owing
<1>5. CASE Stop \/ Joined
  BY <1>5, <1>1 DEF Stop, Joined, AllNotified, Owing
<1>6. ASSUME NEW k \in Tasks, Submit(k)
      PROVE  ClientWillBeTold'
  <2>1. _task' # <<>>
    BY <1>6 DEF Submit, TypeOK
  <2> QED
    BY <2>1
<1>7. ASSUME NEW w \in Workers, CheckTerminate(w) \/ BeginTask(w) \/ EndTask(w)
      PROVE  ClientWillBeTold'
  BY <1>7, <1>1 DEF CheckTerminate, BeginTask, EndTask, Owing
<1>8. ASSUME NEW w \in Workers, Get(w)
      PROVE  ClientWillBeTold'
  BY <1>8 DEF Get, GetNow, Popped
<1>9. ASSUME NEW w \in Workers, TellClients(w)
      PROVE  ClientWillBeTold'
  <2>1. CASE _atomic = 0 /\ _task = <<>>
    BY <1>9, <2>1 DEF TellClients, Tell, AllNotified
  <2>2. CASE _atomic # 0
    <3>1. PICK v \in Workers : pc[v] = "running"
      BY <2>2, FS_EmptySet DEF CountInv, Running
    <3> QED
      BY <1>9, <2>2, <3>1 DEF TellClients
  <2>3. CASE _task # <<>>
    BY <1>9, <2>3 DEF TellClients
  <2> QED
    BY <2>1, <2>2, <2>3
<1>10. ASSUME NEW c \in Clients, (\E b \in BOOLEAN : CallWait(c, b)) \/ WakeClient(c) \/ Timeout(c)
      PROVE  ClientWillBeTold'
  BY <1>10 DEF CallWait, WakeClient, Timeout, Returned
<1>11. ASSUME NEW p \in Procs, SpuriousWakeup(p)
      PROVE  ClientWillBeTold'
  BY <1>11 DEF SpuriousWakeup
<1> QED
  BY <1>2, <1>3, <1>4, <1>5, <1>6, <1>7, <1>8, <1>9, <1>10, <1>11 DEF Next, Worker

(* Queued tasks keep a worker of a running pool out of bed. *)
LEMMA ServedStep ==
  ASSUME TypeOK, Hands, ClientWillBeTold, QueueIsServed, [Next]_vars
  PROVE  QueueIsServed'
<1> USE Distinct DEF Hands, Procs, QueueIsServed
<1>1. CASE UNCHANGED vars
  BY <1>1 DEF vars, poolVars
<1>2. ASSUME NEW n \in 1..Cardinality(Workers), PoolInit(n)
      PROVE  QueueIsServed'
  BY <1>2 DEF PoolInit
<1>3. CASE Start
  BY <1>3 DEF Start
<1>4. CASE Stop \/ Joined
  BY <1>4 DEF Stop, Joined
<1>5. ASSUME NEW k \in Tasks, Submit(k), _threads # {}, ~_bTerminate
      PROVE  \E w \in _threads : pc'[w] \notin {"asleep", "exited"}
  <2>1. \A p \in Procs : pc'[p] = pc[p] \/ (pc[p] = "asleep" /\ pc'[p] = "notified")
    BY <1>5, SubmitWakes
  <2>2. CASE \E w \in _threads : pc[w] # "asleep"
    BY <1>5, <2>1, <2>2 DEF TypeOK
  <2>3. CASE \A w \in _threads : pc[w] = "asleep"
    <3>1. \A w \in Workers : pc[w] \in {"exited", "asleep"}
      BY <2>3
    <3>2. \A c \in Clients : pc[c] # "asleep"
      BY <1>5, <2>3, <3>1 DEF QueueIsServed, ClientWillBeTold, TypeOK
    <3>3. PICK p \in Procs : pc[p] = "asleep" /\ pc' = [pc EXCEPT ![p] = "notified"]
      BY <1>5, <2>3 DEF Submit, OneNotified, TypeOK
    <3> QED
      BY <3>2, <3>3, <2>3
  <2> QED
    BY <2>2, <2>3
<1>6. ASSUME NEW k \in Tasks, Submit(k)
      PROVE  QueueIsServed'
  BY <1>5, <1>6 DEF Submit, poolVars
<1>7. ASSUME NEW w \in Workers, CheckTerminate(w) \/ BeginTask(w) \/ EndTask(w)
      PROVE  QueueIsServed'
  BY <1>7 DEF CheckTerminate, BeginTask, EndTask, poolVars, TypeOK
<1>8. ASSUME NEW w \in Workers, Get(w)
      PROVE  QueueIsServed'
  BY <1>8 DEF Get, GetNow, poolVars, TypeOK
<1>9. ASSUME NEW w \in Workers, TellClients(w)
      PROVE  QueueIsServed'
  BY <1>9 DEF TellClients, Tell, AllNotified, poolVars, TypeOK
<1>10. ASSUME NEW c \in Clients, (\E b \in BOOLEAN : CallWait(c, b)) \/ WakeClient(c) \/ Timeout(c)
      PROVE  QueueIsServed'
  BY <1>10 DEF CallWait, WakeClient, Timeout, poolVars, TypeOK
<1>11. ASSUME NEW p \in Procs, SpuriousWakeup(p)
      PROVE  QueueIsServed'
  BY <1>11 DEF SpuriousWakeup, poolVars, TypeOK
<1> QED
  BY <1>1, <1>2, <1>3, <1>4, <1>6, <1>7, <1>8, <1>9, <1>10, <1>11 DEF Next, Worker

LEMMA IInvInit == Init => IInv
<1> SUFFICES ASSUME Init PROVE IInv
  OBVIOUS
<1> USE Distinct DEF Init, Procs
<1>1. TypeOK
  <2>1. _task \in Seq(Tasks)
    OBVIOUS
  <2> QED
    BY <2>1 DEF TypeOK
<1>2. Hands
  BY DEF Hands, InTask, PcStates
<1>3. CountInv
  <2>1. Running = {}
    BY DEF Running
  <2> QED
    BY <2>1, FS_EmptySet DEF CountInv
<1> QED
  BY <1>1, <1>2, <1>3 DEF IInv, ClientWillBeTold, QueueIsServed

LEMMA IInvAlways == Spec => []IInv
<1>1. IInv /\ [Next]_vars => IInv'
  BY TypeStep, HandsStep, CountStep, ToldStep, ServedStep DEF IInv
<1> QED
  BY <1>1, IInvInit, PTL DEF Spec

(* Every variable keeps its type; _atomic never goes below zero. *)
THEOREM TypeCorrect == Spec => []TypeOK
  BY IInvAlways, PTL DEF IInv

(* _atomic is the number of workers that run a task. *)
THEOREM CountIsExact == Spec => []AtomicExact
<1>1. IInv => AtomicExact
  BY DEF IInv, CountInv, Running, AtomicExact
<1> QED
  BY <1>1, IInvAlways, PTL

(* No client of waitForAllDone is forgotten on an empty queue. *)
THEOREM ClientsAreTold == Spec => []ClientWillBeTold
  BY IInvAlways, PTL DEF IInv

(* No queued task of a running pool has all workers asleep. *)
THEOREM QueueAlwaysServed == Spec => []QueueIsServed
  BY IInvAlways, PTL DEF IInv

(* After stop() no worker runs or has a task. *)
THEOREM StopJoinsAll == Spec => []StoppedMeansStopped
<1>1. IInv => StoppedMeansStopped
  BY DEF IInv, Hands, InTask, StoppedMeansStopped
<1> QED
  BY <1>1, IInvAlways, PTL
-----------------------------------------------------------------------------
(* The queue as a set: what push and pop do to it. *)
QueuedOnce == \A i, j \in DOMAIN _task : _task[i] = _task[j] => i = j

LEMMA Pushed ==
  ASSUME _task \in Seq(Tasks), QueuedOnce, NEW k \in Tasks, k \notin Queued,
         _task' = Append(_task, k)
  PROVE  Queued' = Queued \cup {k} /\ QueuedOnce'
<1>1. /\ DOMAIN _task = 1..Len(_task) /\ DOMAIN _task' = 1..(Len(_task) + 1)
      /\ Len(_task) \in Nat
      /\ \A i \in 1..Len(_task) : _task'[i] = _task[i]
      /\ _task'[Len(_task) + 1] = k
  OBVIOUS
<1> QED
  BY <1>1 DEF Queued, QueuedOnce

LEMMA Taken ==
  ASSUME _task \in Seq(Tasks), QueuedOnce, _task # <<>>, _task' = Tail(_task)
  PROVE  Queued = Queued' \cup {Head(_task)} /\ Head(_task) \notin Queued' /\ QueuedOnce'
<1>1. /\ Len(_task) \in Nat \ {0} /\ DOMAIN _task = 1..Len(_task)
      /\ DOMAIN _task' = 1..(Len(_task) - 1)
      /\ \A i \in 1..(Len(_task) - 1) : _task'[i] = _task[i + 1]
      /\ Head(_task) = _task[1]
  OBVIOUS
<1>2. \A i \in DOMAIN _task : i = 1 \/ (i - 1 \in DOMAIN _task' /\ _task[i] = _task'[i - 1])
  BY <1>1
<1>3. \A i \in DOMAIN _task' : i + 1 \in DOMAIN _task /\ _task'[i] = _task[i + 1]
  BY <1>1
<1>4. Queued = Queued' \cup {Head(_task)}
  <2>1. ASSUME NEW x \in Queued
        PROVE  x \in Queued' \/ x = Head(_task)
    <3>1. PICK i \in DOMAIN _task : x = _task[i]
      BY <2>1 DEF Queued
    <3>2. i = 1 => x = Head(_task)
      BY <1>1, <3>1
    <3>3. i # 1 => x \in Queued'
      BY <1>2, <3>1 DEF Queued
    <3> QED
      BY <3>2, <3>3
  <2>2. ASSUME NEW x \in Queued'
        PROVE  x \in Queued
    <3>1. PICK i \in DOMAIN _task' : x = _task'[i]
      BY <2>2 DEF Queued
    <3> QED
      BY <1>3, <3>1 DEF Queued
  <2>3. Head(_task) \in Queued
    BY <1>1 DEF Queued
  <2> QED
    BY <2>1, <2>2, <2>3
<1>5. Head(_task) \notin Queued' /\ QueuedOnce'
  BY <1>1 DEF Queued, QueuedOnce
<1> QED
  BY <1>4, <1>5

LEMMA ConservationStep ==
  ASSUME IInv, TaskConservation, [Next]_vars
  PROVE  TaskConservation'
<1> USE Distinct DEF Procs
<1> TypeOK /\ Hands
  BY DEF IInv
<1>1. ASSUME UNCHANGED <<_task, taskVars>>, \A w \in Workers : InTask(w)' = InTask(w)
      PROVE  TaskConservation'
  BY <1>1 DEF TaskConservation, Queued, InHand, taskVars
<1>2. ASSUME NEW k \in Tasks, Submit(k)
      PROVE  TaskConservation'
  <2>1. \A w \in Workers : InTask(w)' = InTask(w)
    BY <1>2, SubmitWakes DEF InTask
  <2>2. InHand' = InHand /\ UNCHANGED <<held, finished>> /\ k \notin submitted
    BY <1>2, <2>1 DEF Submit, InHand
  <2>3. /\ Queued' = Queued \cup {k}
        /\ QueuedOnce'
    BY <1>2, <2>2, Pushed DEF Submit, TaskConservation, TypeOK, QueuedOnce
  <2> QED
    BY <1>2, <2>1, <2>2, <2>3 DEF Submit, TaskConservation, QueuedOnce
<1>3. ASSUME NEW w \in Workers, pc[w] \in {"getting", "notified"}, ~_bTerminate, _task # <<>>,
             held' = [held EXCEPT ![w] = Head(_task)], _task' = Tail(_task),
             pc' = [pc EXCEPT ![w] = "popped"], UNCHANGED <<submitted, finished>>
      PROVE  TaskConservation'
  <2> DEFINE k == Head(_task)
  <2>1. /\ Queued = Queued' \cup {k} /\ k \notin Queued'
        /\ QueuedOnce'
    BY <1>3, Taken DEF TaskConservation, TypeOK, QueuedOnce
  <2>2. /\ \A v \in Workers : InTask(v)' = (InTask(v) \/ v = w)
        /\ ~InTask(w) /\ held'[w] = k
        /\ \A v \in Workers : v # w => held'[v] = held[v]
    BY <1>3 DEF InTask, Hands, TypeOK
  <2>3. InHand' = InHand \cup {k}
    BY <2>2 DEF InHand
  <2>4. k \notin InHand /\ k \notin finished
    BY <2>1 DEF TaskConservation
  <2>5. \A u, v \in Workers : InTask(u)' /\ InTask(v)' /\ held'[u] = held'[v] => u = v
    BY <2>2, <2>4 DEF TaskConservation, InHand
  <2> QED
    BY <1>3, <2>1, <2>3, <2>4, <2>5 DEF TaskConservation, QueuedOnce
<1>4. ASSUME NEW w \in Workers, EndTask(w)
      PROVE  TaskConservation'
  <2>1. /\ \A v \in Workers : InTask(v)' = (InTask(v) /\ v # w)
        /\ InTask(w)
        /\ \A v \in Workers : v # w => held'[v] = held[v]
    BY <1>4 DEF EndTask, InTask, Hands, TypeOK
  <2> DEFINE k == held[w]
  <2>2. \A v \in Workers : InTask(v) /\ held[v] = k => v = w
    BY <2>1 DEF TaskConservation
  <2>3. k \in InHand
    BY <2>1 DEF InHand
  <2>4. \A x : x \in InHand' <=> \E v \in Workers : InTask(v)' /\ x = held'[v]
    BY DEF InHand
  <2>5. \A x : x \in InHand <=> \E v \in Workers : InTask(v) /\ x = held[v]
    BY DEF InHand
  <2>6. InHand' = InHand \ {k}
    <3>1. ASSUME NEW x \in InHand'
          PROVE  x \in InHand \ {k}
      <4>1. PICK v \in Workers : InTask(v)' /\ x = held'[v]
        BY <2>4, <3>1
      <4>2. InTask(v) /\ v # w /\ x = held[v]
        BY <2>1, <4>1
      <4> QED
        BY <2>2, <2>5, <4>2
    <3>2. ASSUME NEW x \in InHand \ {k}
          PROVE  x \in InHand'
      <4>1. PICK v \in Workers : InTask(v) /\ x = held[v]
        BY <2>5, <3>2
      <4>2. v # w
        BY <3>2, <4>1
      <4> QED
        BY <2>1, <2>4, <4>1, <4>2
    <3> QED
      BY <3>1, <3>2
  <2>7. /\ UNCHANGED <<_task, submitted>> /\ Queued' = Queued
        /\ finished' = finished \cup {k}
    BY <1>4 DEF EndTask, Queued
  <2>8. \A v \in Workers : InTask(v)' => InTask(v) /\ held'[v] = held[v]
    BY <2>1
  <2> HIDE DEF k
  <2>9. /\ submitted' = Queued' \cup InHand' \cup finished'
        /\ Queued' \cap InHand' = {} /\ finished' \cap (Queued' \cup InHand') = {}
    BY <2>3, <2>6, <2>7 DEF TaskConservation
  <2> QED
    BY <2>7, <2>8, <2>9 DEF TaskConservation
<1>5. ASSUME NEW w \in Workers, Get(w)
      PROVE  TaskConservation'
  <2>1. /\ pc[w] \in {"getting", "notified"}
        /\ UNCHANGED <<submitted, finished>>
    BY <1>5 DEF Get
  <2>2. CASE /\ ~_bTerminate /\ _task # <<>> /\ _task' = Tail(_task)
             /\ held' = [held EXCEPT ![w] = Head(_task)]
             /\ pc' = [pc EXCEPT ![w] = "popped"]
    BY <2>1, <2>2, <1>3
  <2>3. ASSUME NEW x \in {"check", "asleep"}, pc' = [pc EXCEPT ![w] = x],
               UNCHANGED <<_task, held>>
        PROVE  TaskConservation'
    BY <2>1, <2>3, <1>1 DEF InTask, Hands, taskVars
  <2> QED
    BY <1>5, <2>2, <2>3 DEF Get, GetNow, Popped
<1>6. ASSUME NEW w \in Workers, CheckTerminate(w) \/ BeginTask(w)
      PROVE  TaskConservation'
  BY <1>6, <1>1 DEF CheckTerminate, BeginTask, InTask, Hands
<1>7. ASSUME NEW w \in Workers, TellClients(w)
      PROVE  TaskConservation'
  BY <1>7, <1>1 DEF TellClients, Tell, AllNotified, InTask, Hands
<1>8. CASE Start
  BY <1>8, <1>1 DEF Start, InTask, Hands
<1>9. CASE Stop \/ Joined \/ UNCHANGED vars \/ \E n \in 1..Cardinality(Workers) : PoolInit(n)
  BY <1>9, <1>1 DEF Stop, Joined, PoolInit, vars, AllNotified, InTask
<1>10. ASSUME NEW c \in Clients, (\E b \in BOOLEAN : CallWait(c, b)) \/ WakeClient(c) \/ Timeout(c)
      PROVE  TaskConservation'
  <2>1. \A w \in Workers : pc'[w] = pc[w]
    BY <1>10 DEF CallWait, WakeClient, Timeout, Hands
  <2> QED
    BY <1>10, <2>1, <1>1 DEF CallWait, WakeClient, Timeout, InTask
<1>11. ASSUME NEW p \in Procs, SpuriousWakeup(p)
      PROVE  TaskConservation'
  BY <1>11, <1>1 DEF SpuriousWakeup, InTask, Hands
<1> QED
  BY <1>2, <1>4, <1>5, <1>6, <1>7, <1>8, <1>9, <1>10, <1>11 DEF Next, Worker

(* A submitted task is never lost and never run twice. *)
THEOREM TasksAreConserved == Spec => []TaskConservation
<1>1. Init => TaskConservation
  <2> SUFFICES ASSUME Init PROVE TaskConservation
    OBVIOUS
  <2>1. Queued = {} /\ DOMAIN _task = {}
    BY DEF Init, Queued
  <2>2. \A w \in Workers : ~InTask(w)
    BY Distinct DEF Init, InTask, Procs
  <2> QED
    BY <2>1, <2>2 DEF Init, TaskConservation, InHand
<1> QED
  BY <1>1, IInvAlways, ConservationStep, PTL DEF Spec
=============================================================================
