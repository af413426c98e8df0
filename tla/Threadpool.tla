----------------------------- MODULE Threadpool -----------------------------
(***************************************************************************)
(* The thread pool of connectpool/mysql_pool/Threadpool.h and              *)
(* Threadpoll.cpp: workers that take tasks from one queue, an owner that   *)
(* starts and stops them, and clients that wait for the tasks to be done.  *)
(*                                                                         *)
(* All of them sleep on the one condition variable _condition.  A critical *)
(* section of _mutex is one step; a worker also runs outside the mutex,    *)
(* and is split there: before ++_atomic ("popped"), inside the task        *)
(* ("running") and between --_atomic and the lock ("done").                *)
(*                                                                         *)
(* No function of src/ puts a task in the queue.  Submit models the one    *)
(* the class is made for: push and notify_one under _mutex.                *)
(***************************************************************************)
EXTENDS Naturals, Sequences, FiniteSets

CONSTANTS Workers,  \* the threads start() can create
          Clients,  \* threads that call waitForAllDone
          Tasks,    \* the tasks ever submitted
          NoTask    \* a null TaskFuncPtr

ASSUME WorkersFinite == IsFiniteSet(Workers)
ASSUME Distinct == NoTask \notin Tasks /\ Workers \cap Clients = {}

VARIABLES _task,       \* the queue
          _threads,    \* the workers start() has created and stop() not cleared
          _threadNum,
          _bTerminate,
          _atomic,     \* workers inside a task
          owner,       \* "idle", or "joining" inside stop()
          pc,          \* of the workers and the clients
          held,        \* the task a worker has popped, or NoTask
          timed,       \* the client called with millsecond >= 0
          submitted,   \* history: the tasks pushed so far
          finished,    \* history: the tasks a worker is through with
          promised     \* history: unfinished tasks when the client called

poolVars == <<_threads, _threadNum, _bTerminate, owner>>
clientVars == <<timed, promised>>
taskVars == <<held, submitted, finished>>
vars == <<_task, poolVars, _atomic, pc, taskVars, clientVars>>

Procs == Workers \cup Clients
Returned == {"true", "false"}
InTask(w) == pc[w] \in {"popped", "running"}
Queued == {_task[i] : i \in DOMAIN _task}
InHand == {held[w] : w \in {v \in Workers : InTask(v)}}

Init == /\ _task = <<>>
        /\ _threads = {}
        /\ _threadNum = 1
        /\ _bTerminate = FALSE
        /\ _atomic = 0
        /\ owner = "idle"
        /\ pc = [p \in Procs |-> IF p \in Workers THEN "exited" ELSE "idle"]
        /\ held = [w \in Workers |-> NoTask]
        /\ timed = [c \in Clients |-> FALSE]
        /\ submitted = {}
        /\ finished = {}
        /\ promised = [c \in Clients |-> {}]

(* pc once everybody, or one sleeper if there is any, is notified; the     *)
(* mutants notify nobody.                                                  *)
NobodyNotified(f) == f
NoneNotified(f) == {f}
AllNotified(f) == [p \in Procs |-> IF f[p] = "asleep" THEN "notified" ELSE f[p]]
OneNotified(f) ==
    IF \E p \in Procs : f[p] = "asleep"
      THEN {[f EXCEPT ![p] = "notified"] : p \in {q \in Procs : f[q] = "asleep"}}
      ELSE {f}
-----------------------------------------------------------------------------
(* The owner.  start() and stop() are called by one thread. *)
PoolInit(n) ==
    /\ owner = "idle" /\ _threads = {}
    /\ _threadNum' = n
    /\ UNCHANGED <<_task, _threads, _bTerminate, owner, _atomic, pc, taskVars, clientVars>>

(* start() makes _threadNum workers.  It leaves _bTerminate as it is. *)
Start ==
    /\ owner = "idle" /\ _threads = {}
    /\ \E S \in SUBSET Workers :
          /\ Cardinality(S) = _threadNum
          /\ _threads' = S
          /\ pc' = [p \in Procs |-> IF p \in S THEN "check" ELSE pc[p]]
    /\ UNCHANGED <<_task, _threadNum, _bTerminate, owner, _atomic, taskVars, clientVars>>

(* stop(): the flag and notify_all; then join; then clear. *)
Stop ==
    /\ owner = "idle"
    /\ _bTerminate' = TRUE
    /\ pc' = AllNotified(pc)
    /\ owner' = "joining"
    /\ UNCHANGED <<_task, _threads, _threadNum, _atomic, taskVars, clientVars>>

(* Has every thread been joined? *)
AllJoined == \A w \in _threads : pc[w] = "exited"

Joined ==
    /\ owner = "joining"
    /\ AllJoined
    /\ _threads' = {}
    /\ owner' = "idle"
    /\ UNCHANGED <<_task, _threadNum, _bTerminate, _atomic, pc, taskVars, clientVars>>

(* The submitter, not under src/. *)
Submit(k) ==
    /\ k \notin submitted
    /\ _task' = Append(_task, k)
    /\ submitted' = submitted \cup {k}
    /\ pc' \in OneNotified(pc)
    /\ UNCHANGED <<poolVars, _atomic, held, finished, clientVars>>
-----------------------------------------------------------------------------
(* The loop test reads _bTerminate without the mutex.  A read that races   *)
(* with stop() gives the old or the new value; the old one is the step     *)
(* taken just before Stop, for get() then reads the flag under the mutex.  *)
CheckTerminate(w) ==
    /\ pc[w] = "check"
    /\ pc' = [pc EXCEPT ![w] = IF _bTerminate THEN "exited" ELSE "getting"]
    /\ UNCHANGED <<_task, poolVars, _atomic, taskVars, clientVars>>

(* _task.pop(), and its omission (mutant). *)
NotPopped == _task
Popped == Tail(_task)

(* get() after its wait, if any: terminate, or take the front task. *)
GetNow(w) ==
    \/ /\ _bTerminate
       /\ pc' = [pc EXCEPT ![w] = "check"]
       /\ UNCHANGED <<_task, held>>
    \/ /\ ~_bTerminate /\ _task # <<>>
       /\ held' = [held EXCEPT ![w] = Head(_task)]
       /\ _task' = Popped
       /\ pc' = [pc EXCEPT ![w] = "popped"]

(* get(): the entry (line 46) or a wake-up (line 49). *)
Get(w) ==
    /\ pc[w] \in {"getting", "notified"}
    /\ \/ GetNow(w)
       \/ /\ _task = <<>> /\ ~_bTerminate
          /\ pc' = [pc EXCEPT ![w] = "asleep"]
          /\ UNCHANGED <<_task, held>>
    /\ UNCHANGED <<poolVars, _atomic, submitted, finished, clientVars>>

(* ++_atomic and --_atomic. *)
CountUp == _atomic + 1
CountDown == _atomic - 1

BeginTask(w) ==
    /\ pc[w] = "popped"
    /\ _atomic' = CountUp
    /\ pc' = [pc EXCEPT ![w] = "running"]
    /\ UNCHANGED <<_task, poolVars, taskVars, clientVars>>

(* The task returned, threw or had expired; then --_atomic. *)
EndTask(w) ==
    /\ pc[w] = "running"
    /\ _atomic' = CountDown
    /\ finished' = finished \cup {held[w]}
    /\ held' = [held EXCEPT ![w] = NoTask]
    /\ pc' = [pc EXCEPT ![w] = "done"]
    /\ UNCHANGED <<_task, poolVars, submitted, clientVars>>

(* notify_all for the clients; the mutant has notify_one. *)
TellOne(f) == OneNotified(f)
Tell(f) == {AllNotified(f)}

(* Lines 57-63: under the mutex, tell the clients if nothing is left. *)
TellClients(w) ==
    /\ pc[w] = "done"
    /\ LET checked == [pc EXCEPT ![w] = "check"] IN
       pc' \in IF _atomic = 0 /\ _task = <<>> THEN Tell(checked) ELSE {checked}
    /\ UNCHANGED <<_task, poolVars, _atomic, taskVars, clientVars>>
-----------------------------------------------------------------------------
(* waitForAllDone: the entry. *)
CallWait(c, hasTimeout) ==
    /\ pc[c] \in {"idle"} \cup Returned
    /\ timed' = [timed EXCEPT ![c] = hasTimeout]
    /\ promised' = [promised EXCEPT ![c] = submitted \ finished]
    /\ pc' = [pc EXCEPT ![c] = IF _task = <<>> THEN "true" ELSE "asleep"]
    /\ UNCHANGED <<_task, poolVars, _atomic, taskVars>>

(* A notified client: out if the queue is empty.  With millsecond < 0 the  *)
(* function then ends without a return: the caller may get any value.      *)
WakeClient(c) ==
    /\ pc[c] = "notified"
    /\ \/ /\ _task = <<>>
          /\ \E r \in IF timed[c] THEN {"true"} ELSE Returned : pc' = [pc EXCEPT ![c] = r]
       \/ /\ _task # <<>>
          /\ pc' = [pc EXCEPT ![c] = "asleep"]
    /\ UNCHANGED <<_task, poolVars, _atomic, taskVars, clientVars>>

(* wait_for expires and returns what the predicate says. *)
Timeout(c) ==
    /\ pc[c] \in {"asleep", "notified"} /\ timed[c]
    /\ pc' = [pc EXCEPT ![c] = IF _task = <<>> THEN "true" ELSE "false"]
    /\ UNCHANGED <<_task, poolVars, _atomic, taskVars, clientVars>>

SpuriousWakeup(p) ==
    /\ pc[p] = "asleep"
    /\ pc' = [pc EXCEPT ![p] = "notified"]
    /\ UNCHANGED <<_task, poolVars, _atomic, taskVars, clientVars>>

Worker(w) == Get(w) \/ BeginTask(w) \/ EndTask(w) \/ TellClients(w) \/ CheckTerminate(w)

Next == \/ \E n \in 1..Cardinality(Workers) : PoolInit(n)
        \/ Start \/ Stop \/ Joined
        \/ \E k \in Tasks : Submit(k)
        \/ \E w \in Workers : Worker(w)
        \/ \E c \in Clients : (\E b \in BOOLEAN : CallWait(c, b)) \/ WakeClient(c) \/ Timeout(c)
        \/ \E p \in Procs : SpuriousWakeup(p)

Spec == Init /\ [][Next]_vars

(* Workers, notified clients and the owner inside stop() keep running, and *)
(* tasks end.  Nothing obliges anybody to submit, to wait or to stop.      *)
Fairness == /\ \A w \in Workers : WF_vars(Worker(w))
            /\ \A c \in Clients : WF_vars(WakeClient(c))
            /\ WF_vars(Joined)

FairSpec == Spec /\ Fairness
-----------------------------------------------------------------------------
(* Every variable has its type; _atomic never goes below zero. *)
TypeOK ==
    /\ _task \in Seq(Tasks)
    /\ _threads \subseteq Workers
    /\ _threadNum \in Nat
    /\ _bTerminate \in BOOLEAN
    /\ _atomic \in Nat
    /\ owner \in {"idle", "joining"}
    /\ \A w \in Workers : pc[w] \in {"exited", "check", "getting", "asleep", "notified",
                                     "popped", "running", "done"}
    /\ \A c \in Clients : pc[c] \in {"idle", "asleep", "notified"} \cup Returned
    /\ held \in [Workers -> Tasks \cup {NoTask}]
    /\ timed \in [Clients -> BOOLEAN]
    /\ submitted \subseteq Tasks
    /\ finished \subseteq Tasks
    /\ promised \in [Clients -> SUBSET Tasks]

(* No task is lost, run twice or run by two workers: a submitted task is   *)
(* in one place of the queue, with one worker, or finished, and only there.*)
TaskConservation ==
    /\ submitted = Queued \cup InHand \cup finished
    /\ Queued \cap InHand = {} /\ finished \cap (Queued \cup InHand) = {}
    /\ \A i, j \in DOMAIN _task : _task[i] = _task[j] => i = j
    /\ \A v, w \in Workers : InTask(v) /\ InTask(w) /\ held[v] = held[w] => v = w

(* _atomic counts the workers inside a task, so the test of line 58 sees 0 *)
(* only if none is.                                                        *)
AtomicExact == _atomic = Cardinality({w \in Workers : pc[w] = "running"})

(* A client that sleeps in waitForAllDone although the queue is empty will *)
(* be told: some worker has yet to pass the test of line 58, also while    *)
(* stop() runs.                                                            *)
ClientWillBeTold ==
    (\E c \in Clients : pc[c] = "asleep") /\ _task = <<>>
        => \E w \in Workers : pc[w] \in {"popped", "running", "done"}

(* While tasks are queued in a running pool, not all workers sleep: the    *)
(* notify_one of a submission is never wasted on a client alone, although  *)
(* clients and workers share one condition variable.                       *)
QueueIsServed ==
    _task # <<>> /\ _threads # {} /\ ~_bTerminate
        => \E w \in _threads : pc[w] \notin {"asleep", "exited"}

(* stop() joins: when no pool is up, no worker runs, and none has a task.  *)
StoppedMeansStopped ==
    _threads = {} => \A w \in Workers : pc[w] = "exited" /\ held[w] = NoTask

(* stop() returns: every worker, asleep or in a task, comes to its end.    *)
StopReturns == owner = "joining" ~> owner = "idle"

(* A queued task of a pool that is up is finished, unless stop() comes.    *)
EveryTaskRuns ==
    \A k \in Tasks : (k \in Queued /\ _threads # {}) ~> (k \in finished \/ _bTerminate)

(* waitForAllDone without a time-out returns once the pool is up, unless   *)
(* stop() leaves tasks behind in the queue.                                *)
WaitReturns ==
    \A c \in Clients : (pc[c] = "asleep" /\ _threads # {})
                         ~> (pc[c] \in Returned \/ _bTerminate)

(* Threadpoll.cpp:77: waitForAllDone waits for all tasks to be executed,   *)
(* those in the queue included.  What it returns true for, though, is an   *)
(* empty queue: the last tasks may be still running, or not even begun.    *)
AllDoneMeansDone ==
    \A c \in Clients : pc[c] = "true" => promised[c] \subseteq finished
=============================================================================
