----------------------------- MODULE LockHooks -----------------------------
(***************************************************************************)
(* The hooks around pthread_mutex_lock and pthread_mutex_unlock with which *)
(* deadlock_success.c feeds its wait-for graph: a table of locks and their *)
(* owners, which every thread reads and writes without a lock.             *)
(*                                                                         *)
(* A call of lock is lock_before, the real lock, and lock_after in up to   *)
(* three steps; a call of unlock is the real unlock and unlock_after.      *)
(* Between any two of them other threads run.  One scan of the table, one  *)
(* store of an entry and one operation on the graph are a step each.       *)
(*                                                                         *)
(* A thread locks no mutex it holds and unlocks only those.  lock is       *)
(* called at most MAX times, so that the table suffices: lockidx grows for *)
(* an entry that is used again, too, and never shrinks, and after a        *)
(* hundred insertions the code goes on past the table's end.               *)
(***************************************************************************)
EXTENDS Integers, WaitGraph

CONSTANTS Mutexes,
          Nobody,     \* the id 0
          NoLock,     \* the lock_id 0
          MAX,        \* entries of locklist
          Junk        \* tables that malloc may leave

(* Memory that was used before names no mutex of now and has no negative   *)
(* degress.  The id in it is never read before it is stored: any will do.  *)
Leftovers == {table[i].lock_id : table \in Junk, i \in 1..MAX} \ Mutexes

ASSUME JunkAssumption ==
    Junk \subseteq [1..MAX -> [id : Ids \cup {Nobody}, lock_id : Leftovers, degress : Nat]]
ASSUME ZeroAssumption == Nobody \notin Ids /\ NoLock \notin Mutexes
ASSUME MAXAssumption == MAX \in Nat

VARIABLES locklist, lockidx,
          holder,     \* who has each mutex
          pc, want,   \* where each thread is in which mutex's hooks
          slot,       \* its idx or eidx in lock_after
          calls,      \* bound: calls of lock so far, at most MAX
          overlapped, \* history: the hooks of two threads have raced for one entry
          overtaken   \* history: who has waited while another got the mutex

tg == <<ids, next>>
hookVars == <<tg, locklist, lockidx, holder, pc, want, slot, calls, overlapped,
              overtaken>>

(* start_check: the table is not cleared. *)
HooksInit == /\ ids = <<>>
             /\ next = [t \in Ids |-> <<>>]
             /\ locklist \in Junk
             /\ lockidx = 0
             /\ holder = [m \in Mutexes |-> Nobody]
             /\ pc = [t \in Ids |-> "run"]
             /\ want = [t \in Ids |-> NoLock]
             /\ slot = [t \in Ids |-> 0]
             /\ calls = 0
             /\ overlapped = FALSE
             /\ overtaken = {}

(* Another thread, which has the mutex or gives it back, is yet to write   *)
(* the mutex's entry.  One that is blocked in the real lock is not.        *)
InHook(t, m) == pc[t] # "run" /\ want[t] = m
Writing(t, m, places) == \E u \in Ids \ {t} : InHook(u, m) /\ pc[u] \in places

Goes(t, p) == pc' = [pc EXCEPT ![t] = p]
-----------------------------------------------------------------------------
(* search_lock and search_empty_lock: the first entry with the lock_id;    *)
(* 0 stands for -1.                                                        *)
Used == 1..lockidx
FirstWith(l) == LET S == {i \in Used : locklist[i].lock_id = l} IN
                IF S = {} THEN 0 ELSE CHOOSE i \in S : \A j \in S : i <= j

search_empty_lock == IF FirstWith(NoLock) = 0 THEN lockidx + 1 ELSE FirstWith(NoLock)

(* The body of the loop, for one entry that names the lock. *)
WithEdge(g, t, owner) ==
    LET list == add_vertex(add_vertex(g.ids, t), owner) IN
    [ids |-> list,
     next |-> IF verify_edge(list, g.next, t, owner) THEN g.next ELSE add_edge(g.next, t, owner)]

(* The loop, entry after entry; in the end, the graph it leaves. *)
Scan(t, m) ==
    LET g[k \in 0..lockidx] ==
            IF k = 0 THEN [ids |-> ids, next |-> next]
            ELSE IF locklist[k].lock_id = m THEN WithEdge(g[k - 1], t, locklist[k].id)
            ELSE g[k - 1]
    IN  g[lockidx]

lock_before(t, m) ==
    /\ pc[t] = "run" /\ holder[m] # t
    /\ calls < MAX /\ calls' = calls + 1
    /\ ids' = Scan(t, m).ids /\ next' = Scan(t, m).next
    /\ locklist' = [i \in 1..MAX |-> IF i \in Used /\ locklist[i].lock_id = m
                                     THEN [locklist[i] EXCEPT !.degress = @ + 1]
                                     ELSE locklist[i]]
    /\ Goes(t, "waiting")
    /\ want' = [want EXCEPT ![t] = m]
    /\ overlapped' = (overlapped \/ Writing(t, m, {"locked", "insert", "inc", "adopt"}))
    /\ UNCHANGED <<lockidx, holder, slot, overtaken>>

(* pthread_mutex_lock_f returns, to one of those that wait. *)
Acquire(t) ==
    /\ pc[t] = "waiting" /\ holder[want[t]] = Nobody
    /\ holder' = [holder EXCEPT ![want[t]] = t]
    /\ Goes(t, "locked")
    /\ overlapped' = (overlapped \/ Writing(t, want[t], {"unlocked"}))
    /\ overtaken' = overtaken \cup {u \in Ids \ {t} : pc[u] = "waiting" /\ want[u] = want[t]}
    /\ UNCHANGED <<tg, locklist, lockidx, want, slot, calls>>

(* lock_after up to the choice of its entry. *)
lock_after(t) ==
    /\ pc[t] = "locked"
    /\ LET found == FirstWith(want[t])
           idx == IF found = 0 THEN search_empty_lock ELSE found IN
       /\ slot' = [slot EXCEPT ![t] = idx]
       /\ Goes(t, IF found = 0 THEN "insert" ELSE "adopt")
       /\ overlapped' = (overlapped \/ \E u \in Ids : pc[u] \in {"insert", "inc"} /\ slot[u] = idx)
    /\ UNCHANGED <<tg, locklist, lockidx, holder, want, calls, overtaken>>

Insert(t) ==
    /\ pc[t] = "insert"
    /\ locklist' = [locklist EXCEPT ![slot[t]].id = t, ![slot[t]].lock_id = want[t]]
    /\ Goes(t, "inc")
    /\ UNCHANGED <<tg, lockidx, holder, want, slot, calls, overlapped, overtaken>>

(* The locked addition; the mutant stores what the scan has found. *)
NotAtomic(t) == slot[t]
inc(t) == lockidx + 1

Inc(t) ==
    /\ pc[t] = "inc"
    /\ lockidx' = inc(t)
    /\ Goes(t, "run")
    /\ UNCHANGED <<tg, locklist, holder, want, slot, calls, overlapped, overtaken>>

(* The edge goes to the owner in the entry, before the entry is rewritten; *)
(* the mutant reads it afterwards.                                         *)
NewOwner(t) == t
OldOwner(t) == locklist[slot[t]].id

(* lock_after with an entry: the wait is over, the owner is new. *)
Adopt(t) ==
    /\ pc[t] = "adopt"
    /\ next' = IF verify_edge(ids, next, t, OldOwner(t))
               THEN remove_edge(next, t, OldOwner(t)) ELSE next
    /\ locklist' = [locklist EXCEPT ![slot[t]].degress = @ - 1, ![slot[t]].id = t]
    /\ Goes(t, "run")
    /\ UNCHANGED <<ids, lockidx, holder, want, slot, calls, overlapped, overtaken>>
-----------------------------------------------------------------------------
(* pthread_mutex_unlock_f: the mutex is free before the table says so. *)
Release(t, m) ==
    /\ pc[t] = "run" /\ holder[m] = t
    /\ holder' = [holder EXCEPT ![m] = Nobody]
    /\ Goes(t, "unlocked")
    /\ want' = [want EXCEPT ![t] = m]
    /\ UNCHANGED <<tg, locklist, lockidx, slot, calls, overlapped, overtaken>>

(* An entry that waiters have counted stays.  Without an entry the code    *)
(* reads locklist[-1], whose degress is tg->num and whose other fields no  *)
(* vertex uses.                                                            *)
unlock_after(t) ==
    /\ pc[t] = "unlocked"
    /\ LET idx == FirstWith(want[t]) IN
       locklist' = IF idx # 0 /\ locklist[idx].degress = 0
                   THEN [locklist EXCEPT ![idx].id = Nobody, ![idx].lock_id = NoLock]
                   ELSE locklist
    /\ Goes(t, "run")
    /\ UNCHANGED <<tg, lockidx, holder, want, slot, calls, overlapped, overtaken>>

Hooks(t) == \/ \E m \in Mutexes : lock_before(t, m) \/ Release(t, m)
            \/ Acquire(t) \/ lock_after(t) \/ Insert(t) \/ Inc(t) \/ Adopt(t)
            \/ unlock_after(t)

HooksNext == \E t \in Ids : Hooks(t)

HooksSpec == HooksInit /\ [][HooksNext]_hookVars
-----------------------------------------------------------------------------
Entries == [id : Ids \cup {Nobody}, lock_id : Mutexes \cup {NoLock} \cup Leftovers, degress : Int]

(* Every variable has its type. *)
HooksTypeOK ==
    /\ ids \in Seq(Ids) /\ next \in [Ids -> Seq(Ids)]
    /\ locklist \in [1..MAX -> Entries]
    /\ lockidx \in 0..MAX
    /\ holder \in [Mutexes -> Ids \cup {Nobody}]
    /\ pc \in [Ids -> {"run", "waiting", "locked", "insert", "inc", "adopt", "unlocked"}]
    /\ want \in [Ids -> Mutexes \cup {NoLock}]
    /\ slot \in [Ids -> 0..MAX] /\ calls \in 0..MAX
    /\ overlapped \in BOOLEAN /\ overtaken \subseteq Ids

(* No entry is out of the scans' reach, however the threads' insertions    *)
(* interleave, but for the moment before its own writer counts it: the sum *)
(* is added to in one locked instruction.                                  *)
EveryEntryIsReached ==
    \A i \in 1..MAX : locklist[i].lock_id \in Mutexes =>
        i \in Used \/ \E t \in Ids : pc[t] = "inc" /\ slot[t] = i

(* Unless hooks have raced for an entry, a mutex whose hooks are done has  *)
(* one entry, and it names the holder: entries that are cleared, kept for  *)
(* waiters, handed from one waiter to the next, used again or full of junk *)
(* included.                                                               *)
OwnersAreListed ==
    ~overlapped => \A m \in Mutexes, t \in Ids : holder[m] = t /\ ~InHook(t, m) =>
        \E i \in Used : /\ locklist[i].id = t
                        /\ \A j \in Used : locklist[j].lock_id = m <=> j = i

(* The graph has an edge for a blocked thread, to whom it waits for, which *)
(* the search needs to find a deadlock; a thread in no call of lock has    *)
(* none that could close a false cycle, and no thread has two, without     *)
(* which the search reports what is no cycle.                              *)
EdgeIsBlock(t) ==
    /\ pc[t] = "waiting" /\ holder[want[t]] # Nobody => holder[want[t]] \in ToSet(next[t])
    /\ pc[t] \notin {"waiting", "locked", "adopt"} => next[t] = <<>>
    /\ Len(next[t]) <= 1

(* Unless hooks have raced, that is true of every thread that has never    *)
(* waited while another got the mutex, whatever the others did.            *)
EdgesAreBlocks == ~overlapped => \A t \in Ids \ overtaken : EdgeIsBlock(t)

(* Of one that has it is not, and no race is needed: of two that wait for  *)
(* a mutex the one that gets it becomes the entry's owner (line 477), and  *)
(* the other keeps its edge to the old one, gets none to the new one, and  *)
(* when its turn comes looks for an edge to the owner of then (457-466).   *)
EdgesFollowTheOwner == ~overlapped => \A t \in Ids : EdgeIsBlock(t)
=============================================================================
