---------------------------- MODULE CycleSearch ----------------------------
(***************************************************************************)
(* The wait-for graph of deadlock_success.c and the search for a cycle.    *)
(* The hooks around pthread_mutex_lock add an edge while a thread waits    *)
(* for another and take it away afterwards; every five seconds a thread of *)
(* its own runs check_dead_lock, a depth-first search from every vertex.   *)
(*                                                                         *)
(* A step of the search is one call of DFS or one return.  The graph is at *)
(* rest meanwhile: threads in a deadlock change nothing any more.          *)
(***************************************************************************)
EXTENDS Integers, WaitGraph

CONSTANT MaxWaits     \* bound: waits at a time

VARIABLES waits,      \* history: who waits for whom
          start,      \* the i of check_dead_lock, from 1; 0: not running
          path,       \* path[0] to path[k - 1]
          todo,       \* of each active call: neighbours not yet visited
          visited,
          deadlock,
          report      \* history: the path printed last

graph == <<ids, next, waits>>
search == <<start, path, todo, visited, deadlock, report>>
vars == <<graph, search>>

Edges == {e \in Ids \X Ids : e[2] \in ToSet(next[e[1]])}

Init == /\ ids = <<>>
        /\ next = [a \in Ids |-> <<>>]
        /\ waits = {}
        /\ start = 0
        /\ path = <<>>
        /\ todo = <<>>
        /\ visited = {}
        /\ deadlock = FALSE
        /\ report = <<>>
-----------------------------------------------------------------------------
(* lock_before for an entry of the lock table: thread a is about to wait   *)
(* for thread b.                                                           *)
Blocks(a, b) ==
    /\ start = 0
    /\ Cardinality(waits \cup {<<a, b>>}) <= MaxWaits
    /\ ids' = add_vertex(add_vertex(ids, a), b)
    /\ next' = IF verify_edge(ids', next, a, b) THEN next ELSE add_edge(next, a, b)
    /\ waits' = waits \cup {<<a, b>>}
    /\ UNCHANGED search

(* lock_after: it has got the lock; remove_edge takes out the first such  *)
(* neighbour, if there is one.                                             *)
Unblocks(a, b) ==
    /\ start = 0
    /\ verify_edge(ids, next, a, b)
    /\ next' = remove_edge(next, a, b)
    /\ waits' = waits \ {<<a, b>>}
    /\ UNCHANGED <<ids, search>>
-----------------------------------------------------------------------------
(* search_for_cycle(i), up to its loop. *)
Begin(i) == /\ start' = i
            /\ visited' = visited \cup {ids[i]}
            /\ path' = <<ids[i]>>
            /\ todo' = <<next[ids[i]]>>

check_dead_lock == /\ start = 0
                   /\ ids # <<>>
                   /\ Begin(1)
                   /\ deadlock' = FALSE
                   /\ report' = <<>>
                   /\ UNCHANGED graph

(* The loop of search_for_cycle forgets what was visited before it calls   *)
(* DFS; the one in DFS does not.  The mutant never forgets.                *)
NotReset == visited
Seen == IF Len(todo) = 1 THEN {ids[start]} ELSE visited

(* ver = ver->next; the mutant leaves the loop. *)
NoMore(list) == <<>>
Others(list) == Tail(list)

(* The mutant forgets to mark. *)
NotMarked(a) == Seen
Marked(a) == Seen \cup {a}

Rest == [todo EXCEPT ![Len(todo)] = Others(@)]

(* A call of DFS for the next neighbour. *)
DFS == /\ start > 0
       /\ Last(todo) # <<>>
       /\ LET a == Head(Last(todo)) IN
          IF a \in Seen
            THEN /\ report' = Append(path, a)
                 /\ deadlock' = TRUE
                 /\ todo' = Rest
                 /\ visited' = Seen
                 /\ UNCHANGED path
            ELSE /\ path' = Append(path, a)
                 /\ visited' = Marked(a)
                 /\ todo' = Append(Rest, next[a])
                 /\ UNCHANGED <<report, deadlock>>
       /\ UNCHANGED <<graph, start>>

(* k-- after the return. *)
Shortened(p) == Front(p)

Return == /\ start > 0
          /\ Last(todo) = <<>>
          /\ Len(todo) > 1
          /\ todo' = Front(todo)
          /\ path' = Shortened(path)
          /\ UNCHANGED <<graph, start, visited, deadlock, report>>

(* The end of search_for_cycle and the loop of check_dead_lock; the mutant *)
(* does not count.                                                         *)
SameOne == start
NextOne == start + 1

SearchEnds ==
    /\ start > 0
    /\ todo = <<<<>>>>
    /\ IF deadlock \/ start = Len(ids)
         THEN start' = 0 /\ UNCHANGED <<path, todo, visited>>
         ELSE Begin(NextOne)
    /\ UNCHANGED <<graph, deadlock, report>>

Search == DFS \/ Return \/ SearchEnds

Next == \/ \E a, b \in Ids : Blocks(a, b) \/ Unblocks(a, b)
        \/ check_dead_lock
        \/ Search

(* The checking thread goes on with what it has begun. *)
Spec == Init /\ [][Next]_vars /\ WF_vars(Search)
-----------------------------------------------------------------------------
(* Vertices are unique, and every neighbour is one, so that search_vertex  *)
(* always finds what the search asks for.                                  *)
TypeOK ==
    /\ ids \in Seq(Ids)
    /\ IsInjective(ids)
    /\ next \in [Ids -> Seq(Ids)]
    /\ \A a \in Ids : next[a] # <<>> => {a} \cup ToSet(next[a]) \subseteq ToSet(ids)
    /\ waits \subseteq Ids \X Ids
    /\ start \in 0..Len(ids)
    /\ path \in Seq(Ids)
    /\ todo \in Seq(Seq(Ids))
    /\ visited \subseteq ToSet(ids)
    /\ deadlock \in BOOLEAN
    /\ report \in Seq(Ids)

(* The edges are the waits, in spite of lists that are searched by hand,   *)
(* but for a thread that waits for itself, whose edge verify_edge believes *)
(* to be there already.                                                    *)
EdgesAreWaits == Edges = {w \in waits : w[1] # w[2]}

(* Vertices that each have an edge to another one of them: there is such a *)
(* set if and only if there is a cycle.                                    *)
CycleSet(S) == S # {} /\ \A a \in S : \E b \in S : b \in ToSet(next[a])
HasCycle == \E S \in SUBSET Ids : CycleSet(S)

(* A check that has ended without a report has overlooked no cycle,        *)
(* although the visited marks are not reset between the branches of a      *)
(* search.                                                                 *)
FindsEveryCycle ==
    start > 0 /\ todo = <<<<>>>> /\ start = Len(ids) /\ HasCycle => deadlock

(* As long as a thread waits for one other at most, what is reported is a  *)
(* deadlock.  (A vertex reached on two ways would be reported, too.)       *)
NoFalseAlarm ==
    (\A a \in Ids : Len(next[a]) <= 1) /\ start > 0 /\ deadlock => HasCycle

(* The path that is printed follows edges all the way, however often k has *)
(* been counted up and down.                                               *)
ReportIsWalk ==
    start > 0 => \A i \in 1..(Len(report) - 1) : <<report[i], report[i + 1]>> \in Edges

(* path has one place more than there are vertices, and no more are used:  *)
(* DFS goes no deeper than there are vertices.                             *)
PathFits == Len(path) <= Len(ids) /\ Len(report) <= Len(ids) + 1

(* Every check ends. *)
CheckEnds == start > 0 ~> start = 0
=============================================================================
