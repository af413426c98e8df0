----------------------------- MODULE WaitGraph -----------------------------
(***************************************************************************)
(* The graph of deadlock_success.c and its operations: a list of vertices, *)
(* in the order they came, and of each the list of its neighbours.         *)
(* CycleSearch and LockHooks say when it changes.                          *)
(***************************************************************************)
EXTENDS SequencesExt

CONSTANT Ids         \* of threads

VARIABLES ids,       \* tg->list: the vertices in the order they came
          next       \* their adjacency lists

(* A vertex comes once, behind the others. *)
add_vertex(list, a) == IF a \in ToSet(list) THEN list ELSE Append(list, a)

(* The walk along the list begins at the vertex itself.  The mutant finds  *)
(* nothing.                                                                *)
NeverThere(list, adj, a, b) == FALSE
verify_edge(list, adj, a, b) == a \in ToSet(list) /\ b \in {a} \cup ToSet(adj[a])

(* The new neighbour comes last; its callers have added both vertices. *)
add_edge(adj, a, b) == [adj EXCEPT ![a] = Append(@, b)]

(* The first such neighbour, if there is one. *)
remove_edge(adj, a, b) == [adj EXCEPT ![a] = RemoveFirst(@, b)]
=============================================================================
