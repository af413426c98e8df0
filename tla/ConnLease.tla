----------------------------- MODULE ConnLease -----------------------------
(***************************************************************************)
(* What a connection pool promises its callers, with no list, lock, count  *)
(* or condition variable in sight: a connection is leased to at most one   *)
(* caller at a time, a caller has at most one lease, there are never more  *)
(* leases than the limit, and once the pool is closed no new lease is      *)
(* given.  DBPool implements this specification.                           *)
(***************************************************************************)
EXTENDS Naturals, FiniteSets

CONSTANTS Threads,  \* the callers
          Conns,    \* every connection object the process can allocate
          Limit     \* leases at a time

VARIABLES leases,   \* the pairs <<caller, connection>> of the current leases
          closed    \* TRUE once the pool is being destroyed

leaseVars == <<leases, closed>>

Init == /\ leases = {}
        /\ closed = FALSE

Lease(t, c) == /\ ~closed
               /\ Cardinality(leases) < Limit
               /\ \A l \in leases : l[1] # t /\ l[2] # c
               /\ leases' = leases \cup {<<t, c>>}
               /\ UNCHANGED closed

Return(t, c) == /\ <<t, c>> \in leases
                /\ leases' = leases \ {<<t, c>>}
                /\ UNCHANGED closed

Close == /\ closed' = TRUE
         /\ UNCHANGED leases

Next == \/ \E t \in Threads, c \in Conns : Lease(t, c) \/ Return(t, c)
        \/ Close

Spec == Init /\ [][Next]_leaseVars
=============================================================================
