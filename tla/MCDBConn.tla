------------------------------ MODULE MCDBConn ------------------------------
(* Small instances of DBConn for TLC. *)
EXTENDS DBConn, TLC

(* Neither threads nor connections are compared with one another. *)
Symmetry == Permutations(Threads) \cup Permutations(Conns)
=============================================================================
