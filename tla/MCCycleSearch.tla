--------------------------- MODULE MCCycleSearch ---------------------------
(* Small instances of CycleSearch for TLC. *)
EXTENDS CycleSearch
=============================================================================
