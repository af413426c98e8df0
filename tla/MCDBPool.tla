------------------------------ MODULE MCDBPool ------------------------------
(* Small instances of DBPool for TLC. *)
EXTENDS DBPool
=============================================================================
