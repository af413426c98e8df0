------------------------------ MODULE MCRbSpsc ------------------------------
(* Small instances of RbSpsc for TLC. *)
EXTENDS RbSpsc
=============================================================================
