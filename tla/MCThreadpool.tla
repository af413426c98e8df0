---------------------------- MODULE MCThreadpool ----------------------------
(* Small instances of Threadpool for TLC. *)
EXTENDS Threadpool
=============================================================================
