---------------------------- MODULE MCRsuSession ----------------------------
(* Small instances of RsuSession for TLC. *)
EXTENDS RsuSession, TLC

(* Connections are not compared with one another. *)
Symmetry == Permutations(Lws)
=============================================================================
