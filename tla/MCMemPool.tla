----------------------------- MODULE MCMemPool -----------------------------
(* Small instances of MemPool for TLC; the unit of memory is 8 bytes.  The *)
(* structures and the alignment have the program's own sizes, the page is  *)
(* of 8 units, a multiple of the alignment as the program's 4096.          *)
EXTENDS MemPool

(* A whole page, a part of one that leaves a gap, and unaligned ones. *)
MCRequests == {[len |-> 8, aligned |-> TRUE], [len |-> 3, aligned |-> TRUE],
               [len |-> 2, aligned |-> FALSE], [len |-> 5, aligned |-> FALSE]}
=============================================================================
