------------------------------ MODULE ByteFifo ------------------------------
(***************************************************************************)
(* What a byte buffer of a fixed capacity promises: bytes come out once,   *)
(* in the order in which they went in, and nothing else comes out.  No     *)
(* array, no positions, no wrap-around.  RingBuffer and RbSpsc implement   *)
(* this specification.                                                     *)
(***************************************************************************)
EXTENDS Naturals, Sequences

CONSTANTS Bytes,
          Capacity,
          Whole      \* TRUE: a put stores all its bytes or none

VARIABLES q,         \* the bytes stored, oldest first
          got        \* the bytes the last get returned

fifoVars == <<q, got>>

Init == q = <<>> /\ got = <<>>

Room == Capacity - Len(q)

(* How many of n offered bytes are stored. *)
Accepted(n) == IF n <= Room THEN n ELSE IF Whole THEN 0 ELSE Room

Put(s) == /\ q' = q \o SubSeq(s, 1, Accepted(Len(s)))
          /\ UNCHANGED got

(* At most n bytes, as many as there are. *)
Get(n) == LET k == IF n <= Len(q) THEN n ELSE Len(q) IN
          /\ got' = SubSeq(q, 1, k)
          /\ q' = SubSeq(q, k + 1, Len(q))

Reset == q' = <<>> /\ UNCHANGED got

(* A step without a byte sequence as parameter: some bytes are stored. *)
PutSome == \E n \in 1..(Capacity + 1) : \E s \in [1..n -> Bytes] : Put(s)

Next == PutSome \/ (\E n \in 0..(Capacity + 1) : Get(n)) \/ Reset

Spec == Init /\ [][Next]_fifoVars
=============================================================================
