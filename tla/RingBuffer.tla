----------------------------- MODULE RingBuffer -----------------------------
(***************************************************************************)
(* The ring buffer of circular_queue/ring_buffer.{h,c}, "modelled on the   *)
(* Linux kfifo": free-running positions in and out, reduced modulo size    *)
(* when the array is indexed.                                              *)
(*                                                                         *)
(* The positions are uint32_t; Wrap is 2^32 in the code and small here.    *)
(* Every function of the interface runs under *f_lock from beginning to    *)
(* end, so that a call is one step.                                        *)
(***************************************************************************)
EXTENDS Naturals, Sequences

CONSTANTS Bytes,        \* the values of a byte
          size,         \* the size passed to ring_buffer_alloc
          Wrap          \* the modulus of the positions

ASSUME SizeAssumption == /\ size \in Nat \ {0}
                         /\ Wrap \in Nat
                         /\ size < Wrap

(* The macro is_power_of_2 of the header, in what it is for: the positions *)
(* may run through Wrap without a jump in the array.                       *)
SizeDividesWrap == Wrap % size = 0

VARIABLES buffer, in, out,
          got           \* the bytes the last ring_buffer_get copied out

vars == <<buffer, in, out, got>>

MinOf(a, b) == IF a < b THEN a ELSE b

(* uint32_t arithmetic; the mutant subtracts without the wrap. *)
NoWrapMinus(a, b) == IF a < b THEN 0 ELSE a - b
Minus(a, b) == (a + (Wrap - b)) % Wrap
Plus(a, b) == (a + b) % Wrap

ring_buffer_len == Minus(in, out)

(* malloc leaves any bytes in the array. *)
Init == /\ buffer \in [0..(size - 1) -> Bytes]
        /\ in = 0
        /\ out = 0
        /\ got = <<>>

(* The first copy goes to the end of the array, the second one starts at   *)
(* its beginning; the mutant ends the first one a byte early.              *)
OneShort(pos, n) == MinOf(n, size - 1 - (pos % size))
UntilEnd(pos, n) == MinOf(n, size - (pos % size))

(* ring_buffer_put(buf, size) of the bytes s. *)
Put(s) ==
    LET n == MinOf(Len(s), Plus(Minus(size, in), out))
        pos == in % size
        len == UntilEnd(in, n)
    IN /\ buffer' = [i \in DOMAIN buffer |->
                        IF i >= pos /\ i < pos + len THEN s[i - pos + 1]
                        ELSE IF i < n - len THEN s[len + i + 1]
                        ELSE buffer[i]]
       /\ in' = Plus(in, n)
       /\ UNCHANGED <<out, got>>

(* Line 174: an empty buffer starts again at the beginning of the array.   *)
Rewind == in' = 0 /\ out' = 0

(* ring_buffer_get of at most k bytes. *)
Get(k) ==
    LET n == MinOf(k, ring_buffer_len)
        pos == out % size
        len == UntilEnd(out, n)
    IN /\ got' = [i \in 1..n |-> IF i <= len THEN buffer[pos + i - 1]
                                 ELSE buffer[i - len - 1]]
       /\ \/ /\ in = Plus(out, n)
             /\ Rewind
          \/ /\ in # Plus(out, n)
             /\ out' = Plus(out, n)
             /\ UNCHANGED in
       /\ UNCHANGED buffer

(* ring_buffer_reset. *)
Reset == /\ in' = 0 /\ out' = 0
         /\ UNCHANGED <<buffer, got>>

MaxRequest == size + 1

Next == \/ \E n \in 1..MaxRequest : \E s \in [1..n -> Bytes] : Put(s)
        \/ \E k \in 0..MaxRequest : Get(k)
        \/ Reset

Spec == Init /\ [][Next]_vars
-----------------------------------------------------------------------------
(* Every variable has its type; the positions never drift apart by more    *)
(* than the array holds, wherever they wrap.                               *)
TypeOK ==
    /\ buffer \in [0..(size - 1) -> Bytes]
    /\ in \in 0..(Wrap - 1)
    /\ out \in 0..(Wrap - 1)
    /\ ring_buffer_len <= size
    /\ got \in Seq(Bytes)

(* The bytes between out and in, oldest first. *)
Stored == [i \in 1..ring_buffer_len |-> buffer[Plus(out, i - 1) % size]]

Fifo == INSTANCE ByteFifo WITH q <- Stored, Capacity <- size, Whole <- FALSE

(* The ring buffer is a FIFO: a put stores as many bytes as there is room  *)
(* for, a get returns the oldest bytes, whole, in order and no others,     *)
(* also when the bytes or the positions wrap around and when the buffer    *)
(* runs empty and is rewound.  It needs a size that divides 2^32; with any *)
(* other size, which ring_buffer_alloc accepts (the check "size must be    *)
(* power of 2." is compiled out), the bytes are scrambled when a position  *)
(* passes 2^32.                                                            *)
ImplementsFifo == Fifo!Spec

(* No slot of the array holds two of the stored bytes at once: what "size  *)
(* must be power of 2." (lines 22 and 47) is there to ensure, when a       *)
(* position passes 2^32.                                                   *)
OneByteASlot ==
    \A i, j \in 1..ring_buffer_len :
        Plus(out, i - 1) % size = Plus(out, j - 1) % size => i = j
=============================================================================
