------------------------------- MODULE RbSpsc -------------------------------
(***************************************************************************)
(* The lock-free ring buffer of circular_queue/ringbuf.h: one producer     *)
(* thread calls rb_write, one consumer thread rb_read or rb_readline, and  *)
(* nothing but the order of the accesses keeps them apart.  USE_BARRIER is *)
(* defined: each side samples the other's position, copies byte by byte    *)
(* and moves its own position last, in this order.  rb_readline has no     *)
(* barrier; its order is the program's, which the compiler must keep (buf, *)
(* a pointer to char, may point into the ring) and x86 keeps, too.         *)
(*                                                                         *)
(* The positions are unsigned int; Wrap is 2^32 in the code.               *)
(***************************************************************************)
EXTENDS Naturals, Sequences

CONSTANTS Bytes, Newline,
          Requested,    \* the size passed to rb_init
          Wrap,         \* the modulus of the positions
          MaxRequest,   \* bound: the longest rb_write and rb_read
          AnyTime       \* FALSE: rb_readline is called only while a line
                        \* is stored or no newline is anywhere

ASSUME RbAssumption == /\ Requested \in Nat
                       /\ MaxRequest \in Nat \ {0}
                       /\ AnyTime \in BOOLEAN

MinOf(a, b) == IF a < b THEN a ELSE b
Minus(a, b) == (a + (Wrap - b)) % Wrap
Plus(a, b) == (a + b) % Wrap

is_power_of_two(num) == \E i \in 1..num : num = 2^i

(* As many doublings as num has binary digits. *)
roundup_power_of_two(num) ==
    IF num = 0 THEN 2
    ELSE CHOOSE p \in {2^i : i \in 1..num} : num < p /\ p <= 2 * num

(* rb_init; the mutant forgets to round. *)
AsRequested(sz) == sz
Rounded(sz) == IF is_power_of_two(sz) THEN sz ELSE roundup_power_of_two(sz)
size == Rounded(Requested)

(* What the rounding is for: the mask never jumps when a position passes   *)
(* Wrap.                                                                   *)
SizeDividesWrap == /\ size \in Nat \ {0}
                   /\ Wrap \in Nat
                   /\ size < Wrap
                   /\ Wrap % size = 0

Slot(pos) == pos % size           \* pos & (r->size - 1)

VARIABLES buf, write_pos, read_pos,
          wr,       \* the producer: what it writes and how much is copied
          rd,       \* the consumer: sz, sampled or asked for, and the copy
          got,      \* what the last call of the consumer returned
          lines     \* does the producer ever write a newline?

vars == <<buf, write_pos, read_pos, wr, rd, got, lines>>

rb_len == Minus(write_pos, read_pos)
rb_remain == Plus(Minus(size, write_pos), read_pos)

(* The bytes between read_pos and write_pos, oldest first. *)
Stored == [i \in 1..rb_len |-> buf[Slot(Plus(read_pos, i - 1))]]

WriterIdle == [pc |-> "idle", s |-> <<>>, i |-> 0]
ReaderIdle == [pc |-> "idle", sz |-> 0, s |-> <<>>]

Stream == IF lines THEN Bytes ELSE Bytes \ {Newline}

(* malloc leaves any bytes, newlines among them. *)
Init == /\ lines \in BOOLEAN
        /\ buf \in [0..(size - 1) -> Bytes]
        /\ write_pos = 0
        /\ read_pos = 0
        /\ wr = WriterIdle
        /\ rd = ReaderIdle
        /\ got = <<>>
-----------------------------------------------------------------------------
(* rb_write: lines 70 to 73; a call with too little room changes nothing.  *)
TooMany(sz) == sz > rb_remain

WriteCall(s) ==
    /\ wr.pc = "idle"
    /\ s \in Seq(Stream)
    /\ ~TooMany(Len(s))
    /\ wr' = [pc |-> "copy", s |-> s, i |-> 0]
    /\ UNCHANGED <<buf, write_pos, read_pos, rd, got, lines>>

WriteByte ==
    /\ wr.pc = "copy"
    /\ wr.i < Len(wr.s)
    /\ buf' = [buf EXCEPT ![Slot(Plus(write_pos, wr.i))] = wr.s[wr.i + 1]]
    /\ wr' = [wr EXCEPT !.i = @ + 1]
    /\ UNCHANGED <<write_pos, read_pos, rd, got, lines>>

(* Lines 85 to 88: without the barrier the position may move first. *)
WriteBarrier == wr.i = Len(wr.s)

WriteReturn ==
    /\ wr.pc = "copy"
    /\ WriteBarrier
    /\ write_pos' = Plus(write_pos, Len(wr.s))
    /\ wr' = WriterIdle
    /\ UNCHANGED <<buf, read_pos, rd, got, lines>>
-----------------------------------------------------------------------------
(* rb_read: lines 95 to 100; a call on an empty buffer changes nothing.    *)
(* min reads write_pos for the comparison and, if it takes the stored      *)
(* length, reads it once more.                                             *)
ReadCall(sz) ==
    /\ rd.pc = "idle"
    /\ read_pos # write_pos
    /\ rd' = [pc |-> IF sz < rb_len THEN "copy" ELSE "sample", sz |-> sz, s |-> <<>>]
    /\ UNCHANGED <<buf, write_pos, read_pos, wr, got, lines>>

ReadSample ==
    /\ rd.pc = "sample"
    /\ rd' = [rd EXCEPT !.pc = "copy", !.sz = rb_len]
    /\ UNCHANGED <<buf, write_pos, read_pos, wr, got, lines>>

NextByte == buf[Slot(Plus(read_pos, Len(rd.s)))]

ReadByte ==
    /\ rd.pc = "copy"
    /\ Len(rd.s) < rd.sz
    /\ rd' = [rd EXCEPT !.s = Append(@, NextByte)]
    /\ UNCHANGED <<buf, write_pos, read_pos, wr, got, lines>>

(* Lines 111 to 114: without the barrier the slots are given back before   *)
(* they have been copied.                                                  *)
NoReadBarrier == TRUE
ReadBarrier == Len(rd.s) = rd.sz

ReadReturn ==
    /\ rd.pc = "copy"
    /\ ReadBarrier
    /\ read_pos' = Plus(read_pos, rd.sz)
    /\ got' = rd.s
    /\ rd' = ReaderIdle
    /\ UNCHANGED <<buf, write_pos, wr, lines>>
-----------------------------------------------------------------------------
LineStored == \E i \in 1..rb_len : Stored[i] = Newline

(* No newline in the whole array, whatever malloc has left there, and none *)
(* to come.                                                                *)
NoNewline == ~lines /\ \A i \in 0..(size - 1) : buf[i] # Newline

ReadlineCall(sz) ==
    /\ rd.pc = "idle"
    /\ read_pos # write_pos
    /\ AnyTime \/ LineStored \/ NoNewline
    /\ rd' = [pc |-> "line", sz |-> sz, s |-> <<>>]
    /\ UNCHANGED <<buf, write_pos, read_pos, wr, got, lines>>

(* Line 124: the loop goes on while either limit allows it; the length is  *)
(* sampled again in every round.                                           *)
LoopGoesOn == Len(rd.s) < rb_len \/ Len(rd.s) <= rd.sz

(* One round of the loop; rd.s holds the bytes copied so far. *)
ReadlineByte ==
    /\ rd.pc = "line"
    /\ LoopGoesOn
    /\ IF NextByte = Newline
         THEN /\ read_pos' = Plus(read_pos, Len(rd.s) + 1)
              /\ got' = Append(rd.s, NextByte)
              /\ rd' = ReaderIdle
         ELSE /\ rd' = [rd EXCEPT !.s = Append(@, NextByte)]
              /\ UNCHANGED <<read_pos, got>>
    /\ UNCHANGED <<buf, write_pos, wr, lines>>

(* No newline: nothing is consumed; the mutant takes a byte. *)
Dropped == read_pos' = Plus(read_pos, 1)
Kept == read_pos' = read_pos

ReadlineFails ==
    /\ rd.pc = "line"
    /\ ~LoopGoesOn
    /\ rd' = ReaderIdle
    /\ Kept
    /\ UNCHANGED <<buf, write_pos, wr, got, lines>>
-----------------------------------------------------------------------------
(* rb_clear moves both positions: no thread may be inside a call. *)
Clear == /\ wr.pc = "idle"
         /\ rd.pc = "idle"
         /\ write_pos' = 0
         /\ read_pos' = 0
         /\ UNCHANGED <<buf, wr, rd, got, lines>>

Producer == \/ \E n \in 1..MaxRequest : \E s \in [1..n -> Bytes] : WriteCall(s)
            \/ WriteByte
            \/ WriteReturn

Consumer == \/ \E sz \in 1..MaxRequest : ReadCall(sz) \/ ReadlineCall(sz)
            \/ ReadSample
            \/ ReadByte
            \/ ReadReturn
            \/ ReadlineByte
            \/ ReadlineFails

Next == Producer \/ Consumer \/ Clear

Spec == Init /\ [][Next]_vars
-----------------------------------------------------------------------------
(* Every variable has its type; the consumer's position never overtakes    *)
(* the producer's, nor the producer's the consumer's by more than the      *)
(* array holds, also across the wrap of the positions.                     *)
TypeOK ==
    /\ buf \in [0..(size - 1) -> Bytes]
    /\ write_pos \in 0..(Wrap - 1)
    /\ read_pos \in 0..(Wrap - 1)
    /\ rb_len <= size
    /\ wr \in [pc : {"idle", "copy"}, s : Seq(Bytes), i : Nat]
    /\ rd \in [pc : {"idle", "sample", "copy", "line"}, sz : Nat, s : Seq(Bytes)]
    /\ got \in Seq(Bytes)
    /\ lines \in BOOLEAN

(* The bytes that rb_write is filling in (lines 82 and 83) never share a   *)
(* slot with one another or with a byte that is stored and that the        *)
(* consumer may be copying at this moment.                                 *)
WriterKeepsOff ==
    \A i, j \in 0..(rb_len + Len(wr.s) - 1) :
        Slot(Plus(read_pos, i)) = Slot(Plus(read_pos, j)) => i = j

Fifo == INSTANCE ByteFifo WITH q <- Stored, Capacity <- size, Whole <- TRUE

(* The two threads together are a FIFO of bytes: a write is stored as a    *)
(* whole or not at all and becomes visible at once, a read returns the     *)
(* oldest bytes, and neither ever sees the other's unfinished work.        *)
(* rb_readline fits in (AnyTime = FALSE) only while a whole line is stored *)
(* or where there is no newline at all, left over or to come.              *)
ImplementsFifo == Fifo!Spec

(* rb_write makes its bytes visible all at once, complete and behind those *)
(* already stored, although the consumer goes on reading meanwhile and may *)
(* have moved read_pos since rb_write looked at it.                        *)
WrittenIsStored ==
    [][wr.pc = "copy" /\ wr'.pc = "idle" => Stored' = Stored \o wr.s]_vars

(* rb_read returns at most sz bytes: its buffer is no longer.  It does not *)
(* keep to that: the producer may store more between the two samples of    *)
(* its length.                                                             *)
NoMoreThanAsked == [][rd.pc = "sample" => rd'.sz <= rd.sz]_vars

(* read_pos is "the next readable position" (line 15), so it is never past *)
(* write_pos.  rb_readline goes on to line 124's second limit, over bytes  *)
(* long consumed or never written, and if one is a newline it moves        *)
(* read_pos behind it.                                                     *)
ReadBehindWrite == rb_len <= size
=============================================================================
