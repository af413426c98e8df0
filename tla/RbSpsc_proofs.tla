---------------------------- MODULE RbSpsc_proofs ---------------------------
(***************************************************************************)
(* Theorems about RbSpsc for every size that divides the modulus of the    *)
(* positions (SizeDividesWrap, what rb_init rounds for) and a consumer     *)
(* that calls rb_readline only while a line is stored, or where there is   *)
(* no newline at all (AnyTime = FALSE).  The array begins with any bytes.  *)
(***************************************************************************)
EXTENDS RbSpsc, ModArith, SequenceTheorems

(* The producer has room for all it writes and has copied the first wr.i   *)
(* bytes.                                                                  *)
WriterInv ==
    /\ wr.pc = "idle" => wr = WriterIdle
    /\ wr.pc = "copy" =>
          /\ wr.i <= Len(wr.s)
          /\ 1 <= Len(wr.s)
          /\ rb_len + Len(wr.s) <= size
          /\ \A j \in 0..(wr.i - 1) : buf[Slot(Plus(write_pos, j))] = wr.s[j + 1]

(* The consumer has copied the oldest stored bytes; a line it looks for    *)
(* ends beyond them, unless there is none to be found.                     *)
ReaderInv ==
    /\ rd.pc = "idle" => rd = ReaderIdle
    /\ rd.pc = "sample" => rd.s = <<>>
    /\ rd.pc = "copy" => /\ rd.sz <= rb_len
                         /\ Len(rd.s) <= rd.sz
    /\ rd.pc = "line" => NoNewline \/ \E e \in 1..rb_len : Len(rd.s) < e /\ Stored[e] = Newline
    /\ rd.pc # "line" \/ ~NoNewline => \A i \in 1..Len(rd.s) : rd.s[i] = Stored[i]

(* In a stream without lines what is being written has none; the array may *)
(* have some from before.                                                  *)
NoLines == ~lines => \A i \in 1..Len(wr.s) : wr.s[i] # Newline

IInv == TypeOK /\ WriterInv /\ ReaderInv /\ NoLines
-----------------------------------------------------------------------------
LEMMA Arithmetic ==
    ASSUME SizeDividesWrap
    PROVE /\ \A a, b : Minus(a, b) = Sub(Wrap, a, b)
          /\ \A a, b : Plus(a, b) = Add(Wrap, a, b)
          /\ Wrap \in Nat \ {0} /\ Wrap % size = 0
          /\ size \in Nat \ {0} /\ size \in Nat /\ size < Wrap
<1> HIDE DEF size
<1> QED
  BY DEF Minus, Plus, Sub, Add, SizeDividesWrap

LEMMA ZeroMinusZero == ASSUME SizeDividesWrap PROVE Minus(0, 0) = 0
<1>1. Sub(Wrap, 0, 0) = 0
  BY Arithmetic, ModOnce DEF Sub
<1> QED
  BY <1>1, Arithmetic

(* A position names a slot of the array. *)
LEMMA SlotInArray == ASSUME SizeDividesWrap, NEW o \in Nat, NEW k \in Nat
                     PROVE Slot(Plus(o, k)) \in 0..(size - 1)
<1> DEFINE x == o + k
<1>1. x \in Nat
  OBVIOUS
<1>2. (x % Wrap) % size \in 0..(size - 1)
  <2> HIDE DEF x
  <2>1. x % Wrap \in Nat
    BY <1>1, Arithmetic, ModRange
  <2> QED
    BY <2>1, Arithmetic, ModRange
<1> QED
  BY <1>2 DEF Plus, Slot

(* Positions less than size apart have different slots. *)
LEMMA SlotsApart ==
    ASSUME SizeDividesWrap, NEW o \in Nat, NEW i \in Nat, NEW j \in Nat,
           i < j + size, j < i + size,
           Slot(Plus(o, i)) = Slot(Plus(o, j))
    PROVE i = j
<1>1. Add(Wrap, o, i) % size = Add(Wrap, o, j) % size
  BY Arithmetic DEF Slot
<1> QED
  BY <1>1, Arithmetic, SlotsDiffer

(* The stored bytes are a sequence of bytes, all in slots of the array. *)
StoredIsBytes ==
    /\ rb_len \in 0..size
    /\ rb_len \in Nat
    /\ Stored \in Seq(Bytes)
    /\ Len(Stored) = rb_len
    /\ \A i \in 1..rb_len : /\ Stored[i] = buf[Slot(Plus(read_pos, i - 1))]
                            /\ Stored[i] \in Bytes

LEMMA StoredType == ASSUME SizeDividesWrap PROVE TypeOK => StoredIsBytes
<1> SUFFICES ASSUME TypeOK PROVE StoredIsBytes
  OBVIOUS
<1>1. rb_len \in 0..size /\ rb_len \in Nat
  <2>1. rb_len \in 0..size
    BY Arithmetic, Distances DEF TypeOK, rb_len
  <2> QED
    BY <2>1, Arithmetic
<1>2. ASSUME NEW i \in 1..rb_len
      PROVE buf[Slot(Plus(read_pos, i - 1))] \in Bytes
  <2>1. Slot(Plus(read_pos, i - 1)) \in 0..(size - 1)
    <3>1. read_pos \in Nat /\ i - 1 \in Nat
      BY <1>1, Arithmetic DEF TypeOK
    <3> QED
      BY <3>1, SlotInArray
  <2> QED
    BY <2>1 DEF TypeOK
<1>3. Stored \in [1..rb_len -> Bytes]
  BY <1>2 DEF Stored
<1> HIDE DEF Stored
<1>4. Stored \in Seq(Bytes) /\ Len(Stored) = rb_len
  BY <1>1, <1>3
<1>5. \A i \in 1..rb_len : Stored[i] = buf[Slot(Plus(read_pos, i - 1))]
  BY DEF Stored
<1> QED
  BY <1>1, <1>2, <1>4, <1>5 DEF StoredIsBytes

(* How the length follows a position that moves. *)
LEMMA Moves ==
    ASSUME SizeDividesWrap, TypeOK
    PROVE /\ rb_remain = size - rb_len
          /\ \A n \in 0..(size - rb_len) :
                /\ Plus(write_pos, n) \in 0..(Wrap - 1)
                /\ Minus(Plus(write_pos, n), read_pos) = rb_len + n
                /\ Plus(write_pos, n) = Plus(read_pos, rb_len + n)
          /\ \A n \in 0..rb_len :
                /\ Plus(read_pos, n) \in 0..(Wrap - 1)
                /\ Minus(write_pos, Plus(read_pos, n)) = rb_len - n
BY Arithmetic, Distances DEF TypeOK, rb_len, rb_remain

(* While the positions stand still and no stored slot is written, the      *)
(* stored bytes stay.                                                      *)
LEMMA StoredStays ==
    ASSUME UNCHANGED <<write_pos, read_pos>>,
           \A i \in 1..rb_len : buf'[Slot(Plus(read_pos, i - 1))]
                                  = buf[Slot(Plus(read_pos, i - 1))]
    PROVE Stored' = Stored /\ rb_len' = rb_len
<1>1. rb_len' = rb_len
  BY DEF rb_len
<1>2. Stored' = [i \in 1..rb_len |-> buf'[Slot(Plus(read_pos, i - 1))]]
  BY <1>1 DEF Stored
<1> QED
  BY <1>1, <1>2 DEF Stored

(* A byte being written goes to a slot that holds no stored byte. *)
LEMMA WriteByteStays ==
    ASSUME SizeDividesWrap, IInv, WriteByte
    PROVE Stored' = Stored /\ rb_len' = rb_len
<1>1. StoredIsBytes
  BY StoredType DEF IInv
<1>2. /\ wr.i \in Nat /\ wr.i < Len(wr.s) /\ Len(wr.s) \in Nat
      /\ rb_len + Len(wr.s) <= size
      /\ read_pos \in Nat
  BY DEF IInv, TypeOK, WriterInv, WriteByte
<1>3. ASSUME NEW i \in 1..rb_len
      PROVE buf'[Slot(Plus(read_pos, i - 1))] = buf[Slot(Plus(read_pos, i - 1))]
  <2> DEFINE a == i - 1
             b == rb_len + wr.i
  <2>1. a \in Nat /\ b \in Nat /\ a < b + size /\ b < a + size /\ a # b
    <3>1. rb_len \in Nat /\ rb_len <= size /\ size \in Nat
      BY <1>1, Arithmetic DEF StoredIsBytes
    <3>2. rb_len + wr.i < size
      BY <1>2, <3>1
    <3> QED
      BY <1>2, <3>1, <3>2
  <2>2. Plus(write_pos, wr.i) = Plus(read_pos, b)
    <3>1. wr.i \in 0..(size - rb_len)
      BY <1>1, <1>2, Arithmetic DEF StoredIsBytes
    <3> QED
      BY <3>1, Moves DEF IInv
  <2> HIDE DEF a, b
  <2>3. Slot(Plus(read_pos, a)) # Slot(Plus(read_pos, b))
    BY <1>2, <2>1, SlotsApart
  <2>4. buf'[Slot(Plus(read_pos, a))] = buf[Slot(Plus(read_pos, a))]
    BY <2>2, <2>3 DEF WriteByte, IInv, TypeOK
  <2> QED
    BY <2>4 DEF a
<1> QED
  BY <1>3, StoredStays DEF WriteByte

(* The end of rb_write appends its bytes to the stored ones. *)
LEMMA WriteReturnAppends ==
    ASSUME SizeDividesWrap, IInv, WriteReturn
    PROVE /\ write_pos' \in 0..(Wrap - 1)
          /\ rb_len' = rb_len + Len(wr.s)
          /\ rb_len' <= size
          /\ Stored' = Stored \o wr.s
<1> DEFINE n == Len(wr.s)
           L == rb_len
<1>1. /\ n \in Nat /\ L \in Nat /\ L + n <= size
      /\ wr.s \in Seq(Bytes)
      /\ wr.i = n
      /\ \A j \in 0..(n - 1) : buf[Slot(Plus(write_pos, j))] = wr.s[j + 1]
  <2>1. L \in Nat
    BY StoredType DEF IInv, StoredIsBytes
  <2> QED
    BY <2>1 DEF IInv, TypeOK, WriterInv, WriteReturn, WriteBarrier
<1>2. n \in 0..(size - L) /\ write_pos' = Plus(write_pos, n) /\ read_pos' = read_pos
      /\ buf' = buf
  BY <1>1, Arithmetic DEF WriteReturn
<1>3. /\ write_pos' \in 0..(Wrap - 1)
      /\ rb_len' = L + n
  BY <1>2, Moves DEF IInv, rb_len
<1>4. /\ Stored \in Seq(Bytes) /\ Len(Stored) = L
      /\ \A i \in 1..L : Stored[i] = buf[Slot(Plus(read_pos, i - 1))]
  BY StoredType DEF IInv, StoredIsBytes
<1>5. /\ Stored \o wr.s \in Seq(Bytes)
      /\ Len(Stored \o wr.s) = L + n
      /\ \A i \in 1..(L + n) : (Stored \o wr.s)[i] =
            IF i <= L THEN Stored[i] ELSE wr.s[i - L]
  BY <1>1, <1>4, ConcatProperties
<1>6. Stored' = [i \in 1..(L + n) |-> buf[Slot(Plus(read_pos, i - 1))]]
  BY <1>2, <1>3 DEF Stored, Slot, Plus
<1>7. ASSUME NEW i \in 1..(L + n)
      PROVE buf[Slot(Plus(read_pos, i - 1))] = (Stored \o wr.s)[i]
  <2>1. CASE i <= L
    BY <1>1, <1>4, <1>5, <2>1
  <2>2. CASE i > L
    <3> DEFINE j == i - 1 - L
    <3>1. j \in 0..(n - 1) /\ j \in 0..(size - L) /\ L + j = i - 1 /\ j + 1 = i - L
      BY <1>1, <2>2, Arithmetic
    <3>2. Plus(write_pos, j) = Plus(read_pos, i - 1)
      BY <3>1, Moves DEF IInv
    <3> HIDE DEF j, n, L
    <3>3. buf[Slot(Plus(read_pos, i - 1))] = wr.s[j + 1]
      BY <1>1, <3>1, <3>2
    <3>4. (Stored \o wr.s)[i] = wr.s[i - L]
      BY <1>1, <1>5, <2>2
    <3> QED
      BY <3>1, <3>3, <3>4
  <2> HIDE DEF n, L
  <2>3. i <= L \/ i > L
    BY <1>1
  <2> QED
    BY <2>1, <2>2, <2>3
<1> HIDE DEF n, L
<1>8. Stored' = Stored \o wr.s
  <2>1. \A i \in 1..(L + n) : (Stored \o wr.s)[i] \in Bytes
    BY <1>5
  <2>2. Stored' \in [1..(L + n) -> Bytes]
    BY <1>6, <1>7, <2>1
  <2>3. L + n \in Nat
    BY <1>1
  <2>4. Stored' \in Seq(Bytes) /\ Len(Stored') = L + n
    BY <2>2, <2>3
  <2> QED
    BY <1>5, <1>6, <1>7, <2>4, SeqEqual
<1> QED
  BY <1>1, <1>3, <1>8 DEF n, L

(* When the consumer moves read_pos the oldest bytes go and the others     *)
(* stay, and the producer is not disturbed.                                *)
LEMMA ConsumeTakes ==
    ASSUME SizeDividesWrap, IInv, NEW k \in 0..rb_len,
           read_pos' = Plus(read_pos, k), UNCHANGED <<buf, write_pos, wr>>
    PROVE /\ read_pos' \in 0..(Wrap - 1)
          /\ rb_len' = rb_len - k
          /\ rb_len' <= size
          /\ Stored' = SubSeq(Stored, k + 1, Len(Stored))
          /\ WriterInv'
<1> DEFINE L == rb_len
<1>1. /\ L \in Nat /\ k \in Nat /\ k <= L /\ L <= size
      /\ Stored \in Seq(Bytes) /\ Len(Stored) = L
      /\ \A i \in 1..L : /\ Stored[i] = buf[Slot(Plus(read_pos, i - 1))]
                         /\ Stored[i] \in Bytes
  BY StoredType, Arithmetic DEF IInv, StoredIsBytes
<1>2. /\ read_pos' \in 0..(Wrap - 1)
      /\ rb_len' = L - k
  BY Moves DEF IInv, rb_len
<1>3. Stored' = [i \in 1..(L - k) |-> buf[Slot(Plus(Plus(read_pos, k), i - 1))]]
  BY <1>2 DEF Stored, Slot, Plus
<1> DEFINE rest == SubSeq(Stored, k + 1, L)
<1>4. /\ rest \in Seq(Bytes) /\ Len(rest) = L - k
      /\ \A i \in 1..(L - k) : rest[i] = Stored[k + i]
  <2>1. \A i \in (k + 1)..L : Stored[i] \in Bytes
    BY <1>1
  <2>2. /\ rest \in Seq(Bytes)
        /\ Len(rest) = IF k + 1 <= L THEN L - (k + 1) + 1 ELSE 0
        /\ \A i \in 1..(L - (k + 1) + 1) : rest[i] = Stored[k + 1 + i - 1]
    <3> HIDE DEF L
    <3> QED
      BY <1>1, <2>1, SubSeqProperties
  <2>3. L - (k + 1) + 1 = L - k /\ (~(k + 1 <= L) => L - k = 0)
    BY <1>1
  <2>4. \A i \in 1..(L - k) : k + 1 + i - 1 = k + i
    BY <1>1
  <2> HIDE DEF rest, L
  <2> QED
    BY <2>2, <2>3, <2>4
<1> HIDE DEF rest, L
<1>5. ASSUME NEW i \in 1..(L - k)
      PROVE buf[Slot(Plus(Plus(read_pos, k), i - 1))] = rest[i]
  <2>1. k + i \in 1..L /\ k + (i - 1) = (k + i) - 1 /\ i - 1 \in Nat
    BY <1>1
  <2>2. Plus(Plus(read_pos, k), i - 1) = Plus(read_pos, k + (i - 1))
    <3>1. read_pos \in Nat /\ k \in Nat /\ i - 1 \in Nat
      BY <1>1, <2>1, Arithmetic DEF IInv, TypeOK
    <3>2. Wrap \in Nat \ {0} /\ \A a, b : Plus(a, b) = Add(Wrap, a, b)
      BY Arithmetic
    <3> QED
      BY <3>1, <3>2, AddAdd
  <2> QED
    BY <1>1, <1>4, <2>1, <2>2
<1>6. Stored' = rest
  <2>1. \A i \in 1..(L - k) : rest[i] \in Bytes
    BY <1>4
  <2>2. Stored' \in [1..(L - k) -> Bytes]
    BY <1>3, <1>5, <2>1
  <2>3. L - k \in Nat
    BY <1>1
  <2>4. Stored' \in Seq(Bytes) /\ Len(Stored') = L - k
    BY <2>2, <2>3
  <2> QED
    BY <1>3, <1>4, <1>5, <2>4, SeqEqual
<1>7. WriterInv'
  <2>1. rb_len' <= rb_len /\ rb_len' \in Int /\ rb_len \in Int
    BY <1>1, <1>2 DEF L
  <2>2. wr' = wr /\ buf' = buf /\ write_pos' = write_pos
    OBVIOUS
  <2>3. wr.pc = "copy" => rb_len' + Len(wr.s) <= size
    BY <2>1, Arithmetic DEF IInv, WriterInv, TypeOK
  <2> QED
    BY <2>2, <2>3 DEF IInv, WriterInv, Slot, Plus, WriterIdle
<1>8. rb_len' <= size
  BY <1>1, <1>2, Arithmetic
<1> QED
  BY <1>1, <1>2, <1>6, <1>7, <1>8 DEF rest, L
-----------------------------------------------------------------------------
(* The next byte of the consumer is a stored one while there are more.     *)
LEMMA NextByteIsStored ==
    ASSUME SizeDividesWrap, IInv, Len(rd.s) < rb_len
    PROVE /\ Len(rd.s) + 1 \in 1..rb_len
          /\ NextByte = Stored[Len(rd.s) + 1]
          /\ NextByte \in Bytes
<1>1. StoredIsBytes
  BY StoredType DEF IInv
<1>2. Len(rd.s) \in Nat
  BY DEF IInv, TypeOK
<1>3. Len(rd.s) + 1 \in 1..rb_len /\ (Len(rd.s) + 1) - 1 = Len(rd.s)
  BY <1>1, <1>2 DEF StoredIsBytes
<1> QED
  BY <1>1, <1>3 DEF StoredIsBytes, NextByte

(* Whatever leaves the stored bytes and the consumer alone keeps its part  *)
(* of the invariant; the same for the producer.                            *)
LEMMA ReaderKept ==
    ASSUME ReaderInv, rd' = rd, Stored' = Stored, rb_len' = rb_len, NoNewline => NoNewline'
    PROVE ReaderInv'
BY DEF ReaderInv, ReaderIdle

LEMMA WriterKept ==
    ASSUME WriterInv, UNCHANGED <<wr, buf, write_pos>>, rb_len' = rb_len
    PROVE WriterInv'
BY DEF WriterInv, WriterIdle, Slot, Plus

LEMMA NoLinesKept ==
    ASSUME NoLines, UNCHANGED <<wr, lines>>
    PROVE NoLines'
BY DEF NoLines

LEMMA NothingMoves ==
    ASSUME UNCHANGED <<buf, write_pos, read_pos>>
    PROVE Stored' = Stored /\ rb_len' = rb_len
BY DEF Stored, rb_len, Slot, Plus

LEMMA NoNewlineKept == UNCHANGED <<buf, lines>> => NoNewline' = NoNewline
BY DEF NoNewline

LEMMA WriteCallInv ==
    ASSUME SizeDividesWrap, IInv, NEW n \in 1..MaxRequest, NEW s \in [1..n -> Bytes],
           WriteCall(s)
    PROVE IInv'
<1>1. s \in Seq(Bytes) /\ Len(s) = n /\ n \in Nat \ {0}
  BY RbAssumption
<1>2. Stored' = Stored /\ rb_len' = rb_len
  BY NothingMoves DEF WriteCall
<1>3. rb_len + n <= size
  <2>1. StoredIsBytes
    BY StoredType DEF IInv
  <2>2. ~(n > size - rb_len)
    BY <1>1, Moves DEF WriteCall, TooMany, IInv
  <2> QED
    BY <1>1, <2>1, <2>2, Arithmetic DEF StoredIsBytes
<1>4. wr' = [pc |-> "copy", s |-> s, i |-> 0]
  BY DEF WriteCall
<1>5. TypeOK'
  BY <1>1, <1>2, <1>4 DEF IInv, TypeOK, WriteCall
<1>6. WriterInv'
  BY <1>1, <1>2, <1>3, <1>4 DEF WriterInv
<1>7. ReaderInv'
  BY <1>2, ReaderKept, NoNewlineKept DEF IInv, WriteCall
<1>8. NoLines'
  <2>1. lines' = lines /\ buf' = buf /\ s \in Seq(Stream)
    BY DEF WriteCall
  <2>2. ~lines => \A i \in 1..n : s[i] # Newline
    BY <1>1, <2>1 DEF Stream
  <2> QED
    BY <1>1, <1>4, <2>1, <2>2 DEF IInv, NoLines
<1> QED
  BY <1>5, <1>6, <1>7, <1>8 DEF IInv

LEMMA WriteByteInv ==
    ASSUME SizeDividesWrap, IInv, WriteByte
    PROVE IInv'
<1>1. Stored' = Stored /\ rb_len' = rb_len
  BY WriteByteStays
<1>2. /\ wr.i \in Nat /\ wr.i < Len(wr.s) /\ Len(wr.s) \in Nat
      /\ wr.s \in Seq(Bytes)
      /\ wr.s[wr.i + 1] \in Bytes
      /\ wr' = [wr EXCEPT !.i = wr.i + 1]
      /\ wr'.i = wr.i + 1 /\ wr'.s = wr.s /\ wr'.pc = "copy"
  <2>1. wr.i \in Nat /\ wr.i < Len(wr.s) /\ wr.s \in Seq(Bytes)
    BY DEF IInv, TypeOK, WriteByte
  <2>2. wr.i + 1 \in 1..Len(wr.s)
    BY <2>1
  <2> QED
    BY <2>1, <2>2 DEF IInv, TypeOK, WriteByte
<1>3. TypeOK'
  <2>1. buf' \in [0..(size - 1) -> Bytes]
    BY <1>2 DEF IInv, TypeOK, WriteByte
  <2>2. wr' \in [pc : {"idle", "copy"}, s : Seq(Bytes), i : Nat]
    <3>1. wr \in [pc : {"idle", "copy"}, s : Seq(Bytes), i : Nat]
      BY DEF IInv, TypeOK
    <3> QED
      BY <1>2, <3>1
  <2>3. UNCHANGED <<write_pos, read_pos, rd, got, lines>>
    BY DEF WriteByte
  <2> QED
    BY <1>1, <2>1, <2>2, <2>3 DEF IInv, TypeOK
<1>4. WriterInv'
  <2>1. rb_len + Len(wr.s) <= size /\ 1 <= Len(wr.s)
    BY DEF IInv, WriterInv, WriteByte
  <2>2. ASSUME NEW j \in 0..wr.i
        PROVE buf'[Slot(Plus(write_pos, j))] = wr.s[j + 1]
    <3>1. /\ write_pos \in Nat /\ j \in Nat /\ wr.i < j + size /\ j < wr.i + size
          /\ Slot(Plus(write_pos, wr.i)) \in 0..(size - 1)
      <4>1. rb_len \in Nat
        BY StoredType DEF IInv, StoredIsBytes
      <4>2. write_pos \in Nat
        BY Arithmetic DEF IInv, TypeOK
      <4> QED
        BY <1>2, <2>1, <4>1, <4>2, Arithmetic, SlotInArray
    <3>2. CASE j = wr.i
      BY <3>1, <3>2 DEF WriteByte, IInv, TypeOK
    <3>3. CASE j # wr.i
      <4>1. Slot(Plus(write_pos, j)) # Slot(Plus(write_pos, wr.i))
        BY <1>2, <3>1, <3>3, SlotsApart
      <4>2. j \in 0..(wr.i - 1)
        BY <1>2, <3>3
      <4>3. buf[Slot(Plus(write_pos, j))] = wr.s[j + 1]
        BY <4>2 DEF IInv, WriterInv, WriteByte
      <4> QED
        BY <4>1, <4>3 DEF WriteByte, IInv, TypeOK
    <3> QED
      BY <3>2, <3>3
  <2>3. write_pos' = write_pos
    BY DEF WriteByte
  <2>4. (wr.i + 1) - 1 = wr.i
    BY <1>2
  <2> QED
    BY <1>1, <1>2, <2>1, <2>2, <2>3, <2>4 DEF WriterInv, Slot, Plus
<1>5. ReaderInv' /\ NoLines'
  <2>1. buf' = [buf EXCEPT ![Slot(Plus(write_pos, wr.i))] = wr.s[wr.i + 1]] /\ lines' = lines
    BY DEF WriteByte
  <2>2. wr.i + 1 \in 1..Len(wr.s)
    BY <1>2
  <2>3. NoNewline => NoNewline'
    BY <2>1, <2>2 DEF NoNewline, IInv, NoLines, TypeOK
  <2>4. ReaderInv'
    BY <1>1, <2>3, ReaderKept DEF IInv, WriteByte
  <2> QED
    BY <1>2, <2>1, <2>4 DEF IInv, NoLines
<1> QED
  BY <1>3, <1>4, <1>5 DEF IInv

LEMMA WriteReturnInv ==
    ASSUME SizeDividesWrap, IInv, WriteReturn
    PROVE IInv'
<1>1. /\ write_pos' \in 0..(Wrap - 1)
      /\ rb_len' = rb_len + Len(wr.s)
      /\ rb_len' <= size
      /\ Stored' = Stored \o wr.s
  BY WriteReturnAppends
<1>2. wr' = WriterIdle
  BY DEF WriteReturn
<1>3. TypeOK'
  <2>1. <<>> \in Seq(Bytes)
    OBVIOUS
  <2> QED
    BY <1>1, <1>2, <2>1 DEF IInv, TypeOK, WriteReturn, WriterIdle
<1>4. WriterInv'
  BY <1>2 DEF WriterInv, WriterIdle
<1>5. ReaderInv'
  <2>1. /\ Stored \in Seq(Bytes) /\ Len(Stored) = rb_len /\ rb_len \in Nat
        /\ wr.s \in Seq(Bytes) /\ Len(wr.s) \in Nat
    BY StoredType DEF IInv, StoredIsBytes, TypeOK
  <2>2. \A i \in 1..rb_len : Stored'[i] = Stored[i]
    BY <1>1, <2>1, ConcatProperties
  <2>3. /\ rd.pc # "line" \/ ~NoNewline => Len(rd.s) <= rb_len
        /\ Len(rd.s) \in Nat /\ rd.sz \in Nat
    <3>1. Len(rd.s) \in Nat /\ rd.sz \in Nat /\ rd.pc \in {"idle", "sample", "copy", "line"}
      BY DEF IInv, TypeOK
    <3>2. rd.pc \in {"idle", "sample"} => Len(rd.s) = 0
      BY DEF IInv, ReaderInv, ReaderIdle
    <3> QED
      BY <2>1, <3>1, <3>2 DEF IInv, ReaderInv
  <2>4. rd.pc # "line" \/ ~NoNewline => \A i \in 1..Len(rd.s) : rd.s[i] = Stored'[i]
    BY <2>1, <2>2, <2>3 DEF IInv, ReaderInv
  <2>5. rb_len <= rb_len' /\ rb_len' \in Nat
    BY <1>1, <2>1
  <2>6. rd.pc = "line" /\ ~NoNewline => \E e \in 1..rb_len' : Len(rd.s) < e /\ Stored'[e] = Newline
    <3> SUFFICES ASSUME rd.pc = "line", ~NoNewline
                 PROVE \E e \in 1..rb_len' : Len(rd.s) < e /\ Stored'[e] = Newline
      OBVIOUS
    <3>1. PICK e \in 1..rb_len : Len(rd.s) < e /\ Stored[e] = Newline
      BY DEF IInv, ReaderInv
    <3>2. e \in 1..rb_len'
      BY <2>1, <2>5
    <3> QED
      BY <2>2, <3>1, <3>2
  <2>7. rd.pc = "copy" => rd.sz <= rb_len' /\ Len(rd.s) <= rd.sz
    BY <2>1, <2>3, <2>5 DEF IInv, ReaderInv
  <2>8. rd' = rd /\ NoNewline' = NoNewline
    BY NoNewlineKept DEF WriteReturn
  <2> QED
    BY <2>4, <2>6, <2>7, <2>8 DEF IInv, ReaderInv, ReaderIdle
<1>6. NoLines'
  BY <1>2 DEF IInv, NoLines, WriteReturn, WriterIdle
<1> QED
  BY <1>3, <1>4, <1>5, <1>6 DEF IInv

(* The consumer goes on copying: only rd changes. *)
LEMMA ReadCallInv ==
    ASSUME SizeDividesWrap, IInv, NEW sz \in 1..MaxRequest, ReadCall(sz)
    PROVE IInv'
<1>1. Stored' = Stored /\ rb_len' = rb_len
  BY NothingMoves DEF ReadCall
<1>2. \/ rd' = [pc |-> "copy", sz |-> sz, s |-> <<>>] /\ sz < rb_len
      \/ rd' = [pc |-> "sample", sz |-> sz, s |-> <<>>]
  BY DEF ReadCall
<1>3. sz \in Nat /\ rb_len \in Nat /\ <<>> \in Seq(Bytes) /\ Len(<<>>) = 0
  <2>1. rb_len \in Nat
    BY StoredType DEF IInv, StoredIsBytes
  <2> QED
    BY <2>1, RbAssumption
<1>4. rd' \in [pc : {"idle", "sample", "copy", "line"}, sz : Nat, s : Seq(Bytes)]
  <2>1. CASE rd' = [pc |-> "copy", sz |-> sz, s |-> <<>>]
    BY <2>1, <1>3
  <2>2. CASE rd' = [pc |-> "sample", sz |-> sz, s |-> <<>>]
    BY <2>2, <1>3
  <2> QED
    BY <1>2, <2>1, <2>2
<1>5. TypeOK'
  BY <1>1, <1>4 DEF IInv, TypeOK, ReadCall
<1>6. WriterInv'
  BY <1>1, WriterKept DEF IInv, ReadCall
<1>7. ReaderInv'
  BY <1>1, <1>2, <1>3 DEF ReaderInv
<1> QED
  BY <1>5, <1>6, <1>7, NoLinesKept DEF IInv, ReadCall

(* The second sample may be more than was asked for, but not more than is  *)
(* stored.                                                                 *)
LEMMA ReadSampleInv ==
    ASSUME SizeDividesWrap, IInv, ReadSample
    PROVE IInv'
<1>1. Stored' = Stored /\ rb_len' = rb_len
  BY NothingMoves DEF ReadSample
<1>2. rd' = [pc |-> "copy", sz |-> rb_len, s |-> <<>>]
  BY DEF ReadSample, IInv, TypeOK, ReaderInv
<1>3. rb_len \in Nat /\ <<>> \in Seq(Bytes) /\ Len(<<>>) = 0
  BY StoredType DEF IInv, StoredIsBytes
<1>4. TypeOK'
  BY <1>1, <1>2, <1>3 DEF IInv, TypeOK, ReadSample
<1>5. WriterInv'
  BY <1>1, WriterKept DEF IInv, ReadSample
<1>6. ReaderInv'
  BY <1>1, <1>2, <1>3 DEF ReaderInv
<1> QED
  BY <1>4, <1>5, <1>6, NoLinesKept DEF IInv, ReadSample

LEMMA ReadByteInv ==
    ASSUME SizeDividesWrap, IInv, ReadByte
    PROVE IInv'
<1>1. Stored' = Stored /\ rb_len' = rb_len
  BY NothingMoves DEF ReadByte
<1>2. /\ rd.pc = "copy" /\ Len(rd.s) < rd.sz /\ rd.sz <= rb_len
      /\ rd.s \in Seq(Bytes) /\ Len(rd.s) \in Nat /\ rd.sz \in Nat /\ rb_len \in Nat
  <2>1. rb_len \in Nat
    BY StoredType DEF IInv, StoredIsBytes
  <2> QED
    BY <2>1 DEF IInv, TypeOK, ReaderInv, ReadByte
<1>3. /\ NextByte = Stored[Len(rd.s) + 1]
      /\ NextByte \in Bytes
  BY <1>2, NextByteIsStored
<1>4. /\ rd'.pc = "copy" /\ rd'.sz = rd.sz /\ rd'.s = Append(rd.s, NextByte)
      /\ rd' = [pc |-> "copy", sz |-> rd.sz, s |-> Append(rd.s, NextByte)]
  BY <1>2 DEF ReadByte, IInv, TypeOK
<1>5. /\ rd'.s \in Seq(Bytes) /\ Len(rd'.s) = Len(rd.s) + 1
      /\ \A i \in 1..Len(rd.s) : rd'.s[i] = rd.s[i]
      /\ rd'.s[Len(rd.s) + 1] = NextByte
  BY <1>2, <1>3, <1>4, AppendProperties
<1>6. TypeOK'
  BY <1>1, <1>2, <1>4, <1>5 DEF IInv, TypeOK, ReadByte
<1>7. WriterInv'
  BY <1>1, WriterKept DEF IInv, ReadByte
<1>8. ReaderInv'
  <2>1. ASSUME NEW i \in 1..(Len(rd.s) + 1)
        PROVE rd'.s[i] = Stored[i]
    <3>1. i \in 1..Len(rd.s) \/ i = Len(rd.s) + 1
      BY <1>2
    <3>2. \A j \in 1..Len(rd.s) : rd.s[j] = Stored[j]
      BY <1>2 DEF IInv, ReaderInv
    <3> QED
      BY <1>3, <1>5, <3>1, <3>2
  <2>2. Len(rd'.s) <= rd.sz
    BY <1>2, <1>5
  <2> QED
    BY <1>1, <1>2, <1>4, <1>5, <2>1, <2>2 DEF ReaderInv
<1> QED
  BY <1>6, <1>7, <1>8, NoLinesKept DEF IInv, ReadByte

LEMMA ReadlineCallInv ==
    ASSUME SizeDividesWrap, AnyTime = FALSE, IInv, NEW sz \in 1..MaxRequest,
           ReadlineCall(sz)
    PROVE IInv'
<1>1. Stored' = Stored /\ rb_len' = rb_len
  BY NothingMoves DEF ReadlineCall
<1>2. rd' = [pc |-> "line", sz |-> sz, s |-> <<>>] /\ sz \in Nat
  BY RbAssumption DEF ReadlineCall
<1>3. <<>> \in Seq(Bytes) /\ Len(<<>>) = 0
  OBVIOUS
<1>4. TypeOK'
  BY <1>1, <1>2, <1>3 DEF IInv, TypeOK, ReadlineCall
<1>5. WriterInv'
  BY <1>1, WriterKept DEF IInv, ReadlineCall
<1>6. ReaderInv'
  <2>1. NoNewline' = NoNewline
    BY NoNewlineKept DEF ReadlineCall
  <2>2. CASE LineStored
    <3>1. PICK e \in 1..rb_len : Stored[e] = Newline
      BY <2>2 DEF LineStored
    <3>2. 0 < e /\ e \in 1..rb_len'
      BY <1>1, <3>1
    <3> QED
      BY <1>1, <1>2, <1>3, <3>1, <3>2 DEF ReaderInv
  <2>3. CASE NoNewline
    BY <1>2, <1>3, <2>1, <2>3 DEF ReaderInv
  <2> QED
    BY <2>2, <2>3 DEF ReadlineCall
<1> QED
  BY <1>4, <1>5, <1>6, NoLinesKept DEF IInv, ReadlineCall

(* What both ends of a consumer's call have in common. *)
LEMMA ReturnInv ==
    ASSUME SizeDividesWrap, IInv, NEW k \in 0..rb_len,
           read_pos' = Plus(read_pos, k), UNCHANGED <<buf, write_pos, wr, lines>>,
           rd' = ReaderIdle, got' \in Seq(Bytes)
    PROVE IInv'
<1>1. read_pos' \in 0..(Wrap - 1) /\ rb_len' <= size /\ WriterInv'
  BY ConsumeTakes
<1>2. <<>> \in Seq(Bytes) /\ Len(<<>>) = 0
  OBVIOUS
<1>3. TypeOK'
  BY <1>1, <1>2 DEF IInv, TypeOK, ReaderIdle
<1>4. ReaderInv'
  BY <1>2 DEF ReaderInv, ReaderIdle
<1> QED
  BY <1>1, <1>3, <1>4, NoLinesKept DEF IInv

LEMMA ReadReturnInv ==
    ASSUME SizeDividesWrap, IInv, ReadReturn
    PROVE IInv'
<1>1. rd.sz \in 0..rb_len /\ rd.s \in Seq(Bytes)
  <2>1. rb_len \in Nat
    BY StoredType DEF IInv, StoredIsBytes
  <2> QED
    BY <2>1 DEF IInv, TypeOK, ReaderInv, ReadReturn, ReadBarrier
<1> QED
  BY <1>1, ReturnInv DEF ReadReturn

(* A round of rb_readline that has not met the newline stays before it. *)
LEMMA LineAhead ==
    ASSUME SizeDividesWrap, IInv, rd.pc = "line", ~NoNewline
    PROVE /\ Len(rd.s) \in Nat /\ rb_len \in Nat /\ rd.s \in Seq(Bytes)
          /\ Len(rd.s) < rb_len
          /\ NextByte = Stored[Len(rd.s) + 1]
          /\ NextByte \in Bytes
<1>1. Len(rd.s) \in Nat /\ rb_len \in Nat /\ rd.s \in Seq(Bytes)
  BY StoredType DEF IInv, StoredIsBytes, TypeOK
<1>2. Len(rd.s) < rb_len
  BY <1>1 DEF IInv, ReaderInv
<1> QED
  BY <1>1, <1>2, NextByteIsStored

(* Without a newline a round of rb_readline never ends it. *)
LEMMA NoLineAhead ==
    ASSUME SizeDividesWrap, IInv, NoNewline
    PROVE NextByte \in Bytes /\ NextByte # Newline
<1>1. Slot(Plus(read_pos, Len(rd.s))) \in 0..(size - 1)
  <2>1. read_pos \in Nat /\ Len(rd.s) \in Nat
    BY Arithmetic DEF IInv, TypeOK
  <2> QED
    BY <2>1, SlotInArray
<1> QED
  BY <1>1 DEF NextByte, IInv, NoNewline, TypeOK

LEMMA SilentByteInv ==
    ASSUME SizeDividesWrap, IInv, ReadlineByte, NoNewline
    PROVE IInv'
<1>1. NextByte \in Bytes /\ NextByte # Newline
  BY NoLineAhead
<1> DEFINE t == Append(rd.s, NextByte)
<1>2. t \in Seq(Bytes)
  BY <1>1 DEF IInv, TypeOK
<1>3. Stored' = Stored /\ rb_len' = rb_len /\ UNCHANGED <<buf, write_pos, read_pos, wr, got, lines>>
  BY <1>1, NothingMoves DEF ReadlineByte
<1>4. rd' = [pc |-> "line", sz |-> rd.sz, s |-> t]
  BY <1>1 DEF ReadlineByte, IInv, TypeOK
<1>5. TypeOK'
  <2>1. rd' \in [pc : {"idle", "sample", "copy", "line"}, sz : Nat, s : Seq(Bytes)]
    BY <1>2, <1>4 DEF IInv, TypeOK
  <2> QED
    BY <1>3, <2>1 DEF IInv, TypeOK
<1>6. WriterInv' /\ NoLines'
  BY <1>3, WriterKept, NoLinesKept DEF IInv
<1>7. ReaderInv'
  <2>1. NoNewline'
    BY <1>3, NoNewlineKept
  <2> HIDE DEF t
  <2> QED
    BY <1>3, <1>4, <2>1 DEF ReaderInv
<1> QED
  BY <1>5, <1>6, <1>7 DEF IInv

LEMMA ReadlineByteInv ==
    ASSUME SizeDividesWrap, IInv, ReadlineByte, ~NoNewline
    PROVE IInv'
<1>1. /\ Len(rd.s) \in Nat /\ rb_len \in Nat /\ rd.s \in Seq(Bytes)
      /\ Len(rd.s) < rb_len
      /\ NextByte = Stored[Len(rd.s) + 1]
      /\ NextByte \in Bytes
  BY LineAhead DEF ReadlineByte
<1> DEFINE t == Append(rd.s, NextByte)
<1>2. /\ t \in Seq(Bytes) /\ Len(t) = Len(rd.s) + 1
      /\ \A i \in 1..Len(rd.s) : t[i] = rd.s[i]
      /\ t[Len(rd.s) + 1] = NextByte
  BY <1>1, AppendProperties
<1>3. CASE NextByte = Newline
  <2>1. Len(rd.s) + 1 \in 0..rb_len
    BY <1>1
  <2> QED
    BY <1>2, <1>3, <2>1, ReturnInv DEF ReadlineByte
<1>4. CASE NextByte # Newline
  <2>1. Stored' = Stored /\ rb_len' = rb_len
    BY <1>4, NothingMoves DEF ReadlineByte
  <2>2. /\ rd'.pc = "line" /\ rd'.sz = rd.sz /\ rd'.s = t
        /\ rd' = [pc |-> "line", sz |-> rd.sz, s |-> t]
    BY <1>4 DEF ReadlineByte, IInv, TypeOK
  <2>3. TypeOK'
    <3>1. rd' \in [pc : {"idle", "sample", "copy", "line"}, sz : Nat, s : Seq(Bytes)]
      BY <1>2, <2>2 DEF IInv, TypeOK
    <3>2. UNCHANGED <<buf, write_pos, read_pos, wr, got, lines>>
      BY <1>4 DEF ReadlineByte
    <3> QED
      BY <2>1, <3>1, <3>2 DEF IInv, TypeOK
  <2>4. WriterInv'
    BY <2>1, WriterKept DEF IInv, ReadlineByte
  <2>5. ReaderInv'
    <3>1. PICK e \in 1..rb_len : Len(rd.s) < e /\ Stored[e] = Newline
      BY DEF IInv, ReaderInv, ReadlineByte
    <3>2. Len(t) < e
      BY <1>1, <1>2, <1>4, <3>1
    <3>3. ASSUME NEW i \in 1..Len(t)
          PROVE t[i] = Stored[i]
      <4>1. i \in 1..Len(rd.s) \/ i = Len(rd.s) + 1
        BY <1>1, <1>2
      <4> QED
        BY <1>1, <1>2, <4>1 DEF IInv, ReaderInv
    <3> HIDE DEF t
    <3> QED
      BY <2>1, <2>2, <3>1, <3>2, <3>3 DEF ReaderInv
  <2>6. NoLines'
    BY <1>4, NoLinesKept DEF IInv, ReadlineByte
  <2> QED
    BY <2>3, <2>4, <2>5, <2>6 DEF IInv
<1> QED
  BY <1>3, <1>4

(* A rb_readline that finds nothing takes nothing. *)
LEMMA ReadlineFailsInv ==
    ASSUME SizeDividesWrap, IInv, ReadlineFails
    PROVE NoNewline /\ IInv'
<1>1. NoNewline
  BY LineAhead DEF ReadlineFails, LoopGoesOn
<1>2. /\ Stored' = Stored /\ rb_len' = rb_len /\ rd' = ReaderIdle
      /\ UNCHANGED <<buf, write_pos, read_pos, wr, got, lines>>
  BY NothingMoves DEF ReadlineFails, Kept
<1>3. <<>> \in Seq(Bytes) /\ Len(<<>>) = 0
  OBVIOUS
<1>4. TypeOK'
  BY <1>2, <1>3 DEF IInv, TypeOK, ReaderIdle
<1>5. ReaderInv'
  BY <1>2, <1>3 DEF ReaderInv, ReaderIdle
<1>6. WriterInv' /\ NoLines'
  BY <1>2, WriterKept, NoLinesKept DEF IInv
<1> QED
  BY <1>1, <1>4, <1>5, <1>6 DEF IInv

LEMMA ClearInv ==
    ASSUME SizeDividesWrap, IInv, Clear
    PROVE IInv'
<1>1. wr' = WriterIdle /\ rd' = ReaderIdle /\ rb_len' = 0
  BY ZeroMinusZero DEF Clear, IInv, WriterInv, ReaderInv, rb_len
<1>2. <<>> \in Seq(Bytes) /\ Len(<<>>) = 0
  OBVIOUS
<1>3. TypeOK'
  BY <1>1, <1>2, Arithmetic DEF IInv, TypeOK, Clear, WriterIdle, ReaderIdle
<1>4. WriterInv' /\ ReaderInv'
  BY <1>1, <1>2 DEF WriterInv, ReaderInv, WriterIdle, ReaderIdle
<1> QED
  BY <1>3, <1>4, NoLinesKept DEF IInv, Clear

LEMMA InitInv == ASSUME SizeDividesWrap PROVE Init => IInv
<1> SUFFICES ASSUME Init PROVE IInv
  OBVIOUS
<1>1. rb_len = 0
  BY ZeroMinusZero DEF Init, rb_len
<1>2. <<>> \in Seq(Bytes) /\ Len(<<>>) = 0
  OBVIOUS
<1>3. TypeOK
  <2>1. buf \in [0..(size - 1) -> Bytes]
    BY DEF Init
  <2> QED
    BY <1>1, <1>2, <2>1, Arithmetic DEF Init, TypeOK, WriterIdle, ReaderIdle
<1>4. WriterInv /\ ReaderInv
  BY <1>2 DEF Init, WriterInv, ReaderInv, WriterIdle, ReaderIdle
<1>5. NoLines
  BY <1>2 DEF Init, NoLines, WriterIdle
<1> QED
  BY <1>3, <1>4, <1>5 DEF IInv

LEMMA StepInv == ASSUME SizeDividesWrap, AnyTime = FALSE
                 PROVE IInv /\ [Next]_vars => IInv'
<1> SUFFICES ASSUME IInv, [Next]_vars PROVE IInv'
  OBVIOUS
<1>1. CASE Producer
  BY <1>1, WriteCallInv, WriteByteInv, WriteReturnInv DEF Producer
<1>2. CASE Consumer
  BY <1>2, ReadCallInv, ReadSampleInv, ReadByteInv, ReadReturnInv, ReadlineCallInv,
     ReadlineByteInv, SilentByteInv, ReadlineFailsInv DEF Consumer
<1>3. CASE Clear
  BY <1>3, ClearInv
<1>4. CASE UNCHANGED vars
  <2>1. Stored' = Stored /\ rb_len' = rb_len
    BY <1>4, NothingMoves DEF vars
  <2>2. TypeOK'
    BY <1>4, <2>1 DEF vars, IInv, TypeOK
  <2> QED
    BY <1>4, <2>1, <2>2, WriterKept, ReaderKept, NoLinesKept, NoNewlineKept DEF vars, IInv
<1> QED
  BY <1>1, <1>2, <1>3, <1>4 DEF Next

LEMMA Invariance == ASSUME SizeDividesWrap, AnyTime = FALSE
                    PROVE Spec => []IInv
<1>1. Init => IInv
  BY InitInv
<1>2. IInv /\ [Next]_vars => IInv'
  BY StepInv
<1> QED
  BY <1>1, <1>2, PTL DEF Spec
-----------------------------------------------------------------------------
(* Positions, array, requests and copies have their types, and the         *)
(* positions are never more than size apart, however the steps of the two  *)
(* threads interleave (TypeOK).                                            *)
THEOREM TypeCorrect == ASSUME SizeDividesWrap, AnyTime = FALSE
                       PROVE Spec => []TypeOK
<1>1. IInv => TypeOK
  BY DEF IInv
<1> QED
  BY <1>1, Invariance, PTL

(* The bytes rb_write is filling in share no slot with one another or with *)
(* a stored byte that the consumer may be copying (WriterKeepsOff).        *)
THEOREM WriterStaysClear == ASSUME SizeDividesWrap, AnyTime = FALSE
                            PROVE Spec => []WriterKeepsOff
<1>1. IInv => WriterKeepsOff
  <2> SUFFICES ASSUME IInv,
                      NEW i \in 0..(rb_len + Len(wr.s) - 1),
                      NEW j \in 0..(rb_len + Len(wr.s) - 1),
                      Slot(Plus(read_pos, i)) = Slot(Plus(read_pos, j))
               PROVE i = j
    BY DEF WriterKeepsOff
  <2>1. rb_len \in Nat /\ Len(wr.s) \in Nat /\ read_pos \in Nat /\ rb_len <= size
    BY StoredType, Arithmetic DEF IInv, StoredIsBytes, TypeOK
  <2>2. rb_len + Len(wr.s) <= size
    <3>1. CASE wr.pc = "idle"
      BY <2>1, <3>1, Arithmetic DEF IInv, WriterInv, WriterIdle
    <3>2. CASE wr.pc = "copy"
      BY <3>2 DEF IInv, WriterInv
    <3> QED
      BY <3>1, <3>2 DEF IInv, TypeOK
  <2>3. i \in Nat /\ j \in Nat /\ i < j + size /\ j < i + size
    BY <2>1, <2>2, Arithmetic
  <2> QED
    BY <2>1, <2>3, SlotsApart
<1> QED
  BY <1>1, Invariance, PTL

(* rb_write appends its bytes, complete, whatever the consumer has done    *)
(* since the call began (WrittenIsStored).                                 *)
THEOREM WritesAppend == ASSUME SizeDividesWrap, AnyTime = FALSE
                        PROVE Spec => WrittenIsStored
<1> DEFINE Appends == wr.pc = "copy" /\ wr'.pc = "idle" => Stored' = Stored \o wr.s
<1>1. IInv /\ [Next]_vars => [Appends]_vars
  <2> SUFFICES ASSUME IInv, Next, wr.pc = "copy", wr'.pc = "idle"
               PROVE Stored' = Stored \o wr.s
    BY DEF vars
  <2>1. ~WriteByte
    BY DEF WriteByte, IInv, TypeOK
  <2>2. WriteReturn
    BY <2>1 DEF Next, Producer, Consumer, Clear, WriteCall, ReadCall, ReadSample, ReadByte,
       ReadReturn, ReadlineCall, ReadlineByte, ReadlineFails
  <2> QED
    BY <2>2, WriteReturnAppends
<1> QED
  BY <1>1, Invariance, PTL DEF Spec, WrittenIsStored
-----------------------------------------------------------------------------
(* A call of the consumer that has copied the k oldest bytes returns them. *)
LEMMA ReturnRefines ==
    ASSUME SizeDividesWrap, IInv, NEW k \in 0..rb_len,
           read_pos' = Plus(read_pos, k), UNCHANGED <<buf, write_pos, wr>>,
           got' \in Seq(Bytes), Len(got') = k,
           \A i \in 1..k : got'[i] = Stored[i]
    PROVE Fifo!Next
<1>1. StoredIsBytes
  BY StoredType DEF IInv
<1>2. Stored' = SubSeq(Stored, k + 1, Len(Stored))
  BY ConsumeTakes
<1>3. k \in Nat /\ k <= Len(Stored) /\ k \in 0..(size + 1)
  BY <1>1, Arithmetic DEF StoredIsBytes
<1>4. got' = SubSeq(Stored, 1, k)
  <2>1. \A i \in 1..k : Stored[i] \in Bytes
    BY <1>1, <1>3 DEF StoredIsBytes
  <2>2. /\ SubSeq(Stored, 1, k) \in Seq(Bytes)
        /\ Len(SubSeq(Stored, 1, k)) = k
        /\ \A i \in 1..k : SubSeq(Stored, 1, k)[i] = Stored[i]
    BY <1>3, <2>1, SubSeqProperties
  <2> QED
    BY <2>2, SeqEqual
<1>5. Fifo!Get(k)
  BY <1>2, <1>3, <1>4 DEF Fifo!Get
<1> QED
  BY <1>3, <1>5 DEF Fifo!Next

(* The end of rb_write is where its bytes are put. *)
LEMMA WriteReturnRefines ==
    ASSUME SizeDividesWrap, IInv, WriteReturn
    PROVE Fifo!Next
<1> DEFINE n == Len(wr.s)
<1>1. StoredIsBytes
  BY StoredType DEF IInv
<1>2. /\ n \in Nat /\ 1 <= n /\ rb_len + n <= size /\ wr.s \in Seq(Bytes)
      /\ n \in 1..(size + 1)
      /\ wr.s \in [1..n -> Bytes]
  <2>1. n \in Nat /\ 1 <= n /\ rb_len + n <= size /\ wr.s \in Seq(Bytes)
    BY DEF IInv, WriterInv, TypeOK, WriteReturn
  <2> QED
    BY <1>1, <2>1, Arithmetic DEF StoredIsBytes
<1>3. Fifo!Accepted(n) = n
  BY <1>1, <1>2, Arithmetic DEF Fifo!Accepted, Fifo!Room, StoredIsBytes
<1>4. SubSeq(wr.s, 1, n) = wr.s
  BY <1>2, SubSeqFull
<1>5. Stored' = Stored \o wr.s /\ got' = got
  BY WriteReturnAppends DEF WriteReturn
<1>6. Fifo!Put(wr.s)
  BY <1>3, <1>4, <1>5 DEF Fifo!Put
<1> QED
  BY <1>2, <1>6 DEF Fifo!Next, Fifo!PutSome

LEMMA StepRefines ==
    ASSUME SizeDividesWrap, AnyTime = FALSE
    PROVE IInv /\ [Next]_vars => [Fifo!Next]_(Fifo!fifoVars)
<1> SUFFICES ASSUME IInv, [Next]_vars PROVE [Fifo!Next]_(Fifo!fifoVars)
  OBVIOUS
<1> DEFINE Stutter == UNCHANGED <<Stored, got>>
<1>0. Stutter => [Fifo!Next]_(Fifo!fifoVars)
  BY DEF Fifo!fifoVars
<1>1. ASSUME NEW s, WriteCall(s) PROVE Stutter
  BY <1>1, NothingMoves DEF WriteCall
<1>2. CASE WriteByte
  <2>1. Stutter
    BY <1>2, WriteByteStays DEF WriteByte
  <2> QED
    BY <1>0, <2>1
<1>3. CASE WriteReturn
  BY <1>3, WriteReturnRefines
<1>4. ASSUME NEW sz, ReadCall(sz) \/ ReadlineCall(sz) PROVE Stutter
  BY <1>4, NothingMoves DEF ReadCall, ReadlineCall
<1>45. CASE ReadSample
  <2>1. Stutter
    BY <1>45, NothingMoves DEF ReadSample
  <2> QED
    BY <1>0, <2>1
<1>5. CASE ReadByte
  <2>1. Stutter
    BY <1>5, NothingMoves DEF ReadByte
  <2> QED
    BY <1>0, <2>1
<1>6. CASE ReadReturn
  <2>1. rd.sz \in 0..rb_len
    <3>1. rb_len \in Nat
      BY StoredType DEF IInv, StoredIsBytes
    <3> QED
      BY <1>6, <3>1 DEF IInv, TypeOK, ReaderInv, ReadReturn, ReadBarrier
  <2>2. /\ got' = rd.s /\ rd.s \in Seq(Bytes) /\ Len(rd.s) = rd.sz
        /\ \A i \in 1..rd.sz : rd.s[i] = Stored[i]
    BY <1>6 DEF IInv, TypeOK, ReaderInv, ReadReturn, ReadBarrier
  <2> QED
    BY <1>6, <2>1, <2>2, ReturnRefines DEF ReadReturn
<1>7. CASE ReadlineByte
  <2> DEFINE t == Append(rd.s, NextByte)
             k == Len(rd.s) + 1
  <2>0. CASE NoNewline
    <3>1. Stutter
      BY <1>7, <2>0, NoLineAhead, NothingMoves DEF ReadlineByte
    <3> QED
      BY <1>0, <3>1
  <2> SUFFICES ASSUME ~NoNewline PROVE [Fifo!Next]_(Fifo!fifoVars)
    BY <2>0
  <2>1. /\ Len(rd.s) \in Nat /\ rb_len \in Nat /\ rd.s \in Seq(Bytes)
        /\ Len(rd.s) < rb_len
        /\ NextByte = Stored[k]
        /\ NextByte \in Bytes
    BY <1>7, LineAhead DEF ReadlineByte
  <2>2. /\ t \in Seq(Bytes) /\ Len(t) = k
        /\ \A i \in 1..Len(rd.s) : t[i] = rd.s[i]
        /\ t[k] = NextByte
    BY <2>1, AppendProperties
  <2>3. CASE NextByte = Newline
    <3>1. k \in 0..rb_len
      BY <2>1
    <3>2. \A i \in 1..k : t[i] = Stored[i]
      BY <2>1, <2>2 DEF IInv, ReaderInv
    <3>3. /\ read_pos' = Plus(read_pos, k) /\ got' = t
          /\ UNCHANGED <<buf, write_pos, wr>>
      BY <1>7, <2>3 DEF ReadlineByte
    <3> HIDE DEF t, k
    <3> QED
      BY <2>2, <3>1, <3>2, <3>3, ReturnRefines
  <2>4. CASE NextByte # Newline
    <3>1. Stutter
      BY <1>7, <2>4, NothingMoves DEF ReadlineByte
    <3> QED
      BY <1>0, <3>1
  <2> QED
    BY <2>3, <2>4
<1>8. CASE ReadlineFails
  <2>1. Stutter
    BY <1>8, NothingMoves DEF ReadlineFails, Kept
  <2> QED
    BY <1>0, <2>1
<1>9. CASE Clear
  <2>1. Stored' = <<>> /\ got' = got
    BY <1>9, ZeroMinusZero DEF Clear, Stored, rb_len
  <2> QED
    BY <2>1 DEF Fifo!Next, Fifo!Reset
<1>10. CASE UNCHANGED vars
  <2>1. Stutter
    BY <1>10, NothingMoves DEF vars
  <2> QED
    BY <1>0, <2>1
<1> HIDE DEF Stutter
<1> QED
  BY <1>0, <1>1, <1>2, <1>3, <1>4, <1>45, <1>5, <1>6, <1>7, <1>8, <1>9, <1>10
     DEF Next, Producer, Consumer

(* One producer and one consumer without a lock are a first-in first-out   *)
(* buffer that stores a write as a whole or not at all (ImplementsFifo).   *)
THEOREM BufferIsFifo == ASSUME SizeDividesWrap, AnyTime = FALSE
                        PROVE Spec => ImplementsFifo
<1>1. Init => Fifo!Init
  <2> SUFFICES ASSUME Init PROVE Fifo!Init
    OBVIOUS
  <2>1. Stored = <<>>
    BY ZeroMinusZero DEF Init, Stored, rb_len
  <2> QED
    BY <2>1 DEF Init, Fifo!Init
<1>2. IInv /\ [Next]_vars => [Fifo!Next]_(Fifo!fifoVars)
  BY StepRefines
<1> QED
  BY <1>1, <1>2, Invariance, PTL DEF Spec, ImplementsFifo, Fifo!Spec
=============================================================================
