-------------------------- MODULE RingBuffer_proofs -------------------------
(***************************************************************************)
(* Theorems about RingBuffer, for every size and every modulus of the      *)
(* positions; those about the content of the array need a size that        *)
(* divides the modulus, as a power of two divides 2^32.                    *)
(***************************************************************************)
EXTENDS RingBuffer, ModArith, SequenceTheorems

Slots == 0..(size - 1)

(* The position arithmetic of the buffer is that of ModArith. *)
LEMMA Arithmetic ==
    /\ \A a, b : Minus(a, b) = Sub(Wrap, a, b)
    /\ \A a, b : Plus(a, b) = Add(Wrap, a, b)
    /\ Wrap \in Nat \ {0} /\ size \in Nat \ {0} /\ size \in Nat /\ size < Wrap
BY SizeAssumption DEF Minus, Plus, Sub, Add

(* A position names a slot of the array. *)
LEMMA SlotInArray == ASSUME NEW o \in Nat, NEW k \in Nat
                     PROVE Plus(o, k) % size \in Slots
<1> DEFINE x == o + k
<1>1. x \in Nat
  OBVIOUS
<1>2. (x % Wrap) % size \in Slots
  <2> HIDE DEF x
  <2>1. x % Wrap \in Nat
    BY <1>1, ModRange, SizeAssumption
  <2> QED
    BY <2>1, ModRange, SizeAssumption DEF Slots
<1> QED
  BY <1>2 DEF Plus

LEMMA ZeroMinusZero == Minus(0, 0) = 0
<1>1. Sub(Wrap, 0, 0) = 0
  BY SizeAssumption, ModOnce DEF Sub
<1> QED
  BY <1>1, Arithmetic

(* How far a put of s moves in. *)
PutLen(s) == MinOf(Len(s), size - ring_buffer_len)

LEMMA PutMoves ==
    ASSUME TypeOK, NEW s \in Seq(Bytes), Put(s)
    PROVE /\ PutLen(s) \in 0..(size - ring_buffer_len)
          /\ PutLen(s) <= Len(s)
          /\ MinOf(Len(s), Plus(Minus(size, in), out)) = PutLen(s)
          /\ ring_buffer_len \in 0..size
          /\ in' = Plus(in, PutLen(s))
          /\ in' \in 0..(Wrap - 1)
          /\ ring_buffer_len' = ring_buffer_len + PutLen(s)
<1>1. /\ ring_buffer_len \in 0..size
      /\ Plus(Minus(size, in), out) = size - ring_buffer_len
      /\ \A n \in 0..(size - ring_buffer_len) :
            /\ Plus(in, n) \in 0..(Wrap - 1)
            /\ Minus(Plus(in, n), out) = ring_buffer_len + n
  BY Arithmetic, Distances DEF TypeOK, ring_buffer_len
<1>2. Len(s) \in Nat
  OBVIOUS
<1>3. /\ PutLen(s) \in 0..(size - ring_buffer_len)
      /\ PutLen(s) <= Len(s)
  BY <1>1, <1>2, SizeAssumption DEF PutLen, MinOf
<1>4. MinOf(Len(s), Plus(Minus(size, in), out)) = PutLen(s)
  BY <1>1 DEF PutLen
<1>5. in' = Plus(in, PutLen(s)) /\ out' = out
  BY <1>4 DEF Put
<1> QED
  BY <1>1, <1>3, <1>4, <1>5 DEF ring_buffer_len

(* How many bytes a get of k takes. *)
GetLen(k) == MinOf(k, ring_buffer_len)

LEMMA GetMoves ==
    ASSUME TypeOK, NEW k \in Nat, Get(k)
    PROVE /\ GetLen(k) \in 0..ring_buffer_len
          /\ ring_buffer_len \in 0..size
          /\ in' \in 0..(Wrap - 1)
          /\ out' \in 0..(Wrap - 1)
          /\ ring_buffer_len' = ring_buffer_len - GetLen(k)
          /\ GetLen(k) < ring_buffer_len => /\ out' = Plus(out, GetLen(k))
                                            /\ in' = in
<1>1. /\ ring_buffer_len \in 0..size
      /\ \A n \in 0..ring_buffer_len :
            /\ Plus(out, n) \in 0..(Wrap - 1)
            /\ Minus(in, Plus(out, n)) = ring_buffer_len - n
            /\ in = Plus(out, n) => n = ring_buffer_len
      /\ in = Plus(out, ring_buffer_len)
  BY Arithmetic, Distances DEF TypeOK, ring_buffer_len
<1>2. GetLen(k) \in 0..ring_buffer_len
  BY <1>1 DEF GetLen, MinOf
<1>3. Minus(0, 0) = 0
  BY ZeroMinusZero
<1>4. CASE in = Plus(out, GetLen(k))
  <2>1. in' = 0 /\ out' = 0
    BY <1>4 DEF Get, GetLen, Rewind
  <2>2. GetLen(k) = ring_buffer_len
    BY <1>1, <1>2, <1>4
  <2>3. ring_buffer_len' = 0
    BY <1>3, <2>1 DEF ring_buffer_len
  <2> QED
    BY <1>1, <1>2, <2>1, <2>2, <2>3, SizeAssumption
<1>5. CASE in # Plus(out, GetLen(k))
  <2>1. in' = in /\ out' = Plus(out, GetLen(k))
    BY <1>5 DEF Get, GetLen
  <2> QED
    BY <1>1, <1>2, <2>1 DEF ring_buffer_len, TypeOK
<1> QED
  BY <1>4, <1>5
-----------------------------------------------------------------------------
(* A copy never runs over the end of the array. *)
LEMMA Split ==
    ASSUME NEW pos \in 0..(Wrap - 1), NEW n \in Nat
    PROVE /\ pos % size \in Slots
          /\ UntilEnd(pos, n) \in 0..n
          /\ UntilEnd(pos, n) <= size - (pos % size)
          /\ UntilEnd(pos, n) < n => UntilEnd(pos, n) = size - (pos % size)
<1>1. pos % size \in Slots
  BY ModRange, SizeAssumption DEF Slots
<1> QED
  BY <1>1, SizeAssumption DEF UntilEnd, MinOf, Slots

(* A put leaves bytes in the array. *)
LEMMA PutKeepsBytes ==
    ASSUME TypeOK, NEW s \in Seq(Bytes), Put(s)
    PROVE buffer' \in [Slots -> Bytes]
<1> DEFINE n == PutLen(s)
           pos == in % size
           len == UntilEnd(in, n)
<1>1. n \in Nat /\ n <= Len(s)
  BY PutMoves, SizeAssumption
<1>2. pos \in Slots /\ len \in 0..n
  BY <1>1, Split DEF TypeOK
<1>3. buffer' = [i \in Slots |->
                    IF i >= pos /\ i < pos + len THEN s[i - pos + 1]
                    ELSE IF i < n - len THEN s[len + i + 1]
                    ELSE buffer[i]]
  BY PutMoves DEF Put, TypeOK, Slots
<1>4. \A i \in 1..Len(s) : s[i] \in Bytes
  OBVIOUS
<1> HIDE DEF n, pos, len
<1>5. ASSUME NEW i \in Slots
      PROVE buffer'[i] \in Bytes
  <2>1. CASE i >= pos /\ i < pos + len
    <3>1. i - pos + 1 \in 1..Len(s)
      BY <1>1, <1>2, <2>1 DEF Slots
    <3> QED
      BY <1>3, <1>4, <2>1, <3>1
  <2>2. CASE ~(i >= pos /\ i < pos + len) /\ i < n - len
    <3>1. len + i + 1 \in 1..Len(s)
      BY <1>1, <1>2, <2>2 DEF Slots
    <3> QED
      BY <1>3, <1>4, <2>2, <3>1
  <2>3. CASE ~(i >= pos /\ i < pos + len) /\ ~(i < n - len)
    BY <1>3, <2>3 DEF TypeOK, Slots
  <2> QED
    BY <2>1, <2>2, <2>3
<1> QED
  BY <1>3, <1>5

(* What a get copies out is bytes. *)
LEMMA GetReturnsBytes ==
    ASSUME TypeOK, NEW k \in Nat, Get(k)
    PROVE got' \in Seq(Bytes)
<1> DEFINE n == GetLen(k)
           pos == out % size
           len == UntilEnd(out, n)
<1>1. n \in Nat /\ n <= size
  BY GetMoves, SizeAssumption
<1>2. /\ pos \in Slots /\ len \in 0..n
      /\ len <= size - pos
      /\ len < n => len = size - pos
  BY <1>1, Split DEF TypeOK
<1>3. got' = [i \in 1..n |-> IF i <= len THEN buffer[pos + i - 1]
                             ELSE buffer[i - len - 1]]
  BY DEF Get, GetLen
<1> HIDE DEF n, pos, len
<1>4. ASSUME NEW i \in 1..n
      PROVE got'[i] \in Bytes
  <2>1. CASE i <= len
    <3>1. pos + i - 1 \in Slots
      BY <1>1, <1>2, <2>1, SizeAssumption DEF Slots
    <3> QED
      BY <1>3, <2>1, <3>1 DEF TypeOK, Slots
  <2>2. CASE ~(i <= len)
    <3>1. i - len - 1 \in Slots
      BY <1>1, <1>2, <2>2, SizeAssumption DEF Slots
    <3> QED
      BY <1>3, <2>2, <3>1 DEF TypeOK, Slots
  <2> QED
    BY <2>1, <2>2
<1>5. got' \in [1..n -> Bytes]
  BY <1>3, <1>4
<1> QED
  BY <1>1, <1>5

LEMMA InitType == Init => TypeOK
<1> SUFFICES ASSUME Init PROVE TypeOK
  OBVIOUS
<1>1. Minus(0, 0) = 0
  BY ZeroMinusZero
<1>2. <<>> \in Seq(Bytes)
  OBVIOUS
<1> QED
  BY <1>1, <1>2, SizeAssumption DEF Init, TypeOK, ring_buffer_len

LEMMA StepType == TypeOK /\ [Next]_vars => TypeOK'
<1> SUFFICES ASSUME TypeOK, [Next]_vars PROVE TypeOK'
  OBVIOUS
<1>1. ASSUME NEW n \in 1..MaxRequest, NEW s \in [1..n -> Bytes], Put(s)
      PROVE TypeOK'
  <2>1. s \in Seq(Bytes)
    BY SizeAssumption DEF MaxRequest
  <2>2. out' = out /\ got' = got
    BY <1>1 DEF Put
  <2>3. buffer' \in [0..(size - 1) -> Bytes]
    BY <1>1, <2>1, PutKeepsBytes DEF Slots
  <2>4. /\ in' \in 0..(Wrap - 1)
        /\ ring_buffer_len' = ring_buffer_len + PutLen(s)
        /\ PutLen(s) \in 0..(size - ring_buffer_len) /\ ring_buffer_len \in 0..size
    BY <1>1, <2>1, PutMoves
  <2>5. ring_buffer_len' <= size
    BY <2>4, SizeAssumption
  <2> QED
    BY <2>2, <2>3, <2>4, <2>5 DEF TypeOK
<1>2. ASSUME NEW k \in 0..MaxRequest, Get(k)
      PROVE TypeOK'
  <2>1. k \in Nat
    BY SizeAssumption DEF MaxRequest
  <2>2. buffer' = buffer
    BY <1>2 DEF Get
  <2> QED
    BY <1>2, <2>1, <2>2, GetMoves, GetReturnsBytes, SizeAssumption DEF TypeOK
<1>3. CASE Reset
  <2>1. ring_buffer_len' = 0
    BY <1>3, ZeroMinusZero DEF Reset, ring_buffer_len
  <2> QED
    BY <1>3, <2>1, SizeAssumption DEF Reset, TypeOK
<1>4. CASE UNCHANGED vars
  BY <1>4 DEF vars, TypeOK, ring_buffer_len
<1> QED
  BY <1>1, <1>2, <1>3, <1>4 DEF Next

(* For every size and modulus, powers of two or not: positions, array and  *)
(* bytes have their types, and in is never more than size ahead of out     *)
(* although the two wrap at different times (TypeOK).                      *)
THEOREM TypeCorrect == Spec => []TypeOK
BY InitType, StepType, PTL DEF Spec
-----------------------------------------------------------------------------
(* With a size that divides Wrap no slot holds two stored bytes, wherever  *)
(* the positions are (OneByteASlot).                                       *)
THEOREM EveryByteHasItsSlot == ASSUME SizeDividesWrap
                               PROVE Spec => []OneByteASlot
<1>1. TypeOK => OneByteASlot
  <2> SUFFICES ASSUME TypeOK,
                      NEW i \in 1..ring_buffer_len, NEW j \in 1..ring_buffer_len,
                      Plus(out, i - 1) % size = Plus(out, j - 1) % size
               PROVE i = j
    BY DEF OneByteASlot
  <2> DEFINE a == i - 1
             b == j - 1
  <2>1. ring_buffer_len \in 0..size
    BY Arithmetic, Distances DEF TypeOK, ring_buffer_len
  <2>2. a \in Nat /\ b \in Nat /\ a < b + size /\ b < a + size /\ out \in Nat
    BY <2>1, SizeAssumption DEF TypeOK
  <2>3. Add(Wrap, out, a) % size = Add(Wrap, out, b) % size
    BY Arithmetic
  <2>4. a = b
    <3> HIDE DEF a, b
    <3> QED
      BY <2>2, <2>3, Arithmetic, SlotsDiffer DEF SizeDividesWrap
  <2> QED
    BY <2>1, <2>4
<1> QED
  BY <1>1, TypeCorrect, PTL
-----------------------------------------------------------------------------
(* A put fills the slots from in on with its bytes and no others. *)
LEMMA PutFills ==
    ASSUME SizeDividesWrap, TypeOK, NEW s \in Seq(Bytes), Put(s)
    PROVE /\ \A j \in 0..(PutLen(s) - 1) : buffer'[Plus(in, j) % size] = s[j + 1]
          /\ \A y \in Slots :
                (\A j \in 0..(PutLen(s) - 1) : Plus(in, j) % size # y)
                    => buffer'[y] = buffer[y]
<1> DEFINE n == PutLen(s)
           pos == in % size
           len == UntilEnd(in, n)
           slot(j) == IF pos + j < size THEN pos + j ELSE pos + j - size
<1>1. n \in Nat /\ n <= size
  BY PutMoves, SizeAssumption
<1>2. /\ pos \in Slots /\ len \in 0..n
      /\ len <= size - pos
      /\ len < n => len = size - pos
  BY <1>1, Split DEF TypeOK
<1>3. buffer' = [i \in Slots |->
                    IF i >= pos /\ i < pos + len THEN s[i - pos + 1]
                    ELSE IF i < n - len THEN s[len + i + 1]
                    ELSE buffer[i]]
  BY PutMoves DEF Put, TypeOK, Slots
<1>4. \A j \in 0..(n - 1) : Plus(in, j) % size = slot(j)
  <2> TAKE j \in 0..(n - 1)
  <2>1. j \in 0..(size - 1) /\ in \in Nat
    BY <1>1, SizeAssumption DEF TypeOK
  <2>2. Add(Wrap, in, j) % size = slot(j)
    BY <2>1, Arithmetic, SlotCases DEF SizeDividesWrap
  <2> QED
    BY <2>2, Arithmetic
<1> HIDE DEF n, pos, len
<1>5. ASSUME NEW j \in 0..(n - 1)
      PROVE buffer'[slot(j)] = s[j + 1]
  <2>1. CASE j < len
    <3>1. slot(j) = pos + j /\ slot(j) \in Slots
      BY <1>1, <1>2, <2>1, SizeAssumption DEF Slots
    <3>2. slot(j) - pos + 1 = j + 1 /\ slot(j) >= pos /\ slot(j) < pos + len
      BY <1>1, <1>2, <2>1, <3>1 DEF Slots
    <3> HIDE DEF slot
    <3> QED
      BY <1>3, <3>1, <3>2
  <2>2. CASE j >= len
    <3>1. /\ slot(j) = j - len
          /\ slot(j) \in Slots
          /\ slot(j) < pos
      BY <1>1, <1>2, <2>2, SizeAssumption DEF Slots
    <3>2. len + slot(j) + 1 = j + 1 /\ slot(j) < n - len /\ ~(slot(j) >= pos)
      BY <1>1, <1>2, <2>2, <3>1 DEF Slots
    <3> HIDE DEF slot
    <3> QED
      BY <1>3, <3>1, <3>2
  <2> QED
    BY <1>1, <1>2, <2>1, <2>2
<1>6. ASSUME NEW y \in Slots, \A j \in 0..(n - 1) : slot(j) # y
      PROVE buffer'[y] = buffer[y]
  <2>1. ~(y >= pos /\ y < pos + len)
    <3> SUFFICES ASSUME y >= pos, y < pos + len PROVE FALSE
      OBVIOUS
    <3>1. y - pos \in 0..(n - 1) /\ slot(y - pos) = y
      BY <1>1, <1>2, SizeAssumption DEF Slots
    <3> QED
      BY <1>6, <3>1
  <2>2. ~(y < n - len)
    <3> SUFFICES ASSUME y < n - len PROVE FALSE
      OBVIOUS
    <3>1. y + len \in 0..(n - 1) /\ slot(y + len) = y
      BY <1>1, <1>2, SizeAssumption DEF Slots
    <3> QED
      BY <1>6, <3>1
  <2> QED
    BY <1>3, <2>1, <2>2
<1> QED
  BY <1>4, <1>5, <1>6 DEF n

(* The stored bytes are a sequence of bytes, all in slots of the array. *)
StoredIsBytes ==
    /\ ring_buffer_len \in 0..size
    /\ Stored \in Seq(Bytes)
    /\ Len(Stored) = ring_buffer_len
    /\ \A i \in 1..ring_buffer_len :
          Stored[i] = buffer[Plus(out, i - 1) % size]

LEMMA StoredType == TypeOK => StoredIsBytes
<1> SUFFICES ASSUME TypeOK PROVE StoredIsBytes
  OBVIOUS
<1>1. ring_buffer_len \in 0..size
  BY Arithmetic, Distances DEF TypeOK, ring_buffer_len
<1>2. ASSUME NEW i \in 1..ring_buffer_len
      PROVE buffer[Plus(out, i - 1) % size] \in Bytes
  <2>1. Plus(out, i - 1) % size \in Slots
    BY <1>1, SlotInArray DEF TypeOK
  <2> QED
    BY <2>1 DEF TypeOK, Slots
<1>3. Stored \in [1..ring_buffer_len -> Bytes]
  BY <1>2 DEF Stored
<1>4. ring_buffer_len \in Nat
  BY <1>1, SizeAssumption
<1> HIDE DEF Stored
<1>5. Stored \in Seq(Bytes) /\ Len(Stored) = ring_buffer_len
  BY <1>3, <1>4
<1> QED
  BY <1>1, <1>5 DEF Stored, StoredIsBytes

(* A put appends its first bytes to the stored ones. *)
LEMMA PutAppends ==
    ASSUME SizeDividesWrap, TypeOK, TypeOK', NEW s \in Seq(Bytes), Put(s)
    PROVE Stored' = Stored \o SubSeq(s, 1, PutLen(s))
<1> DEFINE n == PutLen(s)
           t == SubSeq(s, 1, n)
           L == ring_buffer_len
<1>1. /\ n \in Nat /\ n <= Len(s) /\ L \in Nat /\ L + n <= size
      /\ ring_buffer_len' = L + n
      /\ out' = out
  BY PutMoves, SizeAssumption DEF Put
<1>2. /\ Stored \in Seq(Bytes) /\ Len(Stored) = L
      /\ \A i \in 1..L : Stored[i] = buffer[Plus(out, i - 1) % size]
  BY StoredType DEF StoredIsBytes
<1>3. /\ Stored' \in Seq(Bytes) /\ Len(Stored') = L + n
      /\ \A i \in 1..(L + n) : Stored'[i] = buffer'[Plus(out, i - 1) % size]
  <2>1. StoredIsBytes'
    BY StoredType, PTL
  <2> QED
    BY <1>1, <2>1 DEF StoredIsBytes, Plus
<1>4. /\ t \in Seq(Bytes) /\ Len(t) = n
      /\ \A i \in 1..n : t[i] = s[i]
  <2>1. \A i \in 1..n : s[i] \in Bytes
    BY <1>1
  <2> QED
    BY <1>1, <2>1, SubSeqProperties
<1>5. \A j \in 0..(n - 1) : Plus(in, j) = Plus(out, L + j)
  <2> SUFFICES ASSUME NEW j \in 0..(n - 1)
               PROVE  Plus(in, j) = Plus(out, L + j)
    OBVIOUS
  <2> HIDE DEF n, t
  <2>1. in \in 0..(Wrap - 1) /\ out \in 0..(Wrap - 1)
    BY DEF TypeOK
  <2>2. L = Sub(Wrap, in, out) /\ L <= size
    BY <1>1, Arithmetic DEF ring_buffer_len
  <2> HIDE DEF L
  <2>3. j \in 0..(size - L)
    BY <1>1, Arithmetic
  <2>4. Add(Wrap, in, j) = Add(Wrap, out, L + j)
    <3>1. Sub(Wrap, in, out) <= size /\ j \in 0..(size - Sub(Wrap, in, out))
      BY <2>2, <2>3
    <3>2. Add(Wrap, in, j) = Add(Wrap, out, Sub(Wrap, in, out) + j)
      BY <2>1, <3>1, Arithmetic, Distances
    <3> QED
      BY <2>2, <3>2
  <2> QED
    BY <2>4, Arithmetic
<1> HIDE DEF n, t, L
<1>6. ASSUME NEW i \in 1..L
      PROVE Stored'[i] = Stored[i]
  <2> DEFINE y == Plus(out, i - 1) % size
  <2>1. y \in Slots
    <3>1. out \in Nat /\ i - 1 \in Nat
      BY <1>1 DEF TypeOK
    <3> QED
      BY <3>1, SlotInArray
  <2>2. ASSUME NEW j \in 0..(n - 1), Plus(in, j) % size = y
        PROVE FALSE
    <3> DEFINE a == i - 1
               b == L + j
    <3>1. a \in Nat /\ b \in Nat /\ a < b + size /\ b < a + size /\ a # b
      BY <1>1, SizeAssumption
    <3>2. Add(Wrap, out, a) % size = Add(Wrap, out, b) % size
      BY <1>5, <2>2, Arithmetic
    <3>3. out \in Nat
      BY DEF TypeOK
    <3> HIDE DEF a, b
    <3> QED
      BY <3>1, <3>2, <3>3, Arithmetic, SlotsDiffer DEF SizeDividesWrap
  <2>3. buffer'[y] = buffer[y]
    BY <2>1, <2>2, PutFills DEF n
  <2>4. i \in 1..(L + n)
    BY <1>1
  <2> QED
    BY <1>2, <1>3, <2>3, <2>4
<1>7. ASSUME NEW i \in (L + 1)..(L + n)
      PROVE Stored'[i] = t[i - L]
  <2> DEFINE j == i - 1 - L
  <2>1. /\ j \in 0..(n - 1) /\ L + j = i - 1 /\ j + 1 = i - L
        /\ i - L \in 1..n /\ i \in 1..(L + n)
    BY <1>1
  <2>2. buffer'[Plus(in, j) % size] = s[j + 1]
    BY <2>1, PutFills DEF n
  <2>3. Plus(in, j) = Plus(out, i - 1)
    BY <1>5, <2>1
  <2> QED
    BY <1>3, <1>4, <2>1, <2>2, <2>3
<1>8. /\ Stored \o t \in Seq(Bytes)
      /\ Len(Stored \o t) = L + n
      /\ \A i \in 1..(L + n) :
            (Stored \o t)[i] = IF i <= L THEN Stored[i] ELSE t[i - L]
  BY <1>2, <1>4, ConcatProperties
<1>9. \A i \in 1..(L + n) : Stored'[i] = (Stored \o t)[i]
  BY <1>1, <1>6, <1>7, <1>8
<1> QED
  BY <1>3, <1>8, <1>9, SeqEqual DEF t, n

(* A get returns the oldest bytes and leaves the others. *)
LEMMA GetTakes ==
    ASSUME SizeDividesWrap, TypeOK, TypeOK', NEW k \in Nat, Get(k)
    PROVE /\ got' = SubSeq(Stored, 1, GetLen(k))
          /\ Stored' = SubSeq(Stored, GetLen(k) + 1, Len(Stored))
<1> DEFINE n == GetLen(k)
           L == ring_buffer_len
           pos == out % size
           len == UntilEnd(out, n)
<1>1. /\ n \in Nat /\ L \in Nat /\ n <= L /\ L <= size
      /\ ring_buffer_len' = L - n
      /\ n < L => out' = Plus(out, n) /\ in' = in
  BY GetMoves, SizeAssumption
<1>2. /\ pos \in Slots /\ len \in 0..n
      /\ len <= size - pos
      /\ len < n => len = size - pos
  BY <1>1, Split DEF TypeOK
<1>3. got' = [i \in 1..n |-> IF i <= len THEN buffer[pos + i - 1]
                             ELSE buffer[i - len - 1]]
  BY DEF Get, GetLen
<1>4. buffer' = buffer
  BY DEF Get
<1>5. /\ Stored \in Seq(Bytes) /\ Len(Stored) = L
      /\ \A i \in 1..L : Stored[i] = buffer[Plus(out, i - 1) % size]
      /\ \A i \in 1..L : Stored[i] \in Bytes
  <2>1. StoredIsBytes
    BY StoredType
  <2> QED
    BY <2>1 DEF StoredIsBytes
<1>6. /\ Stored' \in Seq(Bytes) /\ Len(Stored') = L - n
      /\ \A i \in 1..(L - n) : Stored'[i] = buffer[Plus(out', i - 1) % size]
  <2>1. StoredIsBytes'
    BY StoredType, PTL
  <2> QED
    BY <1>1, <1>4, <2>1 DEF StoredIsBytes, Plus
<1>7. \A i \in 1..n :
        Plus(out, i - 1) % size = IF pos + (i - 1) < size THEN pos + (i - 1)
                                  ELSE pos + (i - 1) - size
  <2> TAKE i \in 1..n
  <2>1. i - 1 \in 0..(size - 1) /\ out \in Nat
    BY <1>1, SizeAssumption DEF TypeOK
  <2>2. Add(Wrap, out, i - 1) % size = IF pos + (i - 1) < size THEN pos + (i - 1)
                                       ELSE pos + (i - 1) - size
    BY <2>1, Arithmetic, SlotCases DEF SizeDividesWrap
  <2> QED
    BY <2>2, Arithmetic
<1> HIDE DEF n, L, pos, len
<1>8. got' = SubSeq(Stored, 1, n)
  <2>1. got' \in Seq(Bytes) /\ Len(got') = n
    <3>1. got' \in Seq(Bytes)
      BY GetReturnsBytes
    <3> QED
      BY <1>1, <1>3, <3>1
  <2>2. /\ SubSeq(Stored, 1, n) \in Seq(Bytes)
        /\ Len(SubSeq(Stored, 1, n)) = n
        /\ \A i \in 1..n : SubSeq(Stored, 1, n)[i] = Stored[i]
    <3>1. \A i \in 1..n : Stored[i] \in Bytes
      BY <1>1, <1>5
    <3> QED
      BY <1>1, <3>1, SubSeqProperties
  <2>3. ASSUME NEW i \in 1..n
        PROVE got'[i] = Stored[i]
    <3>1. Stored[i] = buffer[Plus(out, i - 1) % size]
      BY <1>1, <1>5
    <3>2. CASE i <= len
      <4>1. Plus(out, i - 1) % size = pos + i - 1
        BY <1>1, <1>2, <1>7, <3>2, SizeAssumption DEF Slots
      <4> QED
        BY <1>3, <3>1, <3>2, <4>1
    <3>3. CASE ~(i <= len)
      <4>1. Plus(out, i - 1) % size = i - len - 1
        BY <1>1, <1>2, <1>7, <3>3, SizeAssumption DEF Slots
      <4> QED
        BY <1>3, <3>1, <3>3, <4>1
    <3> QED
      BY <3>2, <3>3
  <2> QED
    BY <2>1, <2>2, <2>3, SeqEqual
<1>9. Stored' = SubSeq(Stored, n + 1, L)
  <2> DEFINE rest == SubSeq(Stored, n + 1, L)
  <2>1. /\ rest \in Seq(Bytes) /\ Len(rest) = L - n
        /\ \A i \in 1..(L - n) : rest[i] = Stored[n + i]
    <3>1. \A i \in (n + 1)..L : Stored[i] \in Bytes
      BY <1>1, <1>5
    <3>2. /\ rest \in Seq(Bytes)
          /\ Len(rest) = IF n + 1 <= L THEN L - (n + 1) + 1 ELSE 0
          /\ \A i \in 1..(L - (n + 1) + 1) : rest[i] = Stored[n + 1 + i - 1]
      BY <1>1, <3>1, SubSeqProperties
    <3> QED
      BY <1>1, <3>2
  <2>2. ASSUME NEW i \in 1..(L - n)
        PROVE Stored'[i] = rest[i]
    <3>1. out' = Plus(out, n) /\ n + i \in 1..L /\ n + (i - 1) = (n + i) - 1
      BY <1>1
    <3>2. Plus(Plus(out, n), i - 1) = Plus(out, n + (i - 1))
      <4>1. i - 1 \in Nat /\ out \in Nat /\ n \in Nat
        BY <1>1 DEF TypeOK
      <4> QED
        BY <4>1, Arithmetic, AddAdd
    <3>3. Stored'[i] = buffer[Plus(Plus(out, n), i - 1) % size]
      BY <1>6, <3>1
    <3>4. Stored[n + i] = buffer[Plus(out, (n + i) - 1) % size]
      BY <1>5, <3>1
    <3> QED
      BY <2>1, <3>1, <3>2, <3>3, <3>4
  <2> HIDE DEF rest
  <2>3. Stored' = rest
    BY <1>6, <2>1, <2>2, SeqEqual
  <2> QED
    BY <2>3 DEF rest
<1> QED
  BY <1>5, <1>8, <1>9 DEF n, L
-----------------------------------------------------------------------------
LEMMA EmptyStored == ASSUME ring_buffer_len = 0
                     PROVE Stored = <<>>
BY DEF Stored

(* The initial states are initial states of the FIFO. *)
LEMMA InitRefines == Init => Fifo!Init
BY ZeroMinusZero, EmptyStored DEF Init, Fifo!Init, ring_buffer_len

(* Every step is a step of the FIFO or leaves it alone. *)
LEMMA StepRefines ==
    ASSUME SizeDividesWrap
    PROVE TypeOK /\ TypeOK' /\ [Next]_vars => [Fifo!Next]_(Fifo!fifoVars)
<1> SUFFICES ASSUME TypeOK, TypeOK', [Next]_vars
             PROVE [Fifo!Next]_(Fifo!fifoVars)
  OBVIOUS
<1>1. ASSUME NEW n \in 1..MaxRequest, NEW s \in [1..n -> Bytes], Put(s)
      PROVE Fifo!Next
  <2>1. s \in Seq(Bytes) /\ Len(s) = n
    BY SizeAssumption DEF MaxRequest
  <2>2. Stored' = Stored \o SubSeq(s, 1, PutLen(s)) /\ got' = got
    BY <1>1, <2>1, PutAppends DEF Put
  <2>3. PutLen(s) = Fifo!Accepted(Len(s))
    <3>1. StoredIsBytes
      BY StoredType
    <3> QED
      BY <2>1, <3>1, SizeAssumption DEF StoredIsBytes, PutLen, MinOf, Fifo!Accepted, Fifo!Room
  <2>4. Fifo!Put(s)
    BY <2>2, <2>3 DEF Fifo!Put
  <2>5. n \in 1..(size + 1)
    BY DEF MaxRequest
  <2> QED
    BY <2>4, <2>5 DEF Fifo!Next, Fifo!PutSome
<1>2. ASSUME NEW k \in 0..MaxRequest, Get(k)
      PROVE Fifo!Next
  <2>1. k \in Nat /\ k \in 0..(size + 1)
    BY SizeAssumption DEF MaxRequest
  <2>2. /\ got' = SubSeq(Stored, 1, GetLen(k))
        /\ Stored' = SubSeq(Stored, GetLen(k) + 1, Len(Stored))
    BY <1>2, <2>1, GetTakes
  <2>3. GetLen(k) = IF k <= Len(Stored) THEN k ELSE Len(Stored)
    <3>1. StoredIsBytes
      BY StoredType
    <3> QED
      BY <2>1, <3>1, SizeAssumption DEF StoredIsBytes, GetLen, MinOf
  <2>4. Fifo!Get(k)
    BY <2>2, <2>3 DEF Fifo!Get
  <2> QED
    BY <2>1, <2>4 DEF Fifo!Next
<1>3. CASE Reset
  <2>1. ring_buffer_len' = 0 /\ got' = got
    BY <1>3, ZeroMinusZero DEF Reset, ring_buffer_len
  <2>2. Stored' = <<>>
    BY <2>1 DEF Stored
  <2> QED
    BY <2>1, <2>2 DEF Fifo!Next, Fifo!Reset
<1>4. CASE UNCHANGED vars
  <2>1. Stored' = Stored
    BY <1>4 DEF vars, Stored, ring_buffer_len
  <2> QED
    BY <1>4, <2>1 DEF vars, Fifo!fifoVars
<1> QED
  BY <1>1, <1>2, <1>3, <1>4 DEF Next

(* For every size that divides the modulus of the positions, as the powers *)
(* of two do, the ring buffer is a first-in first-out buffer of bytes      *)
(* (ImplementsFifo).                                                       *)
THEOREM BufferIsFifo == ASSUME SizeDividesWrap
                        PROVE Spec => ImplementsFifo
<1>1. Init => Fifo!Init
  BY InitRefines
<1>2. TypeOK /\ TypeOK' /\ [Next]_vars => [Fifo!Next]_(Fifo!fifoVars)
  BY StepRefines
<1> QED
  BY <1>1, <1>2, TypeCorrect, PTL DEF Spec, ImplementsFifo, Fifo!Spec
=============================================================================
