------------------------------ MODULE ModArith ------------------------------
(***************************************************************************)
(* Facts about the remainder that positions in a ring buffer rest on: they *)
(* run modulo Wrap and are reduced modulo the size of the array.           *)
(***************************************************************************)
EXTENDS Integers, TLAPS

(* A remainder is smaller than the modulus. *)
LEMMA ModRange == ASSUME NEW W \in Nat \ {0}, NEW a \in Nat
                  PROVE a % W \in 0..(W - 1)
    OBVIOUS

(* Below the modulus nothing changes. *)
LEMMA ModSmall == ASSUME NEW W \in Nat \ {0}, NEW a \in 0..(W - 1)
                  PROVE a % W = a
    OBVIOUS

(* One modulus more is taken off. *)
LEMMA ModOnce == ASSUME NEW W \in Nat \ {0}, NEW a \in W..(2 * W - 1)
                 PROVE a % W = a - W
    OBVIOUS

(* Quotient and remainder. *)
LEMMA ModDivision == ASSUME NEW W \in Nat \ {0}, NEW a \in Nat
                     PROVE /\ a \div W \in Nat
                           /\ a = W * (a \div W) + (a % W)
    OBVIOUS

(* A multiple of W that is closer to zero than W is zero. *)
LEMMA SmallMultiple == ASSUME NEW W \in Nat \ {0}, NEW p \in Int,
                              W * p < W, -W < W * p
                       PROVE p = 0
<1>1. CASE p >= 1
  BY <1>1
<1>2. CASE p <= -1
  BY <1>2
<1> QED
  BY <1>1, <1>2

(* Two numbers with the same remainder are equal or at least W apart. *)
LEMMA SameMod == ASSUME NEW W \in Nat \ {0}, NEW a \in Nat, NEW b \in Nat,
                        a % W = b % W, a < b + W, b < a + W
                 PROVE a = b
<1> DEFINE p == (b \div W) - (a \div W)
<1>1. p \in Int /\ b - a = W * p
  BY ModDivision, ModRange
<1>2. p = 0
  BY <1>1, SmallMultiple
<1> QED
  BY <1>1, <1>2

(* A multiple of W more or less makes no difference. *)
LEMMA ModShift == ASSUME NEW W \in Nat \ {0}, NEW x \in Nat, NEW a \in Nat,
                         NEW k \in Int, a = W * k + x
                  PROVE a % W = x % W
<1> DEFINE qa == a \div W
           qx == x \div W
           p == k + qx - qa
<1>1. qa \in Nat /\ qx \in Nat /\ p \in Int
  BY ModDivision
<1>2. (a % W) - (x % W) = W * p
  <2> DEFINE wk == W * k
             wa == W * qa
             wx == W * qx
             ra == a % W
             rx == x % W
  <2>1. a = wa + ra /\ x = wx + rx /\ a = wk + x
    BY ModDivision
  <2>2. W * p = wk + wx - wa
    <3> HIDE DEF qa, qx
    <3> QED
      BY <1>1
  <2>3. ra \in Int /\ rx \in Int /\ wk \in Int /\ wx \in Int /\ wa \in Int
    BY <1>1, ModRange
  <2>4. ra - rx = wk + wx - wa
    <3> HIDE DEF wk, wa, wx, ra, rx
    <3> QED
      BY <2>1, <2>3
  <2> QED
    BY <2>2, <2>4
<1>3. a % W \in 0..(W - 1) /\ x % W \in 0..(W - 1)
  BY ModRange
<1> HIDE DEF p
<1>4. W * p < W /\ -W < W * p
  BY <1>1, <1>2, <1>3
<1>5. p = 0
  BY <1>1, <1>4, SmallMultiple
<1> QED
  BY <1>2, <1>3, <1>5

(* Reducing modulo a multiple of W first makes no difference. *)
LEMMA ModMod == ASSUME NEW W \in Nat \ {0}, NEW V \in Nat \ {0}, V % W = 0,
                       NEW x \in Nat
                PROVE (x % V) % W = x % W
<1> DEFINE k == (V \div W) * (x \div V)
<1>1. V = W * (V \div W) /\ V \div W \in Nat
  BY ModDivision
<1>2. x = V * (x \div V) + (x % V) /\ x \div V \in Nat /\ x % V \in Nat
  BY ModDivision, ModRange
<1>3. k \in Int /\ V * (x \div V) = W * k
  BY <1>1, <1>2
<1> HIDE DEF k
<1>4. x = W * k + (x % V)
  BY <1>2, <1>3
<1> QED
  BY <1>2, <1>3, <1>4, ModShift
-----------------------------------------------------------------------------
(* Positions run from 0 to W - 1 and wrap. *)
Sub(W, a, b) == (a + (W - b)) % W
Add(W, a, b) == (a + b) % W

(* Subtraction and addition of positions, without the remainder. *)
LEMMA SubCases ==
    ASSUME NEW W \in Nat \ {0}, NEW a \in 0..W, NEW b \in 0..W, a < W \/ b > 0
    PROVE Sub(W, a, b) = IF a >= b THEN a - b ELSE a + W - b
<1>1. CASE a >= b
  <2>1. a + (W - b) \in W..(2 * W - 1)
    BY <1>1
  <2> QED
    BY <1>1, <2>1, ModOnce DEF Sub
<1>2. CASE a < b
  <2>1. a + (W - b) \in 0..(W - 1)
    BY <1>2
  <2> QED
    BY <1>2, <2>1, ModSmall DEF Sub
<1> QED
  BY <1>1, <1>2

LEMMA AddCases ==
    ASSUME NEW W \in Nat \ {0}, NEW a \in 0..(W - 1), NEW b \in 0..(W - 1)
    PROVE Add(W, a, b) = IF a + b < W THEN a + b ELSE a + b - W
<1>1. CASE a + b < W
  BY <1>1, ModSmall DEF Add
<1>2. CASE a + b >= W
  <2>1. a + b \in W..(2 * W - 1)
    BY <1>2
  <2> QED
    BY <1>2, <2>1, ModOnce DEF Add
<1> QED
  BY <1>1, <1>2

(* What the calls compute from positions at most size apart: the free      *)
(* space, and the distance after i or o has moved by n.                    *)
LEMMA Distances ==
    ASSUME NEW W \in Nat \ {0}, NEW size \in Nat, size < W,
           NEW i \in 0..(W - 1), NEW o \in 0..(W - 1), Sub(W, i, o) <= size
    PROVE /\ Sub(W, i, o) \in 0..size
          /\ Add(W, Sub(W, size, i), o) = size - Sub(W, i, o)
          /\ i = Add(W, o, Sub(W, i, o))
          /\ \A n \in 0..(size - Sub(W, i, o)) :
                /\ Add(W, i, n) \in 0..(W - 1)
                /\ Sub(W, Add(W, i, n), o) = Sub(W, i, o) + n
          /\ \A n \in 0..Sub(W, i, o) :
                /\ Add(W, o, n) \in 0..(W - 1)
                /\ Sub(W, i, Add(W, o, n)) = Sub(W, i, o) - n
                /\ i = Add(W, o, n) => n = Sub(W, i, o)
          /\ \A n \in 0..(size - Sub(W, i, o)) :
                Add(W, i, n) = Add(W, o, Sub(W, i, o) + n)
<1>1. Sub(W, i, o) = IF i >= o THEN i - o ELSE i + W - o
  BY SubCases
<1>2. Sub(W, i, o) \in 0..size
  BY <1>1
<1>3. Add(W, Sub(W, size, i), o) = size - Sub(W, i, o)
  <2>1. Sub(W, size, i) = IF size >= i THEN size - i ELSE size + W - i
    BY SubCases
  <2>2. Sub(W, size, i) \in 0..(W - 1) \/ Sub(W, size, i) = W
    BY <2>1
  <2>3. Sub(W, size, i) \in 0..(W - 1)
    BY <2>1, <2>2
  <2> QED
    BY <1>1, <2>1, <2>3, AddCases
<1>4. i = Add(W, o, Sub(W, i, o))
  <2>1. Sub(W, i, o) \in 0..(W - 1)
    BY <1>2
  <2> QED
    BY <1>1, <2>1, AddCases
<1>5. ASSUME NEW n \in 0..(size - Sub(W, i, o))
      PROVE /\ Add(W, i, n) \in 0..(W - 1)
            /\ Sub(W, Add(W, i, n), o) = Sub(W, i, o) + n
            /\ Add(W, i, n) = Add(W, o, Sub(W, i, o) + n)
  <2>1. n \in 0..(W - 1) /\ Sub(W, i, o) + n \in 0..(W - 1)
    BY <1>2
  <2>2. Add(W, i, n) = IF i + n < W THEN i + n ELSE i + n - W
    BY <2>1, AddCases
  <2>3. Add(W, i, n) \in 0..(W - 1)
    BY <2>1, <2>2
  <2>4. Sub(W, Add(W, i, n), o) = IF Add(W, i, n) >= o THEN Add(W, i, n) - o
                               ELSE Add(W, i, n) + W - o
    BY <2>3, SubCases
  <2>5. Add(W, o, Sub(W, i, o) + n) =
            IF o + (Sub(W, i, o) + n) < W THEN o + (Sub(W, i, o) + n)
            ELSE o + (Sub(W, i, o) + n) - W
    BY <2>1, AddCases
  <2> QED
    BY <1>1, <2>1, <2>2, <2>3, <2>4, <2>5
<1>6. ASSUME NEW n \in 0..Sub(W, i, o)
      PROVE /\ Add(W, o, n) \in 0..(W - 1)
            /\ Sub(W, i, Add(W, o, n)) = Sub(W, i, o) - n
            /\ i = Add(W, o, n) => n = Sub(W, i, o)
  <2>1. n \in 0..(W - 1)
    BY <1>2
  <2>2. Add(W, o, n) = IF o + n < W THEN o + n ELSE o + n - W
    BY <2>1, AddCases
  <2>3. Add(W, o, n) \in 0..(W - 1)
    BY <2>1, <2>2
  <2>4. Sub(W, i, Add(W, o, n)) = IF i >= Add(W, o, n) THEN i - Add(W, o, n)
                               ELSE i + W - Add(W, o, n)
    BY <2>3, SubCases
  <2> QED
    BY <1>1, <2>1, <2>2, <2>3, <2>4
<1> QED
  BY <1>2, <1>3, <1>4, <1>5, <1>6
-----------------------------------------------------------------------------
(* Going on from a remainder is going on from the number itself. *)
LEMMA ModAdd == ASSUME NEW W \in Nat \ {0}, NEW x \in Nat, NEW k \in Nat
                PROVE ((x % W) + k) % W = (x + k) % W
<1> DEFINE q == x \div W
           r == x % W
<1>1. q \in Nat /\ r \in Nat /\ x = W * q + r
  BY ModDivision, ModRange
<1> DEFINE a == x + k
           b == r + k
<1>2. a \in Nat /\ b \in Nat /\ q \in Int /\ a = W * q + b
  <2> HIDE DEF q, r
  <2> QED
    BY <1>1
<1>3. a % W = b % W
  <2> HIDE DEF a, b, q
  <2> QED
    BY <1>2, ModShift
<1> QED
  BY <1>3

LEMMA AddAdd == ASSUME NEW W \in Nat \ {0}, NEW o \in Nat, NEW n \in Nat, NEW k \in Nat
                PROVE Add(W, Add(W, o, n), k) = Add(W, o, n + k)
<1> DEFINE x == o + n
<1>1. x \in Nat /\ x + k = o + (n + k)
  OBVIOUS
<1>2. ((x % W) + k) % W = (x + k) % W
  <2> HIDE DEF x
  <2> QED
    BY <1>1, ModAdd
<1> QED
  BY <1>1, <1>2 DEF Add

(* The slot k positions after o, when size divides W. *)
LEMMA SlotOfSum ==
    ASSUME NEW W \in Nat \ {0}, NEW size \in Nat \ {0}, W % size = 0,
           NEW o \in Nat, NEW k \in Nat
    PROVE Add(W, o, k) % size = (o + k) % size
<1> DEFINE x == o + k
<1>1. x \in Nat
  OBVIOUS
<1>2. (x % W) % size = x % size
  <2> HIDE DEF x
  <2> QED
    BY <1>1, ModMod
<1> QED
  BY <1>2 DEF Add

(* Fewer than size positions in a row have slots of their own. *)
LEMMA SlotsDiffer ==
    ASSUME NEW W \in Nat \ {0}, NEW size \in Nat \ {0}, W % size = 0,
           NEW o \in Nat, NEW i \in Nat, NEW j \in Nat,
           i < j + size, j < i + size,
           Add(W, o, i) % size = Add(W, o, j) % size
    PROVE i = j
<1>1. (o + i) % size = (o + j) % size
  BY SlotOfSum
<1> DEFINE a == o + i
           b == o + j
<1>2. a \in Nat /\ b \in Nat /\ a < b + size /\ b < a + size
  OBVIOUS
<1>3. a = b
  <2>1. a % size = b % size
    BY <1>1
  <2> HIDE DEF a, b
  <2> QED
    BY <1>2, <2>1, SameMod
<1> QED
  BY <1>3

(* The slot after the last one is the first one. *)
LEMMA SlotCases ==
    ASSUME NEW W \in Nat \ {0}, NEW size \in Nat \ {0}, W % size = 0,
           NEW o \in Nat, NEW k \in 0..(size - 1)
    PROVE Add(W, o, k) % size = IF (o % size) + k < size THEN (o % size) + k
                                ELSE (o % size) + k - size
<1>1. Add(W, o, k) % size = ((o % size) + k) % size
  <2>1. Add(W, o, k) % size = (o + k) % size
    BY SlotOfSum
  <2>2. k \in Nat
    OBVIOUS
  <2>3. ((o % size) + k) % size = (o + k) % size
    BY <2>2, ModAdd
  <2> QED
    BY <2>1, <2>3
<1>2. o % size \in 0..(size - 1)
  BY ModRange
<1>3. CASE (o % size) + k < size
  BY <1>1, <1>2, <1>3, ModSmall
<1>4. CASE (o % size) + k >= size
  <2> DEFINE a == (o % size) + k
  <2>1. a \in size..(2 * size - 1)
    BY <1>2, <1>4
  <2>2. a % size = a - size
    <3> HIDE DEF a
    <3> QED
      BY <2>1, ModOnce
  <2> QED
    BY <1>1, <1>2, <1>4, <2>1, <2>2
<1> QED
  BY <1>2, <1>3, <1>4
=============================================================================
