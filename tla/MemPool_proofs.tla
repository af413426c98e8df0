--------------------------- MODULE MemPool_proofs ---------------------------
(***************************************************************************)
(* Theorems about MemPool for any sizes, any requests and any number of    *)
(* nodes.  Where the blocks lie is proved for RoomForAny, which the sizes  *)
(* of mmpool satisfy with any page, the rest for all sizes.                *)
(***************************************************************************)
EXTENDS MemPool, ModArith, SequenceTheorems

(* A block of a pool with n nodes. *)
Block(n) == [node : 1..n, at : Nat, len : Nat]

(* Every block ends at or before its node's last. *)
BelowLast == \A i \in DOMAIN blocks :
                blocks[i].at + blocks[i].len <= last[blocks[i].node]

IInv == TypeOK /\ BelowLast /\ BlocksDisjoint
-----------------------------------------------------------------------------
(* What is used of sequences. *)
LEMMA SeqFacts ==
    ASSUME NEW S, NEW s \in Seq(S)
    PROVE  /\ Len(s) \in Nat /\ DOMAIN s = 1..Len(s)
           /\ \A i \in 1..Len(s) : s[i] \in S
    OBVIOUS

LEMMA AppendFacts ==
    ASSUME NEW S, NEW s \in Seq(S), NEW e \in S
    PROVE  /\ Append(s, e) \in Seq(S) /\ Len(Append(s, e)) = Len(s) + 1
           /\ Append(s, e)[Len(s) + 1] = e
           /\ \A i \in 1..Len(s) : Append(s, e)[i] = s[i]
    OBVIOUS

LEMMA ExceptFacts ==
    ASSUME NEW S, NEW s \in Seq(S), NEW k \in 1..Len(s), NEW e \in S
    PROVE  LET t == [s EXCEPT ![k] = e] IN
           /\ t \in Seq(S) /\ Len(t) = Len(s) /\ t[k] = e
           /\ \A i \in 1..Len(s) : i # k => t[i] = s[i]
    OBVIOUS

LEMMA FunctionIsSeq ==
    ASSUME NEW S, NEW n \in Nat, NEW f \in [1..n -> S]
    PROVE  f \in Seq(S) /\ Len(f) = n
    OBVIOUS

(* A sequence over S is one over any set that has its elements. *)
LEMMA SeqOver ==
    ASSUME NEW S, NEW T, NEW s \in Seq(S), \A i \in 1..Len(s) : s[i] \in T
    PROVE  s \in Seq(T)
    OBVIOUS
-----------------------------------------------------------------------------
(* Aligning gives the next multiple. *)
LEMMA Aligned == ASSUME NEW n \in Nat
                 PROVE  /\ mp_align_ptr(n) \in Nat /\ n <= mp_align_ptr(n)
                        /\ mp_align_ptr(n) < n + MP_ALIGNMENT
                        /\ mp_align_ptr(n) % MP_ALIGNMENT = 0
<1> DEFINE A == MP_ALIGNMENT
           x == n + (A - 1)
           k == x \div A
           y == A * k
<1>1. A \in Nat \ {0}
  BY MemPoolAssumption
<1>2. x \in Nat
  BY <1>1
<1>3. k \in Nat /\ x = y + (x % A) /\ x % A \in 0..(A - 1)
  <2> HIDE DEF A, x
  <2> QED
    BY <1>1, <1>2, ModDivision, ModRange
<1>4. y \in Nat
  <2> HIDE DEF A, k
  <2> QED
    BY <1>1, <1>3
<1>5. mp_align_ptr(n) = x - (x % A)
  BY DEF mp_align_ptr
<1>6. mp_align_ptr(n) = y
  <2> HIDE DEF A, k, x, y
  <2> QED
    BY <1>2, <1>3, <1>4, <1>5
<1>7. n <= y /\ y < n + A
  <2>1. x = n + (A - 1)
    OBVIOUS
  <2> DEFINE m == x % A
  <2> HIDE DEF A, k, x, y, m
  <2>2. m \in 0..(A - 1) /\ x = y + m
    BY <1>3 DEF m
  <2> QED
    BY <1>1, <1>4, <2>1, <2>2
<1>8. y % A = 0
  <2>1. y = A * k + 0
    BY <1>4
  <2> HIDE DEF A, k, x, y
  <2>2. y % A = 0 % A
    <3>1. A \in Nat \ {0} /\ y \in Nat /\ k \in Int /\ 0 \in Nat
      BY <1>1, <1>3, <1>4
    <3> QED
      BY <2>1, <3>1, ModShift
  <2>3. 0 \in 0..(A - 1)
    BY <1>1
  <2>4. 0 % A = 0
    BY <1>1, <2>3, ModSmall
  <2> QED
    BY <2>2, <2>4
<1> QED
  BY <1>4, <1>6, <1>7, <1>8

LEMMA RequestType == ASSUME NEW r \in Requests \cup {Header}
                     PROVE  r.len \in Nat /\ r.aligned \in BOOLEAN /\ r.len <= max
<1>1. CASE r \in Requests
  <2>1. r \in [len : 1..max, aligned : BOOLEAN]
    BY <1>1, MemPoolAssumption
  <2> QED
    BY <2>1, MemPoolAssumption
<1>2. CASE r = Header
  BY <1>2, MemPoolAssumption DEF Header
<1> QED
  BY <1>1, <1>2

LEMMA StartAfterLast ==
    ASSUME TypeOK, NEW i \in 1..Len(last), NEW r \in Requests \cup {Header}
    PROVE  /\ last[i] \in Nat /\ Start(i, r) \in Nat /\ last[i] <= Start(i, r)
<1>1. last[i] \in Nat
  BY SeqFacts DEF TypeOK
<1>2. /\ mp_align_ptr(last[i]) \in Nat
      /\ last[i] <= mp_align_ptr(last[i])
  BY <1>1, Aligned
<1>3. Start(i, r) = mp_align_ptr(last[i]) \/ Start(i, r) = last[i]
  BY DEF Start
<1> QED
  BY <1>1, <1>2, <1>3

(* A request's block is in a node where it fits, behind all other blocks   *)
(* of the node, or else the first block of a new node.                     *)
LEMMA Granted ==
    ASSUME TypeOK, NEW r \in Requests \cup {Header}, NEW b \in Grant(r)
    PROVE  /\ b \in Block(Len(last) + 1) /\ Len(last) \in Nat /\ b.len = r.len
           /\ b.node \in 1..Len(last) => /\ last[b.node] <= b.at
                                         /\ b.at = Start(b.node, r) /\ Fits(b.node, r)
           /\ b.node \notin 1..Len(last) => b.node = Len(last) + 1 /\ b.at = FirstBlock
<1> DEFINE F == {i \in current..Len(last) : Fits(i, r)}
<1>1. F \subseteq 1..Len(last) /\ Len(last) \in Nat /\ r.len \in Nat
  BY SeqFacts, RequestType DEF TypeOK
<1>2. CASE F # {}
  <2>1. b \in {[node |-> i, at |-> Start(i, r), len |-> r.len] : i \in First(F)}
    BY <1>2 DEF Grant
  <2>2. PICK i \in F : b = [node |-> i, at |-> Start(i, r), len |-> r.len]
    BY <2>1 DEF First
  <2>3. /\ last[i] \in Nat /\ Start(i, r) \in Nat /\ last[i] <= Start(i, r)
        /\ i \in 1..Len(last) /\ Fits(i, r)
    BY <1>1, StartAfterLast
  <2>4. b.node = i /\ b.at = Start(i, r) /\ b.len = r.len
    BY <2>2
  <2>5. b \in Block(Len(last) + 1)
    BY <1>1, <2>2, <2>3 DEF Block
  <2> QED
    BY <1>1, <2>3, <2>4, <2>5
<1>3. CASE F = {}
  <2>1. b \in {[node |-> Len(last) + 1, at |-> FirstBlock, len |-> r.len]}
    BY <1>3 DEF Grant
  <2>2. FirstBlock \in Nat
    BY Aligned, MemPoolAssumption DEF FirstBlock
  <2>3. b \in Block(Len(last) + 1)
    BY <1>1, <2>1, <2>2 DEF Block
  <2> QED
    BY <1>1, <2>1, <2>3
<1> QED
  BY <1>2, <1>3

(* Counting failures changes nothing but numbers, and the search moves on  *)
(* to another node of the list at most.                                    *)
LEMMA CountedFacts ==
    ASSUME TypeOK
    PROVE  /\ Counted \in Seq(Nat) /\ Len(Counted) = Len(last)
           /\ Passed \subseteq 1..Len(last)
<1>1. /\ Len(failed) \in Nat /\ DOMAIN failed = 1..Len(failed)
      /\ \A i \in 1..Len(failed) : failed[i] \in Nat
      /\ Len(failed) = Len(last) /\ current \in 1..Len(last)
  BY SeqFacts DEF TypeOK
<1>2. Counted \in [1..Len(failed) -> Nat]
  BY <1>1 DEF Counted
<1>3. Counted \in Seq(Nat) /\ Len(Counted) = Len(last)
  BY <1>1, <1>2, FunctionIsSeq
<1>4. Passed \subseteq 1..Len(last)
  BY <1>1 DEF Passed, Last
<1> QED
  BY <1>3, <1>4

(* What cutting off a block does to the nodes. *)
LEMMA CarvedNodes ==
    ASSUME TypeOK, NEW r \in Requests \cup {Header}, NEW b \in Grant(r), Carve(b)
    PROVE  /\ last' \in Seq(Nat) /\ failed' \in Seq(Nat) /\ Len(failed') = Len(last')
           /\ current' \in 1..Len(last') /\ b.node \in 1..Len(last')
           /\ Len(last) <= Len(last') /\ Len(last') \in Nat
           /\ last'[b.node] = b.at + b.len
           /\ \A i \in 1..Len(last') : i # b.node => i \in 1..Len(last) /\ last'[i] = last[i]
<1>1. /\ b \in Block(Len(last) + 1) /\ Len(last) \in Nat /\ b.at + b.len \in Nat
      /\ b.node \in 1..(Len(last) + 1)
      /\ b.node \notin 1..Len(last) => b.node = Len(last) + 1
  BY Granted DEF Block
<1>2. /\ last \in Seq(Nat) /\ failed \in Seq(Nat) /\ Len(failed) = Len(last)
      /\ current \in 1..Len(last)
  BY DEF TypeOK
<1> DEFINE e == b.at + b.len
<1>3. CASE b.node \in 1..Len(last)
  <2>1. last' = [last EXCEPT ![b.node] = e] /\ failed' = failed /\ current' = current
    BY <1>1, <1>3 DEF Carve, LastAfter
  <2> HIDE DEF e
  <2>2. e \in Nat
    BY <1>1 DEF e
  <2>3. /\ last' \in Seq(Nat) /\ Len(last') = Len(last) /\ last'[b.node] = e
        /\ \A i \in 1..Len(last) : i # b.node => last'[i] = last[i]
    BY <1>2, <1>3, <2>1, <2>2, ExceptFacts
  <2> QED
    BY <1>1, <1>2, <1>3, <2>1, <2>3 DEF e
<1>4. CASE b.node \notin 1..Len(last)
  <2>1. /\ last' = Append(last, e) /\ failed' = Append(Counted, 0)
        /\ current' \in Passed
    BY <1>1, <1>4 DEF Carve
  <2> HIDE DEF e
  <2>2. e \in Nat
    BY <1>1 DEF e
  <2>3. /\ last' \in Seq(Nat) /\ Len(last') = Len(last) + 1
        /\ last'[Len(last) + 1] = e
        /\ \A i \in 1..Len(last) : last'[i] = last[i]
    BY <1>2, <2>1, <2>2, AppendFacts
  <2>4. failed' \in Seq(Nat) /\ Len(failed') = Len(last) + 1
    BY <2>1, CountedFacts, AppendFacts
  <2>5. current' \in 1..Len(last)
    BY <2>1, CountedFacts
  <2>6. b.node = Len(last) + 1 /\ Len(last) \in Nat
    BY <1>1, <1>4
  <2>7. last'[b.node] = b.at + b.len
    BY <2>3, <2>6 DEF e
  <2>8. \A i \in 1..Len(last') : i # b.node => i \in 1..Len(last) /\ last'[i] = last[i]
    BY <2>3, <2>6
  <2> QED
    BY <2>3, <2>4, <2>5, <2>6, <2>7, <2>8
<1> QED
  BY <1>3, <1>4

(* What it does to the blocks: the new one is the last, and behind all     *)
(* others of its node.                                                     *)
LEMMA CarvedBlocks ==
    ASSUME IInv, NEW r \in Requests \cup {Header}, NEW b \in Grant(r), Carve(b)
    PROVE  /\ blocks' \in Seq(Block(Len(last')))
           /\ Len(blocks) \in Nat /\ DOMAIN blocks' = 1..(Len(blocks) + 1)
           /\ blocks'[Len(blocks) + 1] = b /\ b \in Block(Len(last'))
           /\ \A i \in 1..Len(blocks) :
                 /\ blocks'[i] = blocks[i] /\ blocks[i] \in Block(Len(last))
                 /\ blocks[i].at + blocks[i].len <= last'[blocks[i].node]
                 /\ blocks[i].node = b.node => blocks[i].at + blocks[i].len <= b.at
<1>1. TypeOK
  BY DEF IInv
<1>2. /\ b \in Block(Len(last) + 1) /\ Len(last) \in Nat
      /\ b.node \in 1..Len(last) => last[b.node] <= b.at
  BY <1>1, Granted
<1>3. /\ b.node \in 1..Len(last') /\ Len(last) <= Len(last') /\ Len(last') \in Nat
      /\ last'[b.node] = b.at + b.len
      /\ \A i \in 1..Len(last') : i # b.node => i \in 1..Len(last) /\ last'[i] = last[i]
  BY <1>1, CarvedNodes
<1>4. blocks \in Seq(Block(Len(last)))
  BY <1>1 DEF TypeOK, Block
<1>5. /\ Len(blocks) \in Nat /\ DOMAIN blocks = 1..Len(blocks)
      /\ \A i \in 1..Len(blocks) : blocks[i] \in Block(Len(last))
  BY <1>4, SeqFacts
<1>6. b \in Block(Len(last')) /\ b.at \in Nat /\ b.len \in Nat
  BY <1>2, <1>3 DEF Block
<1>7. blocks \in Seq(Block(Len(last')))
  <2>1. \A i \in 1..Len(blocks) : blocks[i] \in Block(Len(last'))
    BY <1>3, <1>2, <1>5 DEF Block
  <2> QED
    BY <1>4, <2>1, SeqOver
<1>8. /\ blocks' \in Seq(Block(Len(last'))) /\ Len(blocks') = Len(blocks) + 1
      /\ blocks'[Len(blocks) + 1] = b
      /\ \A i \in 1..Len(blocks) : blocks'[i] = blocks[i]
  <2>1. blocks' = Append(blocks, b)
    BY DEF Carve
  <2> QED
    BY <1>6, <1>7, <2>1, AppendFacts
<1>9. DOMAIN blocks' = 1..(Len(blocks) + 1)
  BY <1>8, SeqFacts
<1>10. ASSUME NEW i \in 1..Len(blocks)
       PROVE  /\ blocks[i].at + blocks[i].len <= last'[blocks[i].node]
              /\ blocks[i].node = b.node => blocks[i].at + blocks[i].len <= b.at
  <2>1. blocks[i].at \in Nat /\ blocks[i].len \in Nat /\ blocks[i].node \in 1..Len(last)
    BY <1>5 DEF Block
  <2>2. blocks[i].at + blocks[i].len <= last[blocks[i].node]
    BY <1>5 DEF IInv, BelowLast
  <2>3. last[blocks[i].node] \in Nat
    BY <1>1, <2>1, SeqFacts DEF TypeOK
  <2>4. CASE blocks[i].node # b.node
    <3>1. blocks[i].node \in 1..Len(last')
      BY <1>2, <1>3, <2>1
    <3>2. last'[blocks[i].node] = last[blocks[i].node]
      BY <1>3, <2>4, <3>1
    <3> QED
      BY <2>2, <2>4, <3>2
  <2>5. CASE blocks[i].node = b.node
    <3> DEFINE e == blocks[i].at + blocks[i].len
               z == last[blocks[i].node]
    <3>1. e \in Nat /\ z \in Nat /\ e <= z /\ z <= b.at
      BY <1>2, <2>1, <2>2, <2>3, <2>5
    <3>2. last'[blocks[i].node] = b.at + b.len
      BY <1>3, <2>5
    <3> HIDE DEF e, z
    <3>3. e <= b.at /\ e <= b.at + b.len
      BY <1>6, <3>1
    <3> QED
      BY <3>2, <3>3 DEF e
  <2> QED
    BY <2>4, <2>5
<1> QED
  BY <1>5, <1>6, <1>8, <1>9, <1>10
-----------------------------------------------------------------------------
(* No two blocks overlap, as an invariant of the steps that cut one off.   *)
LEMMA CarveKeeps ==
    ASSUME IInv, NEW r \in Requests \cup {Header}, NEW b \in Grant(r), Carve(b),
           large' \in Seq(Larges \cup {None}), heap' \subseteq Larges, up' \in BOOLEAN
    PROVE  IInv'
<1>1. TypeOK
  BY DEF IInv
<1>2. /\ b.node \in 1..Len(last') /\ last'[b.node] = b.at + b.len
  BY <1>1, CarvedNodes
<1>3. /\ Len(blocks) \in Nat /\ DOMAIN blocks' = 1..(Len(blocks) + 1)
      /\ blocks'[Len(blocks) + 1] = b
      /\ \A i \in 1..Len(blocks) :
            /\ blocks'[i] = blocks[i] /\ blocks[i] \in Block(Len(last))
            /\ blocks[i].at + blocks[i].len <= last'[blocks[i].node]
            /\ blocks[i].node = b.node => blocks[i].at + blocks[i].len <= b.at
  BY CarvedBlocks
<1>4. TypeOK'
  BY <1>1, CarvedNodes, CarvedBlocks DEF TypeOK, Block
<1>5. BelowLast'
  <2> SUFFICES ASSUME NEW i \in 1..(Len(blocks) + 1)
               PROVE  blocks'[i].at + blocks'[i].len <= last'[blocks'[i].node]
    BY <1>3 DEF BelowLast
  <2>1. CASE i = Len(blocks) + 1
    <3>1. b \in Block(Len(last'))
      BY CarvedBlocks
    <3>2. b.at + b.len \in Nat
      BY <3>1 DEF Block
    <3> QED
      BY <1>2, <1>3, <2>1, <3>2
  <2>2. CASE i \in 1..Len(blocks)
    BY <1>3, <2>2
  <2> QED
    BY <1>3, <2>1, <2>2
<1>6. BlocksDisjoint'
  <2> SUFFICES ASSUME NEW i \in 1..(Len(blocks) + 1), NEW j \in 1..(Len(blocks) + 1),
                      i # j, blocks'[i].node = blocks'[j].node
               PROVE  \/ blocks'[i].at + blocks'[i].len <= blocks'[j].at
                      \/ blocks'[j].at + blocks'[j].len <= blocks'[i].at
    BY <1>3 DEF BlocksDisjoint
  <2>1. CASE i \in 1..Len(blocks) /\ j \in 1..Len(blocks)
    <3>1. DOMAIN blocks = 1..Len(blocks)
      BY <1>1, SeqFacts DEF TypeOK
    <3> QED
      BY <1>3, <2>1, <3>1 DEF IInv, BlocksDisjoint
  <2>2. CASE i = Len(blocks) + 1
    BY <1>3, <2>2
  <2>3. CASE j = Len(blocks) + 1
    BY <1>3, <2>3
  <2> QED
    BY <1>3, <2>1, <2>2, <2>3
<1> QED
  BY <1>4, <1>5, <1>6 DEF IInv

LEMMA EmptiedFacts ==
    ASSUME TypeOK
    PROVE  Emptied \in Seq(Nat) /\ Len(Emptied) = Len(last)
<1>1. Len(last) \in Nat /\ DOMAIN last = 1..Len(last) /\ \A i \in 1..Len(last) : last[i] \in Nat
  BY SeqFacts DEF TypeOK
<1>2. Emptied \in [1..Len(last) -> Nat]
  BY <1>1, MemPoolAssumption DEF Emptied, Base
<1> QED
  BY <1>1, <1>2, FunctionIsSeq

LEMMA Start0 == Init => IInv
  BY MemPoolAssumption DEF Init, IInv, TypeOK, BelowLast, BlocksDisjoint

(* The steps that leave the blocks alone. *)
LEMMA NodesKept ==
    ASSUME IInv, UNCHANGED nodeVars,
           large' \in Seq(Larges \cup {None}), heap' \subseteq Larges, up' \in BOOLEAN
    PROVE  IInv'
  BY DEF IInv, TypeOK, BelowLast, BlocksDisjoint, nodeVars

LEMMA NextKeeps == IInv /\ [Next]_vars => IInv'
<1> SUFFICES ASSUME IInv, [Next]_vars PROVE IInv'
  OBVIOUS
<1>1. large \in Seq(Larges \cup {None}) /\ heap \subseteq Larges /\ up \in BOOLEAN
  BY DEF IInv, TypeOK
<1>2. ASSUME NEW x \in Larges PROVE <<x>> \o large \in Seq(Larges \cup {None})
  <2> DEFINE S == Larges \cup {None}
  <2>1. <<x>> \in Seq(S) /\ large \in Seq(S)
    BY <1>1
  <2> HIDE DEF S
  <2>2. <<x>> \o large \in Seq(S)
    BY <2>1
  <2> QED
    BY <2>2 DEF S
<1>3. ASSUME NEW r \in Requests, mp_alloc(r) PROVE IInv'
  <2>1. PICK b \in Grant(r) : Carve(b)
    BY <1>3 DEF mp_alloc
  <2>2. UNCHANGED <<large, heap, up>>
    BY <1>3 DEF mp_alloc
  <2> QED
    BY <1>1, <2>1, <2>2, CarveKeeps
<1>4. ASSUME NEW x \in Larges, NewHeader(x), heap' = heap \cup {x}, up' = up PROVE IInv'
  <2>1. PICK b \in Grant(Header) : Carve(b)
    BY <1>4 DEF NewHeader
  <2>2. large' \in Seq(Larges \cup {None}) /\ heap' \subseteq Larges /\ up' \in BOOLEAN
    BY <1>1, <1>2, <1>4 DEF NewHeader
  <2> QED
    BY <2>1, <2>2, CarveKeeps
<1>5. ASSUME NEW x \in Larges, mp_memalign(x) PROVE IInv'
  BY <1>4, <1>5 DEF mp_memalign
<1>6. ASSUME NEW x \in Larges, mp_alloc_large(x) PROVE IInv'
  <2>1. heap' = heap \cup {x} /\ up' = up
    BY <1>6 DEF mp_alloc_large
  <2>2. CASE NewHeader(x)
    BY <1>4, <2>1, <2>2
  <2>3. CASE \E i \in First(FreeHeaders) : large' = [large EXCEPT ![i] = x] /\ UNCHANGED nodeVars
    <3>1. PICK i \in DOMAIN large : large' = [large EXCEPT ![i] = x] /\ UNCHANGED nodeVars
      BY <2>3 DEF First, FreeHeaders
    <3>2. large' \in Seq(Larges \cup {None})
      BY <1>1, <3>1
    <3> QED
      BY <1>1, <2>1, <3>1, <3>2, NodesKept
  <2> QED
    BY <1>6, <2>2, <2>3 DEF mp_alloc_large
<1>7. ASSUME NEW x \in Larges, NoHeader(x) PROVE IInv'
  <2>1. /\ UNCHANGED nodeVars /\ large' = large /\ up' = up /\ heap' \subseteq Larges
    BY <1>1, <1>7 DEF NoHeader, GivenBack
  <2> QED
    BY <1>1, <2>1, NodesKept
<1>8. ASSUME NEW x \in Larges, mp_free(x) PROVE IInv'
  <2>1. PICK i \in DOMAIN large : /\ heap' = heap \ {x}
                                 /\ large' = [large EXCEPT ![i] = None]
    BY <1>8 DEF mp_free, First, Unlisted
  <2>2. large' \in Seq(Larges \cup {None})
    BY <1>1, <2>1
  <2>3. UNCHANGED nodeVars /\ up' = up
    BY <1>8 DEF mp_free
  <2> QED
    BY <1>1, <2>1, <2>2, <2>3, NodesKept
<1>9. CASE mp_reset_pool
  <2>1. /\ large' = <<>> /\ blocks' = <<>> /\ last' = Emptied /\ heap' \subseteq Larges
        /\ failed' = failed /\ current' = current /\ up' = up
    BY <1>1, <1>9 DEF mp_reset_pool
  <2>2. Emptied \in Seq(Nat) /\ Len(Emptied) = Len(last)
    BY EmptiedFacts DEF IInv
  <2>3. TypeOK'
    <3>1. large' \in Seq(Larges \cup {None})
      BY <2>1
    <3>2. blocks' \in Seq([node : 1..Len(last'), at : Nat, len : Nat])
      BY <2>1
    <3> QED
      BY <1>1, <2>1, <2>2, <3>1, <3>2 DEF IInv, TypeOK
  <2>4. BelowLast' /\ BlocksDisjoint'
    BY <2>1 DEF BelowLast, BlocksDisjoint
  <2> QED
    BY <2>3, <2>4 DEF IInv
<1>10. CASE mp_destory_pool
  <2>1. /\ UNCHANGED nodeVars /\ large' = large /\ up' = FALSE /\ heap' \subseteq Larges
    BY <1>1, <1>10 DEF mp_destory_pool
  <2> QED
    BY <1>1, <2>1, NodesKept
<1>11. CASE UNCHANGED vars
  BY <1>1, <1>11, NodesKept DEF vars
<1> QED
  BY <1>3, <1>5, <1>6, <1>7, <1>8, <1>9, <1>10, <1>11 DEF Next

LEMMA AlwaysIInv == Spec => []IInv
<1> QED
  BY Start0, NextKeeps, PTL DEF Spec

(* Type correctness: the search always begins at a node of the list. *)
THEOREM TypeCorrect == Spec => []TypeOK
<1>1. IInv => TypeOK
  BY DEF IInv
<1> QED
  BY <1>1, AlwaysIInv, PTL

(* No two blocks overlap, whatever the sizes, also when the search has run *)
(* past a node's end.                                                      *)
THEOREM BlocksNeverOverlap == Spec => []BlocksDisjoint
<1>1. IInv => BlocksDisjoint
  BY DEF IInv
<1> QED
  BY <1>1, AlwaysIInv, PTL
-----------------------------------------------------------------------------
(* Large blocks.  One header more in front, and one header changed. *)
LEMMA HeaderInFront ==
    ASSUME NEW S, NEW s \in Seq(S), NEW x \in S
    PROVE  LET t == <<x>> \o s IN
           /\ Len(t) = Len(s) + 1 /\ DOMAIN t = 1..(Len(s) + 1)
           /\ t[1] = x /\ \A i \in 2..(Len(s) + 1) : t[i] = s[i - 1]
    OBVIOUS

Headed == /\ heap = Listed \ {None}
          /\ \A i, j \in DOMAIN large : large[i] = large[j] /\ i # j => large[i] = None

(* A new header for a block that has none (mp_memalign, mp_alloc_large). *)
LEMMA NewHeaderKeeps ==
    ASSUME TypeOK, Headed, NEW x \in Larges, x \notin heap,
           heap' = heap \cup {x}, large' = <<x>> \o large
    PROVE  Headed'
<1> DEFINE n == Len(large)
<1>1. /\ n \in Nat /\ DOMAIN large = 1..n
      /\ x # None /\ \A i \in 1..n : large[i] # x
  <2>1. large \in Seq(Larges \cup {None}) /\ x # None
    BY NoneAssumption DEF TypeOK
  <2>2. n \in Nat /\ DOMAIN large = 1..n
    BY <2>1
  <2> QED
    BY <2>1, <2>2 DEF Headed, Listed
<1>2. /\ DOMAIN large' = 1..(n + 1)
      /\ large'[1] = x /\ \A i \in 2..(n + 1) : large'[i] = large[i - 1]
  BY HeaderInFront DEF TypeOK
<1>3. Listed' = {x} \cup Listed
  <2>1. ASSUME NEW i \in 1..n PROVE large[i] \in Listed'
    <3>1. i + 1 \in 2..(n + 1) /\ i + 1 \in DOMAIN large' /\ (i + 1) - 1 = i
      BY <1>1, <1>2
    <3>2. large'[i + 1] = large[i]
      BY <3>1, <1>2
    <3> QED
      BY <3>1, <3>2 DEF Listed
  <2>2. ASSUME NEW i \in 1..(n + 1) PROVE large'[i] \in {x} \cup Listed
    <3>1. CASE i = 1
      BY <3>1, <1>2
    <3>2. CASE i # 1
      <4>1. i \in 2..(n + 1) /\ i - 1 \in 1..n
        BY <3>2, <1>1
      <4> QED
        BY <4>1, <1>1, <1>2 DEF Listed
    <3> QED
      BY <3>1, <3>2
  <2>3. x \in Listed'
    <3>1. 1 \in DOMAIN large' /\ large'[1] = x
      BY <1>1, <1>2
    <3> QED
      BY <3>1 DEF Listed
  <2>4. Listed \subseteq Listed'
    BY <1>1, <2>1 DEF Listed
  <2>5. Listed' \subseteq {x} \cup Listed
    BY <1>2, <2>2 DEF Listed
  <2> QED
    BY <2>3, <2>4, <2>5
<1>4. heap' = Listed' \ {None}
  BY <1>1, <1>3 DEF Headed
<1>5. ASSUME NEW i \in 1..(n + 1), NEW j \in 1..(n + 1), large'[i] = large'[j], i # j
      PROVE  large'[i] = None
  <2>1. \A k \in 1..(n + 1) : k # 1 => k \in 2..(n + 1) /\ k - 1 \in 1..n
    BY <1>1
  <2>2. i # 1 /\ j # 1
    BY <1>1, <1>2, <1>5, <2>1
  <2>3. i - 1 # j - 1 /\ i - 1 \in 1..n /\ j - 1 \in 1..n
    BY <1>5, <2>1, <2>2
  <2> QED
    BY <1>1, <1>2, <1>5, <2>1, <2>2, <2>3 DEF Headed
<1> QED
  BY <1>2, <1>4, <1>5 DEF Headed

(* A free header is used for a block that has none. *)
LEMMA ReuseKeeps ==
    ASSUME TypeOK, Headed, NEW x \in Larges, x \notin heap,
           NEW i \in DOMAIN large, large[i] = None,
           heap' = heap \cup {x}, large' = [large EXCEPT ![i] = x]
    PROVE  Headed'
<1>1. /\ x # None /\ \A k \in DOMAIN large : large[k] # x
      /\ DOMAIN large' = DOMAIN large /\ large'[i] = x
      /\ \A k \in DOMAIN large : k # i => large'[k] = large[k]
  <2>1. x # None /\ large \in Seq(Larges \cup {None})
    BY NoneAssumption DEF TypeOK
  <2>2. large = [k \in DOMAIN large |-> large[k]]
    BY <2>1
  <2>3. /\ DOMAIN large' = DOMAIN large /\ large'[i] = x
        /\ \A k \in DOMAIN large : k # i => large'[k] = large[k]
    BY <2>2
  <2> QED
    BY <2>1, <2>3 DEF Headed, Listed
<1>2. \A b : b # None => (b \in Listed' <=> b = x \/ b \in Listed)
  BY <1>1 DEF Listed
<1> QED
  BY <1>1, <1>2 DEF Headed

(* The header of a freed block is free. *)
LEMMA FreeKeeps ==
    ASSUME TypeOK, Headed, NEW x \in Larges, NEW i \in DOMAIN large, large[i] = x,
           heap' = heap \ {x}, large' = [large EXCEPT ![i] = None]
    PROVE  Headed'
<1>1. /\ x # None
      /\ DOMAIN large' = DOMAIN large /\ large'[i] = None
      /\ \A k \in DOMAIN large : k # i => large'[k] = large[k] /\ large[k] # x
  <2>1. x # None /\ large \in Seq(Larges \cup {None})
    BY NoneAssumption DEF TypeOK
  <2>2. large = [k \in DOMAIN large |-> large[k]]
    BY <2>1
  <2>3. /\ DOMAIN large' = DOMAIN large /\ large'[i] = None
        /\ \A k \in DOMAIN large : k # i => large'[k] = large[k]
    BY <2>2
  <2> QED
    BY <2>1, <2>3 DEF Headed
<1>2. \A b : b # None => (b \in Listed' <=> b # x /\ b \in Listed)
  BY <1>1 DEF Listed
<1> QED
  BY <1>1, <1>2 DEF Headed

LEMMA LargeStep ==
    ASSUME TypeOK, LargeIsListed, [Next]_vars
    PROVE  LargeIsListed'
<1>1. CASE UNCHANGED <<large, heap, up>>
  BY <1>1 DEF LargeIsListed, Listed
<1>2. ASSUME NEW x \in Larges, mp_memalign(x)
      PROVE  LargeIsListed'
  <2>1. up /\ up' /\ Headed
    BY <1>2 DEF mp_memalign, LargeIsListed, Headed
  <2> QED
    BY <1>2, <2>1, NewHeaderKeeps DEF mp_memalign, NewHeader, LargeIsListed, Headed
<1>3. ASSUME NEW x \in Larges, mp_alloc_large(x)
      PROVE  LargeIsListed'
  <2>1. up /\ up' /\ Headed /\ x \notin heap /\ heap' = heap \cup {x}
    BY <1>3 DEF mp_alloc_large, LargeIsListed, Headed
  <2>2. CASE NewHeader(x)
    BY <2>1, <2>2, NewHeaderKeeps DEF NewHeader, LargeIsListed, Headed
  <2>3. CASE \E i \in First(FreeHeaders) : large' = [large EXCEPT ![i] = x]
    <3>1. PICK i \in DOMAIN large : large[i] = None /\ large' = [large EXCEPT ![i] = x]
      BY <2>3 DEF First, FreeHeaders
    <3>2. Headed'
      BY <2>1, <3>1, ReuseKeeps
    <3> QED
      BY <2>1, <3>2 DEF LargeIsListed, Headed
  <2> QED
    BY <1>3, <2>2, <2>3 DEF mp_alloc_large
<1>4. ASSUME NEW x \in Larges, NoHeader(x)
      PROVE  UNCHANGED <<large, heap, up>>
  BY <1>4 DEF NoHeader, GivenBack
<1>5. ASSUME NEW x \in Larges, mp_free(x)
      PROVE  LargeIsListed'
  <2>1. up /\ up' /\ Headed
    BY <1>5 DEF mp_free, LargeIsListed, Headed
  <2>2. PICK i \in DOMAIN large : large[i] = x /\ heap' = heap \ {x} /\ large' = Unlisted(i)
    BY <1>5 DEF mp_free, First
  <2> QED
    BY <2>1, <2>2, FreeKeeps DEF Unlisted, LargeIsListed, Headed
<1>6. CASE mp_reset_pool
  <2>1. up /\ up' /\ heap' = {} /\ large' = <<>>
    BY <1>6 DEF mp_reset_pool, LargeIsListed
  <2> QED
    BY <2>1 DEF LargeIsListed, Listed
<1>7. CASE mp_destory_pool
  BY <1>7 DEF mp_destory_pool, LargeIsListed
<1> QED
  BY <1>1, <1>2, <1>3, <1>4, <1>5, <1>6, <1>7 DEF Next, vars, mp_alloc

(* Headers and large blocks are one to one through any allocations, frees, *)
(* failures, resets and the end of the pool.                               *)
THEOREM LargeBlocksAreFreed == Spec => []LargeIsListed
<1>1. Init => LargeIsListed
  BY DEF Init, LargeIsListed, Listed
<1> QED
  BY <1>1, TypeCorrect, LargeStep, PTL DEF Spec
-----------------------------------------------------------------------------
(* Between an end and the next multiple of MP_ALIGNMENT there is no other. *)
LEMMA NextMultiple ==
    ASSUME NEW n \in Nat, NEW e \in Nat, n <= e, e < mp_align_ptr(n)
    PROVE  mp_align_ptr(e) = mp_align_ptr(n) /\ e % MP_ALIGNMENT # 0
<1> DEFINE A == MP_ALIGNMENT
           g == mp_align_ptr(n)
           h == mp_align_ptr(e)
<1>1. /\ A \in Nat \ {0} /\ g \in Nat /\ g < n + A /\ g % A = 0
      /\ h \in Nat /\ e <= h /\ h < e + A /\ h % A = 0
  BY MemPoolAssumption, Aligned
<1> HIDE DEF A, g, h
<1>2. e < g
  BY DEF g
<1>3. g < h + A /\ h < g + A /\ g % A = h % A
  BY <1>1, <1>2
<1>4. h = g
  BY <1>1, <1>3, SameMod
<1>5. e % A # 0
  <2>1. SUFFICES ASSUME e % A = 0 PROVE FALSE
    OBVIOUS
  <2>2. e % A = g % A /\ e < g + A /\ g < e + A
    BY <1>1, <1>2, <2>1
  <2>3. e = g
    BY <1>1, <2>2, SameMod
  <2> QED
    BY <1>1, <1>2, <2>3
<1> QED
  BY <1>4, <1>5 DEF A, g, h

(* The free space of a node begins behind the node's structure, and not in *)
(* the gap between the end of its page and the next multiple.              *)
Over(n, e) == e % MP_ALIGNMENT # 0 /\ mp_align_ptr(e) <= n
OffGap(i, n) == Base(i) + NodeSize <= n /\ (n <= End(i) \/ Over(n, End(i)))
NodesOffGap == \A i \in 1..Len(last) : OffGap(i, last[i])

EndInv == IInv /\ NodesOffGap /\ InsideOrBehind

LEMMA EndType == ASSUME NEW i \in Nat
                 PROVE  End(i) \in Nat /\ Base(i) \in Nat
  BY MemPoolAssumption DEF End, PageSize, Base

(* The block of a request is inside its node's page or behind it, and so   *)
(* is what follows.                                                        *)
LEMMA GrantedOffGap ==
    ASSUME TypeOK, NodesOffGap, RoomForAny, NEW r \in Requests \cup {Header}, NEW b \in Grant(r)
    PROVE  /\ Base(b.node) + NodeSize <= b.at /\ (Inside(b) \/ Behind(b))
           /\ OffGap(b.node, b.at + b.len)
<1>1. /\ b \in Block(Len(last) + 1) /\ Len(last) \in Nat /\ b.len = r.len
      /\ b.node \in 1..Len(last) => /\ last[b.node] <= b.at
                                    /\ b.at = Start(b.node, r) /\ Fits(b.node, r)
      /\ b.node \notin 1..Len(last) => b.node = Len(last) + 1 /\ b.at = FirstBlock
  BY Granted
<1> DEFINE i == b.node
           l == b.len
           e == End(b.node)
           m == b.at
           s == Base(b.node) + NodeSize
<1>2. /\ i \in Nat /\ l \in Nat /\ m \in Nat /\ e \in Nat /\ s \in Nat
      /\ l <= max /\ max \in Nat
  <2>1. b.node \in Nat /\ b.at \in Nat
    BY <1>1 DEF Block
  <2>2. r.len \in Nat /\ r.len <= max
    BY RequestType
  <2>3. End(b.node) \in Nat /\ Base(b.node) \in Nat
    BY <2>1, EndType
  <2> QED
    BY <1>1, <2>1, <2>2, <2>3, MemPoolAssumption
<1>3. s <= m /\ (m + l <= e \/ Over(m, e))
  <2>1. CASE i \in 1..Len(last)
    <3> DEFINE n == last[i]
    <3>1. /\ n \in Nat /\ n <= m /\ s <= n /\ (n <= e \/ Over(n, e))
          /\ m = mp_align_ptr(n) \/ m = n
          /\ e - m < 0 \/ e - m >= l
      BY <1>1, <2>1, SeqFacts DEF TypeOK, NodesOffGap, OffGap, Start, Fits
    <3> HIDE DEF i, l, e, m, s, n
    <3>2. CASE n <= e
      <4>1. CASE m <= e
        BY <1>2, <3>1, <4>1
      <4>2. CASE e < m
        <5>1. m = mp_align_ptr(n)
          BY <1>2, <3>1, <3>2, <4>2
        <5>2. mp_align_ptr(e) = m /\ e % MP_ALIGNMENT # 0
          BY <1>2, <3>1, <3>2, <4>2, <5>1, NextMultiple
        <5> QED
          BY <1>2, <3>1, <5>2 DEF Over
      <4> QED
        BY <1>2, <4>1, <4>2
    <3>3. CASE Over(n, e)
      <4>1. mp_align_ptr(e) \in Nat
        BY <1>2, Aligned
      <4> QED
        BY <1>2, <3>1, <3>3, <4>1 DEF Over
    <3> QED
      BY <3>1, <3>2, <3>3
  <2>2. CASE i \notin 1..Len(last)
    <3>1. i = Len(last) + 1 /\ m = FirstBlock /\ i # 1
      BY <1>1, <2>2 DEF TypeOK
    <3>2. s = 0 + NodeSize /\ e = PageSize
      BY <3>1 DEF Base, End
    <3>3. NodeSize <= m
      BY <3>1, Aligned, MemPoolAssumption DEF FirstBlock
    <3>4. m + max <= e
      BY <3>1, <3>2 DEF RoomForAny
    <3> HIDE DEF i, l, e, m, s
    <3> QED
      BY <1>2, <3>2, <3>3, <3>4, MemPoolAssumption
  <2> QED
    BY <2>1, <2>2
<1>4. s <= m + l /\ (m + l <= e \/ Over(m + l, e))
  <2>1. mp_align_ptr(e) \in Nat
    BY <1>2, Aligned
  <2> HIDE DEF i, l, e, m, s
  <2> QED
    BY <1>2, <1>3, <2>1 DEF Over
<1> QED
  BY <1>3, <1>4 DEF OffGap, Over, Inside, Behind

LEMMA CarveOffGap ==
    ASSUME EndInv, RoomForAny, NEW r \in Requests \cup {Header}, NEW b \in Grant(r), Carve(b)
    PROVE  NodesOffGap' /\ InsideOrBehind'
<1>1. IInv /\ TypeOK /\ NodesOffGap
  BY DEF EndInv, IInv
<1>2. /\ Base(b.node) + NodeSize <= b.at /\ (Inside(b) \/ Behind(b))
      /\ OffGap(b.node, b.at + b.len)
  BY <1>1, GrantedOffGap
<1>3. /\ Len(last') \in Nat /\ last'[b.node] = b.at + b.len
      /\ \A i \in 1..Len(last') : i # b.node => i \in 1..Len(last) /\ last'[i] = last[i]
  BY <1>1, CarvedNodes
<1>4. /\ Len(blocks) \in Nat /\ DOMAIN blocks' = 1..(Len(blocks) + 1)
      /\ blocks'[Len(blocks) + 1] = b
      /\ \A i \in 1..Len(blocks) : blocks'[i] = blocks[i]
  BY <1>1, CarvedBlocks
<1>5. ASSUME NEW i \in 1..Len(last') PROVE OffGap(i, last'[i])
  <2>1. CASE i = b.node
    BY <1>2, <1>3, <2>1
  <2>2. CASE i # b.node
    BY <1>1, <1>3, <2>2 DEF NodesOffGap
  <2> QED
    BY <2>1, <2>2
<1>6. DOMAIN blocks = 1..Len(blocks)
  BY <1>1, SeqFacts DEF TypeOK
<1>7. ASSUME NEW i \in 1..(Len(blocks) + 1)
      PROVE  /\ Base(blocks'[i].node) + NodeSize <= blocks'[i].at
             /\ Inside(blocks'[i]) \/ Behind(blocks'[i])
  <2>1. CASE i = Len(blocks) + 1
    BY <1>2, <1>4, <2>1
  <2>2. CASE i \in 1..Len(blocks)
    BY <1>4, <1>6, <2>2 DEF EndInv, InsideOrBehind
  <2> QED
    BY <1>4, <2>1, <2>2
<1>8. NodesOffGap'
  BY <1>5 DEF NodesOffGap, OffGap, Over, Base, End, PageSize, mp_align_ptr
<1>9. InsideOrBehind'
  BY <1>4, <1>7 DEF InsideOrBehind, Inside, Behind, Base, End, PageSize, mp_align_ptr
<1> QED
  BY <1>8, <1>9

LEMMA EmptiedOffGap ==
    ASSUME EndInv, RoomForAny, NEW i \in 1..Len(last)
    PROVE  OffGap(i, Emptied[i])
<1>1. /\ DOMAIN last = 1..Len(last) /\ OffGap(i, last[i]) /\ i \in Nat
      /\ Len(last) \in Nat
  BY SeqFacts DEF EndInv, IInv, TypeOK, NodesOffGap
<1>2. CASE i > 1 \/ ResetsHead
  <2>1. Emptied[i] = Base(i) + NodeSize
    BY <1>1, <1>2 DEF Emptied
  <2>2. Base(i) + NodeSize <= End(i)
    BY MemPoolAssumption DEF RoomForAny, Base, End, PageSize
  <2>3. Base(i) + NodeSize <= Base(i) + NodeSize
    BY <1>1, EndType, MemPoolAssumption
  <2> QED
    BY <2>1, <2>2, <2>3 DEF OffGap
<1>3. CASE ~(i > 1 \/ ResetsHead)
  BY <1>1, <1>3 DEF Emptied
<1> QED
  BY <1>2, <1>3

LEMMA EndStart == RoomForAny /\ Init => EndInv
<1> SUFFICES ASSUME RoomForAny, Init PROVE EndInv
  OBVIOUS
<1>1. IInv
  BY Start0
<1>2. last = <<PoolSize + HeadGap>> /\ blocks = <<>>
  BY DEF Init
<1>3. OffGap(1, PoolSize + HeadGap)
  BY MemPoolAssumption DEF OffGap, Base, End, PageSize, RoomForAny
<1> QED
  BY <1>1, <1>2, <1>3 DEF EndInv, NodesOffGap, InsideOrBehind

LEMMA EndNext == RoomForAny /\ EndInv /\ [Next]_vars => EndInv'
<1> SUFFICES ASSUME RoomForAny, EndInv, [Next]_vars PROVE NodesOffGap' /\ InsideOrBehind'
  BY NextKeeps DEF EndInv
<1>1. CASE UNCHANGED nodeVars
  BY <1>1 DEF nodeVars, EndInv, NodesOffGap, OffGap, Over, InsideOrBehind, Inside, Behind,
     Base, End, PageSize, mp_align_ptr
<1>2. ASSUME NEW r \in Requests \cup {Header}, NEW b \in Grant(r), Carve(b)
      PROVE  NodesOffGap' /\ InsideOrBehind'
  BY <1>2, CarveOffGap
<1>3. CASE mp_reset_pool
  <2>1. last' = Emptied /\ blocks' = <<>> /\ Len(Emptied) = Len(last)
    BY <1>3, EmptiedFacts DEF mp_reset_pool, EndInv, IInv
  <2>2. \A i \in 1..Len(last') : OffGap(i, last'[i])
    BY <2>1, EmptiedOffGap
  <2> QED
    BY <2>1, <2>2 DEF NodesOffGap, InsideOrBehind, OffGap, Over, Base, End, PageSize, mp_align_ptr
<1>4. ASSUME NEW r \in Requests, mp_alloc(r) PROVE \E b \in Grant(r) : Carve(b)
  BY <1>4 DEF mp_alloc
<1>5. ASSUME NEW x \in Larges, mp_memalign(x) PROVE \E b \in Grant(Header) : Carve(b)
  BY <1>5 DEF mp_memalign, NewHeader
<1>6. ASSUME NEW x \in Larges, mp_alloc_large(x)
      PROVE  (\E b \in Grant(Header) : Carve(b)) \/ UNCHANGED nodeVars
  BY <1>6 DEF mp_alloc_large, NewHeader
<1>7. ASSUME NEW x \in Larges, NoHeader(x) \/ mp_free(x) PROVE UNCHANGED nodeVars
  BY <1>7 DEF NoHeader, mp_free
<1>8. mp_destory_pool \/ UNCHANGED vars => UNCHANGED nodeVars
  BY DEF mp_destory_pool, vars
<1> QED
  BY <1>1, <1>2, <1>3, <1>4, <1>5, <1>6, <1>7, <1>8 DEF Next

(* For the sizes of mmpool, any page and any requests: no block touches a  *)
(* node's structure or straddles the end of its page, through any          *)
(* allocations and resets; it is behind the page only where the page does  *)
(* not end on a multiple of MP_ALIGNMENT.                                  *)
THEOREM NoneStraddlesTheEnd == ASSUME RoomForAny PROVE Spec => []InsideOrBehind
<1>1. Init => EndInv
  BY EndStart
<1>2. EndInv /\ [Next]_vars => EndInv'
  BY EndNext
<1>3. EndInv => InsideOrBehind
  BY DEF EndInv
<1> QED
  BY <1>1, <1>2, <1>3, PTL DEF Spec

(* Where every page but the first ends on a multiple, as mmpool's do, the  *)
(* blocks of those pages are inside them and their last never passes end.  *)
LaterPagesHold ==
    /\ \A i \in DOMAIN last : i > 1 => last[i] <= End(i)
    /\ \A i \in DOMAIN blocks : blocks[i].node > 1 => Inside(blocks[i])

THEOREM OnlyTheFirstPageOverruns ==
    ASSUME RoomForAny, PageSize % MP_ALIGNMENT = 0 PROVE Spec => []LaterPagesHold
<1>1. Init => EndInv
  BY EndStart
<1>2. EndInv /\ [Next]_vars => EndInv'
  BY EndNext
<1>3. EndInv => LaterPagesHold
  <2> SUFFICES ASSUME EndInv PROVE LaterPagesHold
    OBVIOUS
  <2>1. \A i : i > 1 => End(i) % MP_ALIGNMENT = 0
    BY DEF End
  <2>2. DOMAIN last = 1..Len(last)
    BY SeqFacts DEF EndInv, IInv, TypeOK
  <2>3. \A i \in DOMAIN last : i > 1 => last[i] <= End(i)
    BY <2>1, <2>2 DEF EndInv, NodesOffGap, OffGap, Over
  <2>4. \A i \in DOMAIN blocks : blocks[i].node > 1 => Inside(blocks[i])
    BY <2>1 DEF EndInv, InsideOrBehind, Behind
  <2> QED
    BY <2>3, <2>4 DEF LaterPagesHold
<1> QED
  BY <1>1, <1>2, <1>3, PTL DEF Spec
=============================================================================
