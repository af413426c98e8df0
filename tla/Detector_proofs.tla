-------------------------- MODULE Detector_proofs --------------------------
(***************************************************************************)
(* Theorems about the deadlock detector, for any threads and mutexes: the  *)
(* wait-for graph and the search for a cycle in it, and the hooks that     *)
(* feed it from a table of locks.                                          *)
(***************************************************************************)
EXTENDS CycleSearch, LockHooks, SequenceTheorems, FiniteSetTheorems, WellFoundedInduction, TLAPS
-----------------------------------------------------------------------------
(* What the operations on lists leave in them. *)
LEMMA AppendElements ==
    ASSUME NEW S, NEW s \in Seq(S), NEW a \in S
    PROVE  /\ Append(s, a) \in Seq(S)
           /\ Len(Append(s, a)) = Len(s) + 1
           /\ \A i \in 1..Len(s) : Append(s, a)[i] = s[i]
           /\ Append(s, a)[Len(s) + 1] = a
           /\ ToSet(Append(s, a)) = ToSet(s) \cup {a}
BY DEF ToSet

LEMMA TailElements ==
    ASSUME NEW S, NEW s \in Seq(S), s # <<>>
    PROVE  /\ Head(s) \in S
           /\ Tail(s) \in Seq(S)
           /\ ToSet(s) = {Head(s)} \cup ToSet(Tail(s))
<1>1. /\ Tail(s) \in Seq(S)
      /\ Len(Tail(s)) = Len(s) - 1
      /\ \A i \in 1..(Len(s) - 1) : Tail(s)[i] = s[i + 1]
      /\ Len(s) \in Nat \ {0}
      /\ Head(s) = s[1]
      /\ s[1] \in S
  OBVIOUS
<1>2. ToSet(Tail(s)) = {s[i] : i \in 2..Len(s)}
  <2>1. ASSUME NEW i \in 2..Len(s) PROVE s[i] \in ToSet(Tail(s))
    <3>1. i - 1 \in DOMAIN Tail(s) /\ Tail(s)[i - 1] = s[i]  BY <1>1
    <3>. QED  BY <3>1 DEF ToSet
  <2>2. ASSUME NEW i \in DOMAIN Tail(s) PROVE Tail(s)[i] \in {s[j] : j \in 2..Len(s)}
    <3>1. i + 1 \in 2..Len(s) /\ Tail(s)[i] = s[i + 1]  BY <1>1
    <3>. QED  BY <3>1
  <2>. QED  BY <2>1, <2>2 DEF ToSet
<1>3. ToSet(s) = {s[1]} \cup {s[i] : i \in 2..Len(s)}  BY <1>1 DEF ToSet
<1>. QED  BY <1>1, <1>2, <1>3

LEMMA FrontElements ==
    ASSUME NEW S, NEW s \in Seq(S), Len(s) > 0
    PROVE  /\ Front(s) \in Seq(S)
           /\ Len(Front(s)) = Len(s) - 1
           /\ \A i \in 1..(Len(s) - 1) : Front(s)[i] = s[i]
<1>. DEFINE n == Len(s) - 1
<1>1. Len(s) \in Nat /\ n \in Nat /\ \A i \in 1..n : s[i] \in S
  OBVIOUS
<1>. HIDE DEF n
<1>2. /\ SubSeq(s, 1, n) \in Seq(S)
      /\ Len(SubSeq(s, 1, n)) = n
      /\ \A i \in 1..n : SubSeq(s, 1, n)[i] = s[i]
  BY <1>1, SubSeqProperties
<1>. QED  BY <1>2 DEF Front, n

LEMMA AppendUnique ==
    ASSUME NEW S, NEW s \in Seq(S), NEW a \in S, IsInjective(s), a \notin ToSet(s)
    PROVE  IsInjective(Append(s, a))
BY DEF IsInjective, ToSet

(* remove_edge takes out the only occurrence and nothing else. *)
LEMMA RemoveFirstElements ==
    ASSUME NEW S, NEW s \in Seq(S), NEW b, IsInjective(s)
    PROVE  /\ RemoveFirst(s, b) \in Seq(S)
           /\ IsInjective(RemoveFirst(s, b))
           /\ ToSet(RemoveFirst(s, b)) = ToSet(s) \ {b}
<1>. DEFINE r == RemoveFirst(s, b)
            I == {i \in 1..Len(s) : s[i] = b}
<1>1. CASE I = {}
  <2>1. r = s  BY <1>1 DEF RemoveFirst
  <2>2. b \notin ToSet(s)  BY <1>1 DEF ToSet
  <2>. QED  BY <2>1, <2>2
<1>2. CASE I # {}
  <2>1. PICK i \in 1..Len(s) : s[i] = b  BY <1>2
  <2>2. I = {i}  BY <2>1 DEF IsInjective
  <2>3. SelectInSeq(s, LAMBDA v : v = b) = i
    BY <2>2 DEF SelectInSeq, Min
  <2>4. r = SubSeq(s, 1, i - 1) \o SubSeq(s, i + 1, Len(s))
    BY <2>1, <2>3 DEF RemoveFirst, RemoveAt
  <2>. HIDE DEF r
  <2>5. /\ Len(s) \in Nat
        /\ \A j \in 1..Len(s) : s[j] \in S
    OBVIOUS
  <2>6. /\ SubSeq(s, 1, i - 1) \in Seq(S)
        /\ Len(SubSeq(s, 1, i - 1)) = i - 1
        /\ \A j \in 1..(i - 1) : SubSeq(s, 1, i - 1)[j] = s[j]
    BY <2>5, SubSeqProperties
  <2>7. /\ SubSeq(s, i + 1, Len(s)) \in Seq(S)
        /\ Len(SubSeq(s, i + 1, Len(s))) = Len(s) - i
        /\ \A j \in 1..(Len(s) - i) : SubSeq(s, i + 1, Len(s))[j] = s[j + i]
    BY <2>5, SubSeqProperties
  <2>8. /\ r \in Seq(S)
        /\ Len(r) = Len(s) - 1
        /\ \A j \in 1..(i - 1) : r[j] = s[j]
        /\ \A j \in i..(Len(s) - 1) : r[j] = s[j + 1]
    <3>. DEFINE p == SubSeq(s, 1, i - 1)
                q == SubSeq(s, i + 1, Len(s))
    <3>1. /\ p \in Seq(S) /\ Len(p) = i - 1
          /\ \A j \in 1..(i - 1) : p[j] = s[j]
      BY <2>6
    <3>2. /\ q \in Seq(S) /\ Len(q) = Len(s) - i
          /\ \A j \in 1..(Len(s) - i) : q[j] = s[j + i]
      BY <2>7
    <3>3. r = p \o q  BY <2>4
    <3>. HIDE DEF p, q, r
    <3>4. /\ r \in Seq(S)
          /\ Len(r) = Len(p) + Len(q)
          /\ \A j \in 1..(Len(p) + Len(q)) : r[j] = IF j <= Len(p) THEN p[j] ELSE q[j - Len(p)]
      BY <3>1, <3>2, <3>3, ConcatProperties
    <3>5. Len(r) = Len(s) - 1  BY <2>5, <3>1, <3>2, <3>4
    <3>6. ASSUME NEW j \in 1..(i - 1) PROVE r[j] = s[j]
      <4>1. j \in 1..(Len(p) + Len(q)) /\ j <= Len(p)  BY <2>5, <3>1, <3>2
      <4>2. r[j] = p[j]  BY <3>4, <4>1
      <4>. QED  BY <3>1, <4>2
    <3>7. ASSUME NEW j \in i..(Len(s) - 1) PROVE r[j] = s[j + 1]
      <4>0. j \in 1..(Len(p) + Len(q)) /\ ~(j <= Len(p))  BY <2>5, <3>1, <3>2
      <4>1. r[j] = q[j - (i - 1)]  BY <3>1, <3>4, <4>0
      <4>2. j - (i - 1) \in 1..(Len(s) - i) /\ (j - (i - 1)) + i = j + 1  BY <2>5
      <4>. QED  BY <3>2, <4>1, <4>2
    <3>. QED  BY <3>4, <3>5, <3>6, <3>7
  <2>9. IsInjective(r)
    <3>. DEFINE m(j) == IF j < i THEN j ELSE j + 1
    <3>1. /\ DOMAIN s = 1..Len(s) /\ DOMAIN r = 1..(Len(s) - 1)
          /\ i \in 1..Len(s) /\ Len(s) \in Nat
      BY <2>5, <2>8
    <3>2. \A j \in 1..(Len(s) - 1) : r[j] = s[m(j)]
      <4>1. \A j \in 1..(Len(s) - 1) : j \in 1..(i - 1) \/ j \in i..(Len(s) - 1)
        BY <3>1
      <4>. HIDE DEF r
      <4>. QED  BY <2>8, <3>1, <4>1
    <3>. HIDE DEF r, I
    <3>3. ASSUME NEW j \in 1..(Len(s) - 1), NEW k \in 1..(Len(s) - 1), r[j] = r[k]
          PROVE  j = k
      <4>1. m(j) \in 1..Len(s) /\ m(k) \in 1..Len(s)  BY <3>1
      <4>2. s[m(j)] = s[m(k)]  BY <3>2, <3>3
      <4>3. m(j) = m(k)
        <5>. HIDE DEF m
        <5>. QED  BY <3>1, <4>1, <4>2 DEF IsInjective
      <4>. QED  BY <3>1, <4>3
    <3>. QED  BY <3>1, <3>3 DEF IsInjective
  <2>10. ASSUME NEW x \in ToSet(r) PROVE x \in ToSet(s) \ {b}
    <3>1. PICK j \in 1..Len(r) : x = r[j]  BY <2>8 DEF ToSet
    <3>2. CASE j < i
      <4>1. j \in DOMAIN s /\ s[j] = x  BY <2>5, <2>8, <3>1, <3>2
      <4>2. s[j] # b  BY <2>1, <2>5, <4>1, <3>2 DEF IsInjective
      <4>. QED  BY <4>1, <4>2 DEF ToSet
    <3>3. CASE j >= i
      <4>1. j + 1 \in DOMAIN s /\ s[j + 1] = x  BY <2>5, <2>8, <3>1, <3>3
      <4>2. s[j + 1] # b  BY <2>1, <2>5, <4>1, <3>3 DEF IsInjective
      <4>. QED  BY <4>1, <4>2 DEF ToSet
    <3>. QED  BY <2>8, <3>2, <3>3
  <2>11. ASSUME NEW x \in ToSet(s), x # b PROVE x \in ToSet(r)
    <3>1. PICK j \in 1..Len(s) : x = s[j]  BY DEF ToSet
    <3>2. CASE j < i
      <4>1. j \in DOMAIN r /\ r[j] = x  BY <2>8, <3>1, <3>2
      <4>. QED  BY <4>1 DEF ToSet
    <3>3. CASE j > i
      <4>1. j - 1 \in DOMAIN r /\ r[j - 1] = x  BY <2>8, <3>1, <3>3
      <4>. QED  BY <4>1 DEF ToSet
    <3>. QED  BY <2>1, <2>5, <2>11, <3>1, <3>2, <3>3
  <2>12. ToSet(r) = ToSet(s) \ {b}  BY <2>10, <2>11
  <2>. QED  BY <2>8, <2>9, <2>12 DEF r
<1>3. r \in Seq(S) /\ IsInjective(r) /\ ToSet(r) = ToSet(s) \ {b}
  BY <1>1, <1>2
<1>. QED  BY <1>3
-----------------------------------------------------------------------------
(* The search as a stack: path[i] is the vertex of the i-th active call,   *)
(* todo[i] are some of its neighbours, and each call is for a neighbour of *)
(* the one before.                                                         *)
Stack ==
    start > 0 =>
      /\ Len(todo) > 0
      /\ Len(path) = Len(todo)
      /\ path[1] = ids[start]
      /\ \A i \in 1..Len(path) :
            path[i] \in ToSet(ids) /\ ToSet(todo[i]) \subseteq ToSet(next[path[i]])
      /\ \A i \in 1..(Len(path) - 1) : path[i + 1] \in ToSet(next[path[i]])

IInv == TypeOK /\ Stack

(* The vertices of the list are threads; the list is a list without        *)
(* repetitions.                                                            *)
LEMMA IdsAreIds == ASSUME TypeOK PROVE ToSet(ids) \subseteq Ids /\ IsInjective(ids)
BY DEF TypeOK, ToSet

(* add_vertex keeps the list so, and what is in it. *)
LEMMA AddVertex ==
    ASSUME NEW s \in Seq(Ids), IsInjective(s), NEW a \in Ids
    PROVE  /\ add_vertex(s, a) \in Seq(Ids)
           /\ IsInjective(add_vertex(s, a))
           /\ ToSet(add_vertex(s, a)) = ToSet(s) \cup {a}
           /\ Len(s) <= Len(add_vertex(s, a))
<1>1. CASE a \in ToSet(s)
  BY <1>1 DEF add_vertex
<1>2. CASE a \notin ToSet(s)
  BY <1>2, AppendElements, AppendUnique DEF add_vertex
<1>. QED  BY <1>1, <1>2

(* A step of a hook leaves the graph a graph. *)
LEMMA HooksKeepType ==
    ASSUME TypeOK, NEW a \in Ids, NEW b \in Ids, \A c \in Ids : IsInjective(next[c]),
           Blocks(a, b) \/ Unblocks(a, b)
    PROVE  /\ TypeOK'
           /\ ToSet(ids) \subseteq ToSet(ids')
           /\ \A c \in Ids : IsInjective(next'[c])
           /\ \A c \in Ids \ {a} : next'[c] = next[c]
           /\ start = 0 /\ start' = 0
<1>. ids \in Seq(Ids) /\ IsInjective(ids) /\ next \in [Ids -> Seq(Ids)]
  BY IdsAreIds DEF TypeOK
<1>1. CASE Blocks(a, b)
  <2>. DEFINE one == add_vertex(ids, a)
              two == add_vertex(one, b)
  <2>1. /\ one \in Seq(Ids) /\ IsInjective(one)
        /\ ToSet(one) = ToSet(ids) \cup {a} /\ Len(ids) <= Len(one)
    BY AddVertex
  <2>. HIDE DEF one
  <2>2. /\ two \in Seq(Ids) /\ IsInjective(two)
        /\ ToSet(two) = ToSet(one) \cup {b} /\ Len(one) <= Len(two)
    BY <2>1, AddVertex
  <2>3. ids' = two /\ start = 0 /\ start' = start
    BY <1>1 DEF Blocks, add_edge, one, search
  <2>. HIDE DEF two
  <2>4. ToSet(ids') = ToSet(ids) \cup {a, b}  BY <2>1, <2>2, <2>3
  <2>5. \/ next' = next
        \/ /\ next' = [next EXCEPT ![a] = Append(@, b)]
           /\ b \notin ToSet(next[a])
    BY <1>1, <2>4 DEF Blocks, add_edge, verify_edge
  <2>6. /\ next' \in [Ids -> Seq(Ids)]
        /\ \A c \in Ids : IsInjective(next'[c])
        /\ \A c \in Ids \ {a} : next'[c] = next[c]
        /\ ToSet(next'[a]) \subseteq ToSet(next[a]) \cup {b}
    <3>1. next[a] \in Seq(Ids)  OBVIOUS
    <3>2. Append(next[a], b) \in Seq(Ids) /\ ToSet(Append(next[a], b)) = ToSet(next[a]) \cup {b}
      BY <3>1, AppendElements
    <3>3. b \notin ToSet(next[a]) => IsInjective(Append(next[a], b))
      BY <3>1, AppendUnique
    <3>. QED  BY <2>5, <3>1, <3>2, <3>3
  <2>7. \A c \in Ids : next'[c] # <<>> => {c} \cup ToSet(next'[c]) \subseteq ToSet(ids')
    <3>1. ASSUME NEW c \in Ids, c # a, next'[c] # <<>>
          PROVE  {c} \cup ToSet(next'[c]) \subseteq ToSet(ids')
      BY <2>4, <2>6, <3>1 DEF TypeOK
    <3>2. {a} \cup ToSet(next'[a]) \subseteq ToSet(ids')
      <4>1. ToSet(next[a]) \subseteq ToSet(ids)
        <5>1. CASE next[a] = <<>>  BY <5>1 DEF ToSet
        <5>2. CASE next[a] # <<>>  BY <5>2 DEF TypeOK
        <5>. QED  BY <5>1, <5>2
      <4>. QED  BY <2>4, <2>6, <4>1
    <3>. QED  BY <3>1, <3>2
  <2>8. waits' \subseteq Ids \X Ids
    BY <1>1 DEF Blocks, add_edge, TypeOK
  <2>9. UNCHANGED search  BY <1>1 DEF Blocks, add_edge
  <2>10. ids' \in Seq(Ids) /\ IsInjective(ids')  BY <2>2, <2>3
  <2>11. TypeOK'
    <3>1. start' \in 0..Len(ids')  BY <2>3, <2>10
    <3>2. IsInjective(ids')  BY <2>10
    <3>3. visited' \subseteq ToSet(ids')  BY <2>4, <2>9 DEF search, TypeOK
    <3>. QED
      BY <2>6, <2>7, <2>8, <2>9, <2>10, <3>1, <3>2, <3>3 DEF TypeOK, search
  <2>. QED  BY <2>3, <2>4, <2>6, <2>11
<1>2. CASE Unblocks(a, b)
  <2>1. /\ UNCHANGED <<ids, search>>
        /\ next' = [next EXCEPT ![a] = RemoveFirst(@, b)]
        /\ start = 0
        /\ waits' \subseteq waits
    BY <1>2 DEF Unblocks, remove_edge
  <2>2. /\ RemoveFirst(next[a], b) \in Seq(Ids)
        /\ IsInjective(RemoveFirst(next[a], b))
        /\ ToSet(RemoveFirst(next[a], b)) = ToSet(next[a]) \ {b}
    BY RemoveFirstElements
  <2>3. /\ next' \in [Ids -> Seq(Ids)]
        /\ \A c \in Ids : IsInjective(next'[c])
        /\ \A c \in Ids \ {a} : next'[c] = next[c]
        /\ next'[a] = RemoveFirst(next[a], b)
    BY <2>1, <2>2
  <2>4. next[a] = <<>> => next'[a] = <<>>
    BY <2>3 DEF RemoveFirst
  <2>5. \A c \in Ids : next'[c] # <<>> => {c} \cup ToSet(next'[c]) \subseteq ToSet(ids')
    <3>1. ASSUME NEW c \in Ids, next'[c] # <<>>
          PROVE  {c} \cup ToSet(next'[c]) \subseteq ToSet(ids')
      <4>1. next[c] # <<>>  BY <2>3, <2>4, <3>1
      <4>2. {c} \cup ToSet(next[c]) \subseteq ToSet(ids)  BY <4>1 DEF TypeOK
      <4>3. ToSet(next'[c]) \subseteq ToSet(next[c])  BY <2>2, <2>3
      <4>. QED  BY <2>1, <4>2, <4>3
    <3>. QED  BY <3>1
  <2>6. TypeOK'
    BY <2>1, <2>3, <2>5 DEF TypeOK, search
  <2>. QED  BY <2>1, <2>3, <2>6 DEF search
<1>. QED  BY <1>1, <1>2
-----------------------------------------------------------------------------
(* The active call: what it takes next is one of its neighbours. *)
LEMMA TopFrame ==
    ASSUME IInv, start > 0, Last(todo) # <<>>
    PROVE  /\ Len(todo) \in Nat \ {0}
           /\ Len(path) = Len(todo)
           /\ Last(todo) = todo[Len(todo)]
           /\ Head(Last(todo)) \in Ids
           /\ Head(Last(todo)) \in ToSet(ids)
           /\ path[Len(todo)] \in Ids
           /\ Head(Last(todo)) \in ToSet(next[path[Len(todo)]])
           /\ ToSet(Last(todo)) = {Head(Last(todo))} \cup ToSet(Rest[Len(todo)])
           /\ Rest \in Seq(Seq(Ids))
           /\ Len(Rest) = Len(todo)
           /\ \A i \in 1..(Len(todo) - 1) : Rest[i] = todo[i]
           /\ Rest[Len(todo)] = Tail(Last(todo))
           /\ \A i \in 1..Len(todo) : ToSet(Rest[i]) \subseteq ToSet(todo[i])
<1>. DEFINE n == Len(todo)
<1>1. /\ todo \in Seq(Seq(Ids)) /\ path \in Seq(Ids) /\ n \in Nat \ {0}
      /\ Len(path) = n /\ Last(todo) = todo[n]
      /\ path[n] \in Ids
      /\ todo[n] \in Seq(Ids)
  <2>1. /\ todo \in Seq(Seq(Ids)) /\ path \in Seq(Ids) /\ n \in Nat \ {0} /\ Len(path) = n
    BY DEF IInv, TypeOK, Stack
  <2>. QED  BY <2>1 DEF Last
<1>2. /\ Head(todo[n]) \in Ids
      /\ Tail(todo[n]) \in Seq(Ids)
      /\ ToSet(todo[n]) = {Head(todo[n])} \cup ToSet(Tail(todo[n]))
  BY <1>1, TailElements
<1>3. Rest = [todo EXCEPT ![n] = Tail(todo[n])]
  BY <1>1 DEF Rest, Others
<1>4. /\ Rest \in Seq(Seq(Ids)) /\ Len(Rest) = n
      /\ \A i \in 1..n : Rest[i] = IF i = n THEN Tail(todo[n]) ELSE todo[i]
  BY <1>1, <1>2, <1>3, ExceptSeq
<1>5. /\ ToSet(todo[n]) \subseteq ToSet(next[path[n]])
      /\ path[n] \in ToSet(ids)
  <2>1. n \in 1..Len(path)  BY <1>1
  <2>. QED  BY <2>1 DEF IInv, Stack
<1>6. ToSet(next[path[n]]) \subseteq ToSet(ids)
  <2>1. Head(todo[n]) \in ToSet(next[path[n]])  BY <1>2, <1>5
  <2>2. next[path[n]] # <<>>
    <3>1. ToSet(<<>>) = {}  BY DEF ToSet
    <3>. QED  BY <2>1, <3>1
  <2>. QED  BY <1>1, <2>2 DEF IInv, TypeOK
<1>7. \A i \in 1..n : ToSet(Rest[i]) \subseteq ToSet(todo[i])
  BY <1>1, <1>2, <1>4
<1>8. Head(todo[n]) \in ToSet(ids) /\ Head(todo[n]) \in ToSet(next[path[n]])
  BY <1>2, <1>5, <1>6
<1>9. Rest[n] = Tail(Last(todo)) /\ \A i \in 1..(n - 1) : Rest[i] = todo[i]
  BY <1>1, <1>4
<1>10. ToSet(Last(todo)) = {Head(Last(todo))} \cup ToSet(Rest[n])
  BY <1>1, <1>2, <1>9
<1>11. /\ Head(Last(todo)) \in Ids /\ Head(Last(todo)) \in ToSet(ids)
       /\ Head(Last(todo)) \in ToSet(next[path[n]])
  BY <1>1, <1>2, <1>8
<1>. QED  BY <1>1, <1>4, <1>7, <1>9, <1>10, <1>11

(* What a call of DFS does to the stack: it pushes a neighbour, or reports *)
(* one that has been seen.                                                 *)
LEMMA SearchKeepsInv ==
    ASSUME IInv, check_dead_lock \/ Search
    PROVE  IInv'
<1>. TypeOK  BY DEF IInv
<1>. UNCHANGED graph
  BY DEF check_dead_lock, Search, DFS, Return, SearchEnds
<1>. /\ ids \in Seq(Ids) /\ Len(ids) \in Nat /\ next \in [Ids -> Seq(Ids)]
     /\ ids' = ids /\ next' = next /\ waits' = waits
  BY DEF TypeOK, graph
<1>0. ASSUME NEW i \in 1..Len(ids), Begin(i) PROVE
      /\ start' = i /\ path' \in Seq(Ids) /\ todo' \in Seq(Seq(Ids))
      /\ visited' \subseteq ToSet(ids) /\ Stack'
  <2>1. ids[i] \in ToSet(ids) /\ ids[i] \in Ids /\ next[ids[i]] \in Seq(Ids)
    BY DEF ToSet
  <2>2. /\ start' = i /\ path' = <<ids[i]>> /\ todo' = <<next[ids[i]]>>
        /\ visited' = visited \cup {ids[i]}
    BY <1>0 DEF Begin
  <2>3. /\ Len(path') = 1 /\ Len(todo') = 1 /\ path'[1] = ids[i]
        /\ todo'[1] = next[ids[i]]
    BY <2>2
  <2>4. Stack'
    BY <2>1, <2>2, <2>3 DEF Stack
  <2>. QED  BY <2>1, <2>2, <2>4 DEF TypeOK
<1>1. CASE check_dead_lock
  <2>1. Len(ids) > 0  BY <1>1 DEF check_dead_lock
  <2>2. Begin(1) /\ deadlock' = FALSE /\ report' = <<>>
    BY <1>1 DEF check_dead_lock
  <2>3. 1 \in 1..Len(ids)  BY <2>1
  <2>4. /\ start' = 1 /\ path' \in Seq(Ids) /\ todo' \in Seq(Seq(Ids))
        /\ visited' \subseteq ToSet(ids) /\ Stack'
    BY <1>0, <2>2, <2>3
  <2>5. report' \in Seq(Ids) /\ deadlock' \in BOOLEAN /\ start' \in 0..Len(ids')
    <3>1. report' = <<>> /\ deadlock' = FALSE  BY <2>2
    <3>2. report' \in Seq(Ids)  BY <3>1
    <3>3. start' \in 0..Len(ids')  BY <2>3, <2>4
    <3>. QED  BY <3>1, <3>2, <3>3
  <2>6. TypeOK'
    BY <2>4, <2>5 DEF TypeOK
  <2>. QED  BY <2>4, <2>6 DEF IInv
<1>2. CASE DFS
  <2>. DEFINE a == Head(Last(todo))
              n == Len(todo)
  <2>. start > 0 /\ Last(todo) # <<>> /\ start' = start
    BY <1>2 DEF DFS
  <2>1. /\ n \in Nat \ {0} /\ Len(path) = n /\ a \in Ids /\ a \in ToSet(ids)
        /\ path[n] \in Ids /\ a \in ToSet(next[path[n]])
        /\ Rest \in Seq(Seq(Ids)) /\ Len(Rest) = n
        /\ \A i \in 1..n : ToSet(Rest[i]) \subseteq ToSet(todo[i])
    BY TopFrame
  <2>2. path \in Seq(Ids) /\ todo \in Seq(Seq(Ids)) /\ report \in Seq(Ids) /\ visited \subseteq ToSet(ids)
        /\ start \in 1..Len(ids)
    BY DEF TypeOK
  <2>3. /\ path[1] = ids[start]
        /\ \A i \in 1..n : path[i] \in ToSet(ids) /\ ToSet(todo[i]) \subseteq ToSet(next[path[i]])
        /\ \A i \in 1..(n - 1) : path[i + 1] \in ToSet(next[path[i]])
    BY <2>1 DEF IInv, Stack
  <2>4. Seen \subseteq ToSet(ids)  BY <2>2 DEF Seen, ToSet
  <2>5. Append(path, a) \in Seq(Ids) /\ Len(Append(path, a)) = n + 1
        /\ \A i \in 1..n : Append(path, a)[i] = path[i]
        /\ Append(path, a)[n + 1] = a
    <3>. DEFINE s == path
    <3>1. s \in Seq(Ids) /\ Len(s) = n /\ a \in Ids  BY <2>1, <2>2
    <3>. HIDE DEF s, a, n
    <3>2. /\ Append(s, a) \in Seq(Ids) /\ Len(Append(s, a)) = Len(s) + 1
          /\ \A i \in 1..Len(s) : Append(s, a)[i] = s[i]
          /\ Append(s, a)[Len(s) + 1] = a
      BY <3>1, AppendElements
    <3>. QED  BY <3>1, <3>2 DEF s
  <2>6. CASE a \in Seen
    <3>1. /\ report' = Append(path, a) /\ deadlock' = TRUE /\ todo' = Rest
          /\ visited' = Seen /\ path' = path
      BY <1>2, <2>6 DEF DFS
    <3>. HIDE DEF a, n
    <3>2. \A i \in 1..n : ToSet(todo'[i]) \subseteq ToSet(next[path[i]])
      <4>1. ASSUME NEW i \in 1..n PROVE ToSet(Rest[i]) \subseteq ToSet(next[path[i]])
        BY <2>1, <2>3
      <4>. QED  BY <3>1, <4>1
    <3>5. Stack'
      <4>1. Len(todo') > 0 /\ Len(path') = Len(todo') /\ Len(path') = n  BY <2>1, <3>1
      <4>. QED  BY <2>3, <3>1, <3>2, <4>1 DEF Stack
    <3>. QED  BY <2>1, <2>2, <2>4, <2>5, <3>1, <3>5 DEF IInv, TypeOK
  <2>7. CASE a \notin Seen
    <3>1. /\ path' = Append(path, a) /\ visited' = Seen \cup {a}
          /\ todo' = Append(Rest, next[a]) /\ report' = report /\ deadlock' = deadlock
      BY <1>2, <2>7 DEF DFS, Marked
    <3>. HIDE DEF a, n
    <3>2. /\ todo' \in Seq(Seq(Ids)) /\ Len(todo') = n + 1
          /\ \A i \in 1..n : todo'[i] = Rest[i]
          /\ todo'[n + 1] = next[a]
      BY <2>1, <3>1, AppendElements
    <3>3. \A i \in 1..(n + 1) :
             path'[i] \in ToSet(ids) /\ ToSet(todo'[i]) \subseteq ToSet(next[path'[i]])
      <4>1. ASSUME NEW i \in 1..n
            PROVE path'[i] \in ToSet(ids) /\ ToSet(todo'[i]) \subseteq ToSet(next[path'[i]])
        BY <2>1, <2>3, <2>5, <3>1, <3>2
      <4>2. path'[n + 1] = a /\ todo'[n + 1] = next[a]  BY <2>5, <3>1, <3>2
      <4>3. path'[n + 1] \in ToSet(ids) /\ ToSet(todo'[n + 1]) \subseteq ToSet(next[path'[n + 1]])
        BY <2>1, <4>2
      <4>4. \A i \in 1..(n + 1) : i \in 1..n \/ i = n + 1  BY <2>1
      <4>. QED  BY <4>1, <4>3, <4>4
    <3>4. \A i \in 1..n : path'[i + 1] \in ToSet(next[path'[i]])
      <4>1. ASSUME NEW i \in 1..(n - 1) PROVE path'[i + 1] \in ToSet(next[path'[i]])
        <5>1. path'[i] = path[i] /\ path'[i + 1] = path[i + 1]  BY <2>1, <2>5, <3>1
        <5>. QED  BY <2>3, <5>1
      <4>2. path'[n + 1] = a /\ path'[n] = path[n]  BY <2>1, <2>5, <3>1
      <4>. QED  BY <2>1, <4>1, <4>2
    <3>5. Stack'
      <4>1. Len(path') = n + 1 /\ path'[1] = ids[start]  BY <2>1, <2>3, <2>5, <3>1
      <4>. QED  BY <2>1, <3>2, <3>3, <3>4, <4>1 DEF Stack
    <3>. QED  BY <2>1, <2>2, <2>4, <2>5, <3>1, <3>2, <3>5 DEF IInv, TypeOK
  <2>. QED  BY <2>6, <2>7
<1>3. CASE Return
  <2>1. /\ start > 0 /\ Len(todo) > 1 /\ todo' = Front(todo) /\ path' = Front(path)
        /\ UNCHANGED <<start, visited, deadlock, report>>
    BY <1>3 DEF Return, Shortened
  <2>2. path \in Seq(Ids) /\ todo \in Seq(Seq(Ids)) /\ Len(path) = Len(todo) /\ Len(todo) \in Nat
    BY <2>1 DEF IInv, TypeOK, Stack
  <2>3. /\ todo' \in Seq(Seq(Ids)) /\ Len(todo') = Len(todo) - 1
        /\ \A i \in 1..(Len(todo) - 1) : todo'[i] = todo[i]
    <3>1. todo \in Seq(Seq(Ids)) /\ Len(todo) > 0  BY <2>1, <2>2
    <3>2. /\ Front(todo) \in Seq(Seq(Ids))
          /\ Len(Front(todo)) = Len(todo) - 1
          /\ \A i \in 1..(Len(todo) - 1) : Front(todo)[i] = todo[i]
      BY <3>1, FrontElements, Zenon
    <3>. QED  BY <2>1, <3>2
  <2>4. /\ path' \in Seq(Ids) /\ Len(path') = Len(todo) - 1
        /\ \A i \in 1..(Len(todo) - 1) : path'[i] = path[i]
    BY <2>1, <2>2, FrontElements
  <2>5. Stack'
    <3>. DEFINE m == Len(todo) - 1
    <3>0. m \in Nat \ {0} /\ Len(path) = m + 1
      <4>1. Len(todo) > 1  BY <2>1
      <4>2. Len(todo) \in Nat /\ Len(path) = Len(todo)  BY <2>2
      <4>. QED  BY <4>1, <4>2
    <3>1. /\ m \in Nat \ {0} /\ 1 \in 1..m
          /\ \A i \in 1..m : i \in 1..Len(path)
          /\ \A i \in 1..(m - 1) : i \in 1..(Len(path) - 1) /\ i \in 1..m /\ i + 1 \in 1..m
      <4>. HIDE DEF m
      <4>. QED  BY <3>0
    <3>2. Len(todo') = m /\ Len(path') = m /\ \A i \in 1..m : todo'[i] = todo[i] /\ path'[i] = path[i]
      BY <2>3, <2>4
    <3>. HIDE DEF m
    <3>3. path'[1] = ids[start]  BY <2>1, <3>1, <3>2 DEF IInv, Stack
    <3>4. \A i \in 1..m : path'[i] \in ToSet(ids) /\ ToSet(todo'[i]) \subseteq ToSet(next[path'[i]])
      BY <2>1, <3>1, <3>2 DEF IInv, Stack
    <3>5. \A i \in 1..(m - 1) : path'[i + 1] \in ToSet(next[path'[i]])
      BY <2>1, <3>1, <3>2 DEF IInv, Stack
    <3>. QED  BY <3>1, <3>2, <3>3, <3>4, <3>5, <2>1 DEF Stack
  <2>. QED  BY <2>1, <2>3, <2>4, <2>5 DEF IInv, TypeOK
<1>4. CASE SearchEnds
  <2>1. start > 0 /\ start \in 1..Len(ids) /\ UNCHANGED <<deadlock, report>>
    BY <1>4 DEF SearchEnds, TypeOK
  <2>2. CASE deadlock \/ start = Len(ids)
    <3>1. start' = 0 /\ UNCHANGED <<path, todo, visited>>
      BY <1>4, <2>2 DEF SearchEnds
    <3>2. TypeOK'  BY <2>1, <3>1 DEF IInv, TypeOK
    <3>. QED  BY <3>1, <3>2 DEF IInv, Stack
  <2>3. CASE ~(deadlock \/ start = Len(ids))
    <3>1. Begin(start + 1)  BY <1>4, <2>3 DEF SearchEnds, NextOne
    <3>2. start + 1 \in 1..Len(ids)  BY <2>1, <2>3
    <3>3. /\ start' = start + 1 /\ path' \in Seq(Ids) /\ todo' \in Seq(Seq(Ids))
          /\ visited' \subseteq ToSet(ids) /\ Stack'
      BY <1>0, <3>1, <3>2
    <3>4. TypeOK'
      <4>1. start' \in 0..Len(ids)  BY <3>2, <3>3
      <4>. QED  BY <2>1, <3>3, <4>1 DEF IInv, TypeOK
    <3>. QED  BY <3>3, <3>4 DEF IInv
  <2>. QED  BY <2>2, <2>3
<1>. QED  BY <1>1, <1>2, <1>3, <1>4 DEF Search

(* No neighbour is twice in a list, for verify_edge is asked before. *)
NoRepeats == \A a \in Ids : IsInjective(next[a])

Base == IInv /\ NoRepeats /\ EdgesAreWaits

LEMMA InitBase == ASSUME Init PROVE Base
<1>1. TypeOK
  <2>1. ToSet(<<>>) = {}  BY DEF ToSet
  <2>2. ids = <<>> /\ path = <<>> /\ todo = <<>> /\ report = <<>>  BY DEF Init
  <2>3. /\ ids \in Seq(Ids) /\ path \in Seq(Ids) /\ todo \in Seq(Seq(Ids)) /\ report \in Seq(Ids)
        /\ Len(ids) = 0
    BY <2>2
  <2>4. IsInjective(ids)  BY <2>2 DEF IsInjective
  <2>5. /\ next \in [Ids -> Seq(Ids)] /\ \A a \in Ids : next[a] = <<>>
        /\ waits = {} /\ start = 0 /\ visited = {}
    BY DEF Init
  <2>6. /\ start \in 0..Len(ids) /\ visited \subseteq ToSet(ids) /\ waits \subseteq Ids \X Ids
    BY <2>3, <2>5
  <2>9. deadlock \in BOOLEAN  BY DEF Init
  <2>7. \A a \in Ids : next[a] # <<>> => {a} \cup ToSet(next[a]) \subseteq ToSet(ids)
    BY <2>5
  <2>8. next \in [Ids -> Seq(Ids)]  BY <2>5
  <2>. QED  BY <2>3, <2>4, <2>6, <2>7, <2>8, <2>9 DEF TypeOK
<1>2. Stack  BY DEF Init, Stack
<1>3. NoRepeats  BY DEF Init, NoRepeats, IsInjective
<1>4. EdgesAreWaits
  <2>1. ToSet(<<>>) = {}  BY DEF ToSet
  <2>. QED  BY <2>1 DEF Init, EdgesAreWaits, Edges
<1>. QED  BY <1>1, <1>2, <1>3, <1>4 DEF Base, IInv

(* The edges, one by one. *)
EdgeOfWait == \A a, b \in Ids : b \in ToSet(next[a]) <=> <<a, b>> \in waits /\ a # b

LEMMA EdgesPointwise ==
    ASSUME TypeOK
    PROVE  EdgesAreWaits <=> EdgeOfWait
<1>1. ASSUME EdgesAreWaits PROVE EdgeOfWait
  <2>1. ASSUME NEW a \in Ids, NEW b \in Ids
        PROVE b \in ToSet(next[a]) <=> <<a, b>> \in waits /\ a # b
    <3>1. b \in ToSet(next[a]) <=> <<a, b>> \in Edges  BY DEF Edges
    <3>2. <<a, b>> \in Edges <=> <<a, b>> \in waits /\ a # b
      BY <1>1 DEF EdgesAreWaits
    <3>. QED  BY <3>1, <3>2
  <2>. QED  BY <2>1 DEF EdgeOfWait
<1>2. ASSUME EdgeOfWait PROVE EdgesAreWaits
  <2>1. ASSUME NEW w \in Ids \X Ids PROVE w \in Edges <=> w \in waits /\ w[1] # w[2]
    BY <1>2, <2>1 DEF EdgeOfWait, Edges
  <2>2. waits \subseteq Ids \X Ids /\ Edges \subseteq Ids \X Ids  BY DEF TypeOK, Edges
  <2>. QED  BY <2>1, <2>2 DEF EdgesAreWaits
<1>. QED  BY <1>1, <1>2

LEMMA HooksKeepEdges ==
    ASSUME Base, NEW a \in Ids, NEW b \in Ids, Blocks(a, b) \/ Unblocks(a, b)
    PROVE  EdgesAreWaits'
<1>0. TypeOK /\ EdgeOfWait /\ next \in [Ids -> Seq(Ids)] /\ ids \in Seq(Ids) /\ IsInjective(ids)
  BY EdgesPointwise, IdsAreIds DEF Base, IInv, TypeOK
<1>1. TypeOK'  BY HooksKeepType DEF Base, IInv, NoRepeats
<1>2. CASE Blocks(a, b)
  <2>1. /\ waits' = waits \cup {<<a, b>>}
        /\ ids' = add_vertex(add_vertex(ids, a), b)
        /\ next' = IF verify_edge(ids', next, a, b) THEN next
                   ELSE [next EXCEPT ![a] = Append(@, b)]
    BY <1>2 DEF Blocks, add_edge
  <2>2. a \in ToSet(ids')
    <3>. DEFINE one == add_vertex(ids, a)
    <3>1. one \in Seq(Ids) /\ IsInjective(one) /\ a \in ToSet(one)  BY <1>0, AddVertex
    <3>. HIDE DEF one
    <3>2. a \in ToSet(add_vertex(one, b))  BY <3>1, AddVertex
    <3>. QED  BY <2>1, <3>2 DEF one
  <2>3. CASE b \in {a} \cup ToSet(next[a])
    <3>1. next' = next  BY <2>1, <2>2, <2>3 DEF verify_edge
    <3>2. EdgeOfWait'
      BY <1>0, <2>1, <2>3, <3>1 DEF EdgeOfWait
    <3>. QED  BY <1>1, <3>2, EdgesPointwise, PTL
  <2>4. CASE b \notin {a} \cup ToSet(next[a])
    <3>1. next' = [next EXCEPT ![a] = Append(@, b)]  BY <2>1, <2>4 DEF verify_edge
    <3>2. ToSet(Append(next[a], b)) = ToSet(next[a]) \cup {b}
      <4>. DEFINE s == next[a]
      <4>1. s \in Seq(Ids) /\ b \in Ids  BY <1>0
      <4>. HIDE DEF s
      <4>2. ToSet(Append(s, b)) = ToSet(s) \cup {b}  BY <4>1, AppendElements
      <4>. QED  BY <4>2 DEF s
    <3>3. EdgeOfWait'
      <4>. SUFFICES ASSUME NEW x \in Ids, NEW y \in Ids
                    PROVE  y \in ToSet(next'[x]) <=> <<x, y>> \in waits' /\ x # y
        BY DEF EdgeOfWait
      <4>1. y \in ToSet(next[x]) <=> <<x, y>> \in waits /\ x # y
        BY <1>0 DEF EdgeOfWait
      <4>2. <<x, y>> \in waits' <=> <<x, y>> \in waits \/ (x = a /\ y = b)
        BY <2>1
      <4>3. CASE x = a
        <5>1. next'[x] = Append(next[a], b)  BY <1>0, <3>1, <4>3
        <5>2. y \in ToSet(next'[x]) <=> y \in ToSet(next[x]) \/ y = b
          BY <3>2, <4>3, <5>1
        <5>. QED  BY <2>4, <4>1, <4>2, <4>3, <5>2
      <4>4. CASE x # a
        <5>1. next'[x] = next[x]  BY <1>0, <3>1, <4>4
        <5>. QED  BY <4>1, <4>2, <4>4, <5>1
      <4>. QED  BY <4>3, <4>4
    <3>. QED  BY <1>1, <3>3, EdgesPointwise, PTL
  <2>. QED  BY <2>3, <2>4
<1>3. CASE Unblocks(a, b)
  <2>1. waits' = waits \ {<<a, b>>} /\ next' = [next EXCEPT ![a] = RemoveFirst(@, b)]
    BY <1>3 DEF Unblocks, remove_edge
  <2>2. ToSet(RemoveFirst(next[a], b)) = ToSet(next[a]) \ {b}
    BY <1>0, RemoveFirstElements DEF Base, NoRepeats
  <2>3. EdgeOfWait'
    BY <1>0, <2>1, <2>2 DEF EdgeOfWait
  <2>. QED  BY <1>1, <2>3, EdgesPointwise, PTL
<1>. QED  BY <1>2, <1>3

LEMMA NextKeepsBase == ASSUME Base, [Next]_vars PROVE Base'
<1>1. ASSUME NEW a \in Ids, NEW b \in Ids, Blocks(a, b) \/ Unblocks(a, b)
      PROVE  Base'
  <2>1. TypeOK' /\ NoRepeats' /\ start' = 0
    BY <1>1, HooksKeepType DEF Base, IInv, NoRepeats
  <2>2. EdgesAreWaits'  BY <1>1, HooksKeepEdges
  <2>3. Stack'  BY <2>1 DEF Stack
  <2>. QED  BY <2>1, <2>2, <2>3 DEF Base, IInv
<1>2. CASE check_dead_lock \/ Search
  <2>1. UNCHANGED graph
    BY <1>2 DEF check_dead_lock, Search, DFS, Return, SearchEnds
  <2>2. NoRepeats' /\ EdgesAreWaits'
    BY <2>1 DEF Base, NoRepeats, EdgesAreWaits, Edges, graph
  <2>. QED  BY <1>2, <2>2, SearchKeepsInv DEF Base
<1>3. CASE UNCHANGED vars
  BY <1>3 DEF vars, graph, search, Base, IInv, TypeOK, Stack, NoRepeats, EdgesAreWaits, Edges
<1>. QED  BY <1>1, <1>2, <1>3 DEF Next

LEMMA BaseHolds == Spec => []Base
<1>1. Init => Base  BY InitBase
<1>2. Base /\ [Next]_vars => Base'  BY NextKeepsBase
<1>. QED  BY <1>1, <1>2, PTL DEF Spec

(* The vertices of the list are distinct, every neighbour is in the list,  *)
(* and the search never looks for a vertex that is not.                    *)
THEOREM TypeCorrect == Spec => []TypeOK
<1>1. Base => TypeOK  BY DEF Base, IInv
<1>. QED  BY <1>1, BaseHolds, PTL

(* Blocks and Unblocks keep the graph equal to the waits, whatever  *)
(* the threads and the order of their calls.                               *)
THEOREM EdgesMatchWaits == Spec => []EdgesAreWaits
<1>1. Base => EdgesAreWaits  BY DEF Base
<1>. QED  BY <1>1, BaseHolds, PTL
-----------------------------------------------------------------------------
(* What a step of DFS, Return and SearchEnds changes, with the facts about *)
(* the active call that the theorems below use.                            *)
LEMMA PushOrReport ==
    ASSUME Base, DFS, NEW a, NEW n, a = Head(Last(todo)), n = Len(todo)
    PROVE  /\ n \in Nat \ {0} /\ Len(path) = n /\ a \in Ids /\ a \in ToSet(ids)
           /\ start > 0 /\ start' = start /\ UNCHANGED graph
           /\ a \in ToSet(next[path[n]])
           /\ ToSet(todo[n]) = {a} \cup ToSet(Rest[n])
           /\ Len(Rest) = n /\ Rest[n] = Tail(todo[n])
           /\ Rest \in Seq(Seq(Ids))
           /\ \A i \in 1..(n - 1) : Rest[i] = todo[i]
           /\ Append(path, a) \in Seq(Ids) /\ Len(Append(path, a)) = n + 1
           /\ \A i \in 1..n : Append(path, a)[i] = path[i]
           /\ Append(path, a)[n + 1] = a
           /\ \/ /\ a \in Seen
                 /\ report' = Append(path, a) /\ deadlock' = TRUE
                 /\ todo' = Rest /\ visited' = Seen /\ path' = path
              \/ /\ a \notin Seen
                 /\ path' = Append(path, a) /\ visited' = Seen \cup {a}
                 /\ report' = report /\ deadlock' = deadlock
                 /\ todo' \in Seq(Seq(Ids)) /\ Len(todo') = n + 1
                 /\ \A i \in 1..n : todo'[i] = Rest[i]
                 /\ todo'[n + 1] = next[a]
<1>1. IInv /\ start > 0 /\ Last(todo) # <<>> /\ start' = start /\ UNCHANGED graph
  BY DEF DFS, Base
<1>2. path \in Seq(Ids) /\ next \in [Ids -> Seq(Ids)]  BY <1>1 DEF IInv, TypeOK
<1>3. /\ n \in Nat \ {0} /\ Len(path) = n /\ a \in Ids /\ a \in ToSet(ids)
      /\ Last(todo) = todo[n]
      /\ a \in ToSet(next[path[n]])
      /\ ToSet(todo[n]) = {a} \cup ToSet(Rest[n])
      /\ Len(Rest) = n /\ Rest[n] = Tail(todo[n]) /\ Rest \in Seq(Seq(Ids))
      /\ \A i \in 1..(n - 1) : Rest[i] = todo[i]
  BY <1>1, TopFrame
<1>4. /\ Append(path, a) \in Seq(Ids) /\ Len(Append(path, a)) = n + 1
      /\ \A i \in 1..n : Append(path, a)[i] = path[i]
      /\ Append(path, a)[n + 1] = a
  BY <1>2, <1>3, AppendElements
<1>5. /\ Append(Rest, next[a]) \in Seq(Seq(Ids)) /\ Len(Append(Rest, next[a])) = n + 1
      /\ \A i \in 1..n : Append(Rest, next[a])[i] = Rest[i]
      /\ Append(Rest, next[a])[n + 1] = next[a]
  BY <1>2, <1>3, AppendElements
<1>6. CASE a \in Seen
  <2>1. /\ report' = Append(path, a) /\ deadlock' = TRUE
        /\ todo' = Rest /\ visited' = Seen /\ path' = path
    BY <1>6 DEF DFS
  <2>. QED  BY <1>1, <1>3, <1>4, <1>6, <2>1
<1>7. CASE a \notin Seen
  <2>1. /\ path' = Append(path, a) /\ visited' = Seen \cup {a}
        /\ report' = report /\ deadlock' = deadlock
        /\ todo' = Append(Rest, next[a])
    BY <1>7 DEF DFS, Marked
  <2>. QED  BY <1>1, <1>3, <1>4, <1>5, <1>7, <2>1
<1>. QED  BY <1>6, <1>7

LEMMA Popped ==
    ASSUME Base, Return, NEW n, n = Len(todo)
    PROVE  /\ n \in Nat /\ n > 1 /\ Len(path) = n /\ start > 0
           /\ todo[n] = <<>>
           /\ path \in Seq(Ids)
           /\ Len(todo') = n - 1 /\ Len(path') = n - 1
           /\ \A i \in 1..(n - 1) : todo'[i] = todo[i] /\ path'[i] = path[i]
           /\ UNCHANGED <<graph, start, visited, deadlock, report>>
<1>1. /\ start > 0 /\ Last(todo) = <<>> /\ n > 1 /\ todo' = Front(todo) /\ path' = Front(path)
      /\ UNCHANGED <<graph, start, visited, deadlock, report>>
  BY DEF Return, Shortened
<1>2. path \in Seq(Ids) /\ todo \in Seq(Seq(Ids)) /\ Len(path) = n /\ n \in Nat
  BY <1>1 DEF Base, IInv, TypeOK, Stack
<1>3. todo[n] = <<>>  BY <1>1 DEF Last
<1>4. Len(todo') = n - 1 /\ \A i \in 1..(n - 1) : todo'[i] = todo[i]
  <2>1. Len(todo) = n /\ Len(todo) > 0  BY <1>1, <1>2
  <2>2. /\ Len(Front(todo)) = Len(todo) - 1
        /\ \A i \in 1..(Len(todo) - 1) : Front(todo)[i] = todo[i]
    BY <1>2, <2>1, FrontElements
  <2>. QED  BY <1>1, <2>1, <2>2
<1>5. Len(path') = n - 1 /\ \A i \in 1..(n - 1) : path'[i] = path[i]
  <2>1. Len(path) = n /\ Len(path) > 0  BY <1>1, <1>2
  <2>2. /\ Len(Front(path)) = Len(path) - 1
        /\ \A i \in 1..(Len(path) - 1) : Front(path)[i] = path[i]
    BY <1>2, <2>1, FrontElements
  <2>. QED  BY <1>1, <2>1, <2>2
<1>. QED  BY <1>1, <1>2, <1>3, <1>4, <1>5

LEMMA Begun ==
    ASSUME Base, NEW i \in 1..Len(ids), Begin(i)
    PROVE  /\ start' = i /\ Len(path') = 1 /\ Len(todo') = 1
           /\ path'[1] = ids[i] /\ todo'[1] = next[ids[i]]
           /\ ids[i] \in Ids
           /\ path' \in Seq(Ids)
BY DEF Begin, Base, IInv, TypeOK
-----------------------------------------------------------------------------
(* The path that is printed consists of edges, for any graph, although k   *)
(* and path are shared by all calls of DFS.                                *)
THEOREM ReportsAreWalks == Spec => []ReportIsWalk
<1>1. Init => ReportIsWalk  BY DEF Init, ReportIsWalk
<1>2. ASSUME ReportIsWalk, Base, Base', [Next]_vars PROVE ReportIsWalk'
  <2>1. ASSUME NEW a \in Ids, NEW b \in Ids, Blocks(a, b) \/ Unblocks(a, b)
        PROVE  ReportIsWalk'
    <3>1. start' = 0
      BY <2>1 DEF Blocks, Unblocks, search
    <3>. QED  BY <3>1 DEF ReportIsWalk
  <2>2. CASE check_dead_lock
    <3>1. report' = <<>>  BY <2>2 DEF check_dead_lock
    <3>. QED  BY <3>1 DEF ReportIsWalk
  <2>3. CASE DFS
    <3>. DEFINE a == Head(Last(todo))
                n == Len(todo)
    <3>1. /\ n \in Nat \ {0} /\ Len(path) = n /\ a \in Ids
          /\ start > 0 /\ UNCHANGED graph
          /\ a \in ToSet(next[path[n]])
          /\ Append(path, a) \in Seq(Ids) /\ Len(Append(path, a)) = n + 1
          /\ \A i \in 1..n : Append(path, a)[i] = path[i]
          /\ Append(path, a)[n + 1] = a
          /\ report' = Append(path, a) \/ report' = report
      BY <1>2, <2>3, PushOrReport
    <3>. HIDE DEF a, n
    <3>2. Edges' = Edges  BY <3>1 DEF Edges, graph
    <3>3. CASE report' = report
      BY <1>2, <3>1, <3>2, <3>3 DEF ReportIsWalk
    <3>4. CASE report' = Append(path, a)
      <4>1. ASSUME NEW i \in 1..n
            PROVE  <<report'[i], report'[i + 1]>> \in Edges
        <5>1. /\ path \in Seq(Ids) /\ path[i] \in Ids
          BY <1>2, <3>1 DEF Base, IInv, TypeOK
        <5>2. CASE i = n
          BY <3>1, <3>4, <5>1, <5>2 DEF Edges
        <5>3. CASE i < n
          <6>1. i \in 1..(n - 1) /\ i + 1 \in 1..n  BY <3>1, <5>3
          <6>2. path[i + 1] \in ToSet(next[path[i]]) /\ path[i + 1] \in Ids
            BY <1>2, <3>1, <5>1, <6>1 DEF Base, IInv, Stack
          <6>3. report'[i] = path[i] /\ report'[i + 1] = path[i + 1]
            BY <3>1, <3>4, <6>1
          <6>. QED  BY <5>1, <6>2, <6>3 DEF Edges
        <5>. QED  BY <3>1, <5>2, <5>3
      <4>2. Len(report') - 1 = n  BY <3>1, <3>4
      <4>. QED  BY <3>2, <4>1, <4>2 DEF ReportIsWalk
    <3>. QED  BY <3>1, <3>3, <3>4
  <2>4. CASE Return \/ SearchEnds \/ UNCHANGED vars
    <3>1. UNCHANGED <<graph, report>> /\ (start' > 0 => start > 0)
      BY <2>4 DEF Return, SearchEnds, vars, search
    <3>. QED  BY <1>2, <3>1 DEF ReportIsWalk, Edges, graph
  <2>. QED  BY <1>2, <2>1, <2>2, <2>3, <2>4 DEF Next, Search
<1>. QED  BY <1>1, <1>2, BaseHolds, PTL DEF Spec
-----------------------------------------------------------------------------
(* Safe(nx, v): with the lists nx, no cycle can be reached from v. *)
Safe(nx, v) ==
    \A S \in SUBSET Ids :
        (\A a \in S : \E b \in S : b \in ToSet(nx[a])) => v \notin S

LEMMA AllNeighboursSafe ==
    ASSUME NEW nx, NEW v, \A b \in ToSet(nx[v]) : Safe(nx, b)
    PROVE  Safe(nx, v)
BY DEF Safe

(* As long as nothing has been reported, the vertices before start are     *)
(* safe, and of each active call every neighbour is still to come, or the  *)
(* call that is active now, or safe.                                       *)
Explored ==
    start > 0 /\ ~deadlock =>
      /\ \A j \in 1..(start - 1) : Safe(next, ids[j])
      /\ \A i \in 1..Len(path) : \A b \in ToSet(next[path[i]]) :
            \/ b \in ToSet(todo[i])
            \/ i < Len(path) /\ b = path[i + 1]
            \/ Safe(next, b)

LEMMA NextKeepsExplored ==
    ASSUME Explored, Base, Base', [Next]_vars
    PROVE  Explored'
<1>1. ASSUME NEW a \in Ids, NEW b \in Ids, Blocks(a, b) \/ Unblocks(a, b)
      PROVE  Explored'
  <2>1. start' = 0
    BY <1>1 DEF Blocks, Unblocks, search
  <2>. QED  BY <2>1 DEF Explored
<1>0. ASSUME NEW i \in 1..Len(ids), Begin(i), UNCHANGED graph,
             \A j \in 1..(i - 1) : Safe(next, ids[j])
      PROVE  Explored'
  <2>1. /\ start' = i /\ Len(path') = 1 /\ path'[1] = ids[i] /\ todo'[1] = next[ids[i]]
    BY <1>0, Begun
  <2>2. next' = next /\ ids' = ids  BY <1>0 DEF graph
  <2>3. \A k \in 1..Len(path') : ToSet(next'[path'[k]]) = ToSet(todo'[k])
    BY <2>1, <2>2
  <2>. QED  BY <1>0, <2>1, <2>2, <2>3 DEF Explored
<1>2. CASE check_dead_lock
  <2>1. Begin(1) /\ UNCHANGED graph /\ Len(ids) > 0 /\ Len(ids) \in Nat
    BY <1>2 DEF check_dead_lock, Base, IInv, TypeOK
  <2>2. 1 \in 1..Len(ids)  BY <2>1
  <2>3. \A j \in 1..(1 - 1) : Safe(next, ids[j])  OBVIOUS
  <2>. QED  BY <1>0, <2>1, <2>2, <2>3
<1>3. CASE DFS
  <2>. DEFINE a == Head(Last(todo))
              n == Len(todo)
  <2>1. /\ n \in Nat \ {0} /\ Len(path) = n
        /\ start > 0 /\ start' = start /\ next' = next /\ ids' = ids
        /\ ToSet(todo[n]) = {a} \cup ToSet(Rest[n])
        /\ \A i \in 1..(n - 1) : Rest[i] = todo[i]
        /\ Len(Append(path, a)) = n + 1
        /\ \A i \in 1..n : Append(path, a)[i] = path[i]
        /\ Append(path, a)[n + 1] = a
    BY <1>3, PushOrReport DEF graph
  <2>2. \/ deadlock' = TRUE
        \/ /\ path' = Append(path, a) /\ deadlock' = deadlock
           /\ \A i \in 1..n : todo'[i] = Rest[i]
           /\ todo'[n + 1] = next[a]
    BY <1>3, PushOrReport
  <2>. HIDE DEF a, n
  <2>3. CASE deadlock' = TRUE
    BY <2>3 DEF Explored
  <2>4. ASSUME path' = Append(path, a), deadlock' = deadlock, ~deadlock,
               \A i \in 1..n : todo'[i] = Rest[i], todo'[n + 1] = next[a]
        PROVE  Explored'
    <3>1. /\ Len(path') = n + 1 /\ path'[n + 1] = a
          /\ \A i \in 1..n : path'[i] = path[i]
      BY <2>1, <2>4
    <3>2. ASSUME NEW i \in 1..(n - 1), NEW b \in ToSet(next[path[i]])
          PROVE  b \in ToSet(todo'[i]) \/ b = path'[i + 1] \/ Safe(next, b)
      <4>1. i \in 1..Len(path) /\ i + 1 \in 1..n /\ i \in 1..n  BY <2>1
      <4>2. b \in ToSet(todo[i]) \/ b = path[i + 1] \/ Safe(next, b)
        BY <2>1, <2>4, <4>1 DEF Explored
      <4>3. todo'[i] = todo[i] /\ path'[i + 1] = path[i + 1]
        BY <2>1, <2>4, <3>1, <4>1
      <4>. QED  BY <4>2, <4>3
    <3>3. ASSUME NEW b \in ToSet(next[path[n]])
          PROVE  b \in ToSet(todo'[n]) \/ b = path'[n + 1] \/ Safe(next, b)
      <4>1. n \in 1..Len(path) /\ ~(n < Len(path)) /\ n \in 1..n  BY <2>1
      <4>2. b \in ToSet(todo[n]) \/ Safe(next, b)
        BY <2>1, <2>4, <4>1 DEF Explored
      <4>3. todo'[n] = Rest[n]  BY <2>4, <4>1
      <4>. QED  BY <2>1, <3>1, <4>2, <4>3
    <3>4. ASSUME NEW i \in 1..Len(path'), NEW b \in ToSet(next'[path'[i]])
          PROVE  \/ b \in ToSet(todo'[i])
                 \/ i < Len(path') /\ b = path'[i + 1]
                 \/ Safe(next', b)
      <4>1. CASE i = n + 1
        BY <2>1, <2>4, <3>1, <3>4, <4>1
      <4>2. CASE i = n
        BY <2>1, <3>1, <3>3, <3>4, <4>2
      <4>3. CASE i \in 1..(n - 1)
        <5>1. path'[i] = path[i] /\ i < Len(path')  BY <2>1, <3>1, <4>3
        <5>. QED  BY <2>1, <3>2, <3>4, <4>3, <5>1
      <4>. QED  BY <2>1, <3>1, <4>1, <4>2, <4>3
    <3>5. \A j \in 1..(start' - 1) : Safe(next', ids'[j])
      BY <2>1, <2>4 DEF Explored
    <3>. QED  BY <3>4, <3>5 DEF Explored
  <2>5. ~deadlock' => Explored'  BY <2>2, <2>4, <2>3
  <2>6. deadlock' => Explored'  BY DEF Explored
  <2>. QED  BY <2>5, <2>6
<1>4. CASE Return
  <2>. DEFINE n == Len(todo)
  <2>1. /\ n \in Nat /\ n > 1 /\ Len(path) = n /\ start > 0
        /\ todo[n] = <<>>
        /\ Len(path') = n - 1
        /\ \A i \in 1..(n - 1) : todo'[i] = todo[i] /\ path'[i] = path[i]
        /\ next' = next /\ ids' = ids /\ start' = start /\ deadlock' = deadlock
    BY <1>4, Popped DEF graph
  <2>. HIDE DEF n
  <2>2. ASSUME ~deadlock PROVE Explored'
    <3>1. Safe(next, path[n])
      <4>1. n \in 1..Len(path) /\ ~(n < Len(path)) /\ ToSet(todo[n]) = {}
        BY <2>1 DEF ToSet
      <4>2. \A b \in ToSet(next[path[n]]) : Safe(next, b)
        BY <2>1, <2>2, <4>1 DEF Explored
      <4>. QED  BY <4>2, AllNeighboursSafe
    <3>2. ASSUME NEW i \in 1..(n - 1), NEW b \in ToSet(next[path[i]])
          PROVE  \/ b \in ToSet(todo[i])
                 \/ i < n - 1 /\ b = path[i + 1]
                 \/ Safe(next, b)
      <4>1. i \in 1..Len(path)  BY <2>1
      <4>2. b \in ToSet(todo[i]) \/ b = path[i + 1] \/ Safe(next, b)
        BY <2>1, <2>2, <4>1 DEF Explored
      <4>3. CASE i = n - 1
        <5>1. i + 1 = n  BY <2>1, <4>3
        <5>. QED  BY <3>1, <4>2, <5>1
      <4>4. CASE i < n - 1
        BY <4>2, <4>4
      <4>. QED  BY <2>1, <4>3, <4>4
    <3>3. ASSUME NEW i \in 1..Len(path'), NEW b \in ToSet(next'[path'[i]])
          PROVE  \/ b \in ToSet(todo'[i])
                 \/ i < Len(path') /\ b = path'[i + 1]
                 \/ Safe(next', b)
      <4>1. i \in 1..(n - 1) /\ path'[i] = path[i] /\ todo'[i] = todo[i]
        BY <2>1
      <4>2. i < n - 1 => i + 1 \in 1..(n - 1) /\ path'[i + 1] = path[i + 1]
        BY <2>1, <4>1
      <4>3. b \in ToSet(next[path[i]])  BY <2>1, <3>3, <4>1
      <4>. QED  BY <2>1, <3>2, <4>1, <4>2, <4>3
    <3>4. \A j \in 1..(start' - 1) : Safe(next', ids'[j])
      BY <2>1, <2>2 DEF Explored
    <3>. QED  BY <3>3, <3>4 DEF Explored
  <2>3. deadlock' => Explored'  BY DEF Explored
  <2>. QED  BY <2>1, <2>2, <2>3
<1>5. CASE SearchEnds
  <2>1. /\ start > 0 /\ todo = <<<<>>>> /\ UNCHANGED graph /\ deadlock' = deadlock
        /\ start \in 1..Len(ids)
    BY <1>5 DEF SearchEnds, Base, IInv, TypeOK
  <2>2. CASE deadlock \/ start = Len(ids)
    <3>1. start' = 0  BY <1>5, <2>2 DEF SearchEnds
    <3>. QED  BY <3>1 DEF Explored
  <2>3. CASE ~(deadlock \/ start = Len(ids))
    <3>1. Begin(start + 1)  BY <1>5, <2>3 DEF SearchEnds, NextOne
    <3>2. start + 1 \in 1..Len(ids)  BY <2>1, <2>3
    <3>3. Safe(next, ids[start])
      <4>1. Len(path) = 1 /\ path[1] = ids[start] /\ todo[1] = <<>>
        BY <2>1 DEF Base, IInv, Stack
      <4>2. 1 \in 1..Len(path) /\ ~(1 < Len(path)) /\ ToSet(todo[1]) = {}
        BY <4>1 DEF ToSet
      <4>3. \A b \in ToSet(next[path[1]]) : Safe(next, b)
        BY <2>1, <2>3, <4>2 DEF Explored
      <4>. QED  BY <4>1, <4>3, AllNeighboursSafe
    <3>4. \A j \in 1..((start + 1) - 1) : Safe(next, ids[j])
      <4>1. \A j \in 1..(start - 1) : Safe(next, ids[j])
        BY <2>1, <2>3 DEF Explored
      <4>2. \A j \in 1..((start + 1) - 1) : j \in 1..(start - 1) \/ j = start
        BY <2>1
      <4>. QED  BY <3>3, <4>1, <4>2
    <3>. QED  BY <1>0, <2>1, <3>1, <3>2, <3>4
  <2>. QED  BY <2>2, <2>3
<1>6. CASE UNCHANGED vars
  BY <1>6 DEF vars, graph, search, Explored
<1>. QED  BY <1>1, <1>2, <1>3, <1>4, <1>5, <1>6 DEF Next, Search

(* A check that reports nothing has met no vertex twice, so it has been    *)
(* everywhere, and there is no cycle: the search is complete for any graph,*)
(* although the marks are not reset between the branches of DFS.           *)
THEOREM EveryCycleIsFound == Spec => []FindsEveryCycle
<1>1. Init => Explored  BY DEF Init, Explored
<1>2. Explored /\ Base /\ Base' /\ [Next]_vars => Explored'
  BY NextKeepsExplored
<1>3. Explored /\ Base => FindsEveryCycle
  <2>. SUFFICES ASSUME Explored, Base, start > 0, todo = <<<<>>>>, start = Len(ids),
                       HasCycle, ~deadlock
                PROVE  FALSE
    BY DEF FindsEveryCycle
  <2>1. /\ Len(path) = 1 /\ path[1] = ids[start] /\ todo[1] = <<>>
        /\ ids \in Seq(Ids) /\ Len(ids) \in Nat
    BY DEF Base, IInv, Stack, TypeOK
  <2>2. Safe(next, ids[start])
    <3>1. 1 \in 1..Len(path) /\ ~(1 < Len(path)) /\ ToSet(todo[1]) = {}
      BY <2>1 DEF ToSet
    <3>2. \A b \in ToSet(next[path[1]]) : Safe(next, b)
      BY <3>1 DEF Explored
    <3>. QED  BY <2>1, <3>2, AllNeighboursSafe
  <2>3. \A v \in ToSet(ids) : Safe(next, v)
    <3>1. ASSUME NEW j \in DOMAIN ids PROVE Safe(next, ids[j])
      <4>1. j \in 1..(start - 1) \/ j = start  BY <2>1
      <4>. QED  BY <2>2, <4>1 DEF Explored
    <3>. QED  BY <3>1 DEF ToSet
  <2>4. PICK S \in SUBSET Ids : S # {} /\ \A a \in S : \E b \in S : b \in ToSet(next[a])
    BY DEF HasCycle, CycleSet
  <2>5. PICK a \in S : TRUE  BY <2>4
  <2>6. a \in ToSet(ids)
    <3>1. ToSet(<<>>) = {}  BY DEF ToSet
    <3>2. next[a] # <<>> /\ a \in Ids  BY <2>4, <2>5, <3>1
    <3>. QED  BY <3>2 DEF Base, IInv, TypeOK
  <2>. QED  BY <2>3, <2>4, <2>5, <2>6 DEF Safe
<1>. QED  BY <1>1, <1>2, <1>3, BaseHolds, PTL DEF Spec
-----------------------------------------------------------------------------
(* The vertices on the path are distinct: they are marked, but for the     *)
(* first, whose mark nothing takes away.                                   *)
Distinct ==
    start > 0 => IsInjective(path) /\ (Len(path) > 1 => ToSet(path) \subseteq visited)

PathInv == Distinct /\ PathFits

(* So many distinct vertices of the list fit into the list. *)
LEMMA NotLonger ==
    ASSUME NEW s \in Seq(Ids), NEW t \in Seq(Ids), IsInjective(s), ToSet(s) \subseteq ToSet(t)
    PROVE  Len(s) <= Len(t)
<1>. DEFINE f == [i \in 1..Len(s) |-> CHOOSE j \in 1..Len(t) : t[j] = s[i]]
<1>1. Len(s) \in Nat /\ Len(t) \in Nat  OBVIOUS
<1>2. ASSUME NEW i \in 1..Len(s) PROVE f[i] \in 1..Len(t) /\ t[f[i]] = s[i]
  <2>1. \E j \in 1..Len(t) : t[j] = s[i]
    <3>1. s[i] \in ToSet(s)  BY DEF ToSet
    <3>2. s[i] \in ToSet(t)  BY <3>1
    <3>3. DOMAIN t = 1..Len(t)  OBVIOUS
    <3>. QED  BY <3>2, <3>3 DEF ToSet
  <2>. QED  BY <2>1
<1>3. f \in [1..Len(s) -> 1..Len(t)]  BY <1>2
<1>4. ASSUME NEW i \in 1..Len(s), NEW j \in 1..Len(s), f[i] = f[j] PROVE i = j
  <2>1. s[i] = s[j]  BY <1>2, <1>4
  <2>. QED  BY <2>1 DEF IsInjective
<1>. HIDE DEF f
<1>. DEFINE m == Len(s)
            n == Len(t)
<1>5. m \in Int /\ n \in Int /\ m \in Nat /\ n \in Nat  BY <1>1
<1>6. f \in [1..m -> 1..n] /\ \A i, j \in 1..m : f[i] = f[j] => i = j  BY <1>3, <1>4
<1>. HIDE DEF m, n
<1>7. /\ IsFiniteSet(1..m) /\ IsFiniteSet(1..n)
      /\ Cardinality(1..m) = m /\ Cardinality(1..n) = n
  <2>1. \A k \in Nat : IsFiniteSet(1..k) /\ Cardinality(1..k) = IF 1 > k THEN 0 ELSE k - 1 + 1
    BY FS_Interval
  <2>. QED  BY <1>5, <2>1
<1>8. f \in Injection(1..m, 1..n)
  BY <1>6 DEF Injection, IsInjective
<1>9. Cardinality(1..m) <= Cardinality(1..n)
  BY <1>7, <1>8, FS_Injection
<1>. QED  BY <1>7, <1>9 DEF m, n

LEMMA NextKeepsPathInv ==
    ASSUME PathInv, Base, Base', [Next]_vars
    PROVE  PathInv'
<1>0. ids \in Seq(Ids) /\ ids' \in Seq(Ids) /\ Len(ids) \in Nat /\ Len(ids') \in Nat
  BY DEF Base, IInv, TypeOK
<1>1. ASSUME NEW a \in Ids, NEW b \in Ids, Blocks(a, b) \/ Unblocks(a, b)
      PROVE  PathInv'
  <2>1. start' = 0 /\ UNCHANGED <<path, report>>
    BY <1>1 DEF Blocks, Unblocks, search
  <2>2. Len(ids) <= Len(ids')
    <3>1. ToSet(ids) \subseteq ToSet(ids')
      BY <1>1, HooksKeepType DEF Base, IInv, NoRepeats
    <3>2. IsInjective(ids)  BY IdsAreIds DEF Base, IInv
    <3>. QED  BY <1>0, <3>1, <3>2, NotLonger
  <2>3. path \in Seq(Ids) /\ report \in Seq(Ids)  BY DEF Base, IInv, TypeOK
  <2>4. PathFits'  BY <1>0, <2>1, <2>2, <2>3 DEF PathInv, PathFits
  <2>. QED  BY <2>1, <2>4 DEF PathInv, Distinct
<1>2. ASSUME NEW i \in 1..Len(ids), Begin(i), UNCHANGED graph,
             report' = report \/ report' = <<>>
      PROVE  PathInv'
  <2>1. Len(path') = 1 /\ path' \in Seq(Ids)  BY <1>2, Begun
  <2>2. IsInjective(path')  BY <2>1 DEF IsInjective
  <2>3. ids' = ids /\ Len(ids) >= 1  BY <1>0, <1>2 DEF graph
  <2>4. Len(report') <= Len(ids) + 1
    <3>1. CASE report' = report  BY <3>1 DEF PathInv, PathFits
    <3>2. CASE report' = <<>>  BY <1>0, <3>2
    <3>. QED  BY <1>2, <3>1, <3>2
  <2>. QED  BY <2>1, <2>2, <2>3, <2>4 DEF PathInv, PathFits, Distinct
<1>3. CASE check_dead_lock
  <2>1. Begin(1) /\ UNCHANGED graph /\ report' = <<>> /\ Len(ids) > 0
    BY <1>3, <1>0 DEF check_dead_lock
  <2>2. 1 \in 1..Len(ids)  BY <1>0, <2>1
  <2>. QED  BY <1>2, <2>1, <2>2
<1>4. CASE DFS
  <2>. DEFINE a == Head(Last(todo))
              n == Len(todo)
  <2>1. /\ n \in Nat \ {0} /\ Len(path) = n /\ a \in Ids /\ a \in ToSet(ids)
        /\ start > 0 /\ start' = start /\ ids' = ids
        /\ Append(path, a) \in Seq(Ids) /\ Len(Append(path, a)) = n + 1
    BY <1>4, PushOrReport DEF graph
  <2>2. \/ /\ a \in Seen /\ report' = Append(path, a) /\ visited' = Seen /\ path' = path
        \/ /\ a \notin Seen /\ path' = Append(path, a) /\ visited' = Seen \cup {a}
           /\ report' = report
    BY <1>4, PushOrReport
  <2>3. Seen = IF n = 1 THEN {ids[start]} ELSE visited  BY DEF Seen
  <2>. HIDE DEF a, n
  <2>4. path \in Seq(Ids) /\ report \in Seq(Ids)  BY DEF Base, IInv, TypeOK
  <2>5. IsInjective(path) /\ Len(path) <= Len(ids) /\ Len(report) <= Len(ids) + 1
    BY <2>1 DEF PathInv, Distinct, PathFits
  <2>6. ToSet(path) \subseteq Seen
    <3>1. CASE n = 1
      <4>1. path[1] = ids[start]  BY <2>1 DEF Base, IInv, Stack
      <4>2. \A i \in DOMAIN path : i = 1  BY <2>1, <2>4, <3>1
      <4>. QED  BY <2>3, <3>1, <4>1, <4>2 DEF ToSet
    <3>2. CASE n # 1
      BY <2>1, <2>3, <3>2 DEF PathInv, Distinct
    <3>. QED  BY <3>1, <3>2
  <2>7. CASE report' = Append(path, a) /\ visited' = Seen /\ path' = path
    BY <1>0, <2>1, <2>5, <2>6, <2>7 DEF PathInv, Distinct, PathFits
  <2>8. CASE a \notin Seen /\ path' = Append(path, a) /\ visited' = Seen \cup {a} /\ report' = report
    <3>1. ToSet(path') = ToSet(path) \cup {a}  BY <2>1, <2>4, <2>8, AppendElements
    <3>2. IsInjective(path')
      BY <2>1, <2>4, <2>5, <2>6, <2>8, AppendUnique
    <3>3. ToSet(path) \subseteq ToSet(ids)
      <4>1. ASSUME NEW i \in 1..Len(path) PROVE path[i] \in ToSet(ids)
        BY <2>1, <4>1 DEF Base, IInv, Stack
      <4>. QED  BY <2>4, <4>1 DEF ToSet
    <3>4. Len(path') <= Len(ids')
      BY <1>0, <2>1, <2>8, <3>1, <3>2, <3>3, NotLonger
    <3>. QED
      BY <2>1, <2>5, <2>6, <2>8, <3>1, <3>2, <3>4 DEF PathInv, Distinct, PathFits
  <2>. QED  BY <2>2, <2>7, <2>8
<1>5. CASE Return
  <2>. DEFINE n == Len(todo)
  <2>1. /\ n \in Nat /\ n > 1 /\ Len(path) = n /\ start > 0 /\ path \in Seq(Ids)
        /\ Len(path') = n - 1
        /\ \A i \in 1..(n - 1) : path'[i] = path[i]
        /\ ids' = ids /\ start' = start /\ report' = report /\ visited' = visited
    BY <1>5, Popped DEF graph
  <2>. HIDE DEF n
  <2>2. path' \in Seq(Ids)  BY DEF Base, IInv, TypeOK
  <2>3. IsInjective(path) /\ ToSet(path) \subseteq visited /\ PathFits
    BY <2>1 DEF PathInv, Distinct
  <2>4. IsInjective(path')  BY <2>1, <2>2, <2>3 DEF IsInjective
  <2>5. ToSet(path') \subseteq ToSet(path)
    <3>1. ASSUME NEW i \in 1..(n - 1) PROVE path'[i] \in ToSet(path)
      <4>1. i \in DOMAIN path /\ path'[i] = path[i]  BY <2>1
      <4>. QED  BY <4>1 DEF ToSet
    <3>. QED  BY <2>1, <2>2, <3>1 DEF ToSet
  <2>6. PathFits'  BY <1>0, <2>1, <2>3 DEF PathFits
  <2>. QED  BY <2>1, <2>3, <2>4, <2>5, <2>6 DEF PathInv, Distinct
<1>6. CASE SearchEnds
  <2>1. start > 0 /\ UNCHANGED graph /\ report' = report /\ start \in 1..Len(ids)
    BY <1>6 DEF SearchEnds, Base, IInv, TypeOK
  <2>2. CASE deadlock \/ start = Len(ids)
    <3>1. start' = 0 /\ path' = path  BY <1>6, <2>2 DEF SearchEnds
    <3>. QED  BY <2>1, <3>1 DEF PathInv, Distinct, PathFits, graph
  <2>3. CASE ~(deadlock \/ start = Len(ids))
    <3>1. Begin(start + 1)  BY <1>6, <2>3 DEF SearchEnds, NextOne
    <3>2. start + 1 \in 1..Len(ids)  BY <1>0, <2>1, <2>3
    <3>. QED  BY <1>2, <2>1, <3>1, <3>2
  <2>. QED  BY <2>2, <2>3
<1>7. CASE UNCHANGED vars
  BY <1>7 DEF vars, graph, search, PathInv, Distinct, PathFits
<1>. QED  BY <1>1, <1>3, <1>4, <1>5, <1>6, <1>7 DEF Next, Search

(* path has room for every vertex and the one that is reported, so the     *)
(* array of MAX + 1 places is never written beyond its end.                *)
THEOREM PathNeverOverflows == Spec => []PathFits
<1>1. Init => PathInv
  BY DEF Init, PathInv, Distinct, PathFits
<1>2. PathInv /\ Base /\ Base' /\ [Next]_vars => PathInv'
  BY NextKeepsPathInv
<1>3. PathInv => PathFits  BY DEF PathInv
<1>. QED  BY <1>1, <1>2, <1>3, BaseHolds, PTL DEF Spec
-----------------------------------------------------------------------------
(* Where nobody waits for two others a search has one branch only: until   *)
(* the first report, what is marked is the path.                           *)
OneWait == \A a \in Ids : Len(next[a]) <= 1

Chain ==
    OneWait /\ start > 0 =>
      /\ \A i \in 1..Len(todo) : Len(todo[i]) <= 1
      /\ \A i \in 1..(Len(todo) - 1) : todo[i] = <<>>
      /\ Len(todo) > 1 /\ todo[Len(todo)] # <<>> => visited = ToSet(path)

AlarmInv == Chain /\ NoFalseAlarm

(* The list of a thread that waits for one other is empty after its head.  *)
LEMMA TailOfOne ==
    ASSUME NEW s \in Seq(Ids), s # <<>>, Len(s) <= 1
    PROVE  Tail(s) = <<>>
OBVIOUS

LEMMA NextKeepsAlarmInv ==
    ASSUME AlarmInv, Base, Base', [Next]_vars
    PROVE  AlarmInv'
<1>1. ASSUME NEW a \in Ids, NEW b \in Ids, Blocks(a, b) \/ Unblocks(a, b)
      PROVE  AlarmInv'
  <2>1. start' = 0
    BY <1>1 DEF Blocks, Unblocks, search
  <2>. QED  BY <2>1 DEF AlarmInv, Chain, NoFalseAlarm
<1>2. ASSUME NEW i \in 1..Len(ids), Begin(i), UNCHANGED graph, ~deadlock'
      PROVE  AlarmInv'
  <2>1. Len(todo') = 1 /\ todo'[1] = next[ids[i]] /\ ids[i] \in Ids /\ next' = next
    BY <1>2, Begun DEF graph
  <2>. QED  BY <1>2, <2>1 DEF AlarmInv, Chain, NoFalseAlarm, OneWait
<1>3. CASE check_dead_lock
  <2>1. Begin(1) /\ UNCHANGED graph /\ ~deadlock' /\ Len(ids) > 0 /\ Len(ids) \in Nat
    BY <1>3 DEF check_dead_lock, Base, IInv, TypeOK
  <2>2. 1 \in 1..Len(ids)  BY <2>1
  <2>. QED  BY <1>2, <2>1, <2>2
<1>4. CASE DFS
  <2>. DEFINE a == Head(Last(todo))
              n == Len(todo)
  <2>1. /\ n \in Nat \ {0} /\ Len(path) = n /\ a \in Ids
        /\ start > 0 /\ start' = start /\ next' = next /\ ids' = ids
        /\ a \in ToSet(next[path[n]])
        /\ Len(Rest) = n /\ Rest[n] = Tail(todo[n])
        /\ \A i \in 1..(n - 1) : Rest[i] = todo[i]
        /\ Append(path, a) \in Seq(Ids)
    BY <1>4, PushOrReport DEF graph
  <2>2. \/ /\ a \in Seen /\ deadlock' = TRUE /\ todo' = Rest /\ path' = path
        \/ /\ a \notin Seen /\ path' = Append(path, a) /\ visited' = Seen \cup {a}
           /\ deadlock' = deadlock
           /\ Len(todo') = n + 1
           /\ \A i \in 1..n : todo'[i] = Rest[i]
           /\ todo'[n + 1] = next[a]
    BY <1>4, PushOrReport
  <2>3. Last(todo) # <<>> /\ Last(todo) = todo[n]
    BY <1>4 DEF DFS, Last
  <2>4. Seen = IF n = 1 THEN {ids[start]} ELSE visited  BY DEF Seen
  <2>. HIDE DEF a, n
  <2>5. /\ path \in Seq(Ids) /\ todo \in Seq(Seq(Ids)) /\ todo[n] \in Seq(Ids)
        /\ next \in [Ids -> Seq(Ids)] /\ path[1] = ids[start] /\ n \in 1..n
    <3>1. path \in Seq(Ids) /\ todo \in Seq(Seq(Ids)) /\ next \in [Ids -> Seq(Ids)]
      BY DEF Base, IInv, TypeOK
    <3>2. path[1] = ids[start]  BY <2>1 DEF Base, IInv, Stack
    <3>3. n \in 1..n  BY <2>1
    <3>4. todo[n] \in Seq(Ids)  BY <2>1, <3>1, <3>3 DEF n
    <3>. QED  BY <3>1, <3>2, <3>3, <3>4
  <2>. SUFFICES ASSUME OneWait PROVE AlarmInv'
    BY <2>1 DEF AlarmInv, Chain, NoFalseAlarm, OneWait
  <2>6. /\ \A i \in 1..n : Len(todo[i]) <= 1
        /\ \A i \in 1..(n - 1) : todo[i] = <<>>
        /\ n > 1 => visited = ToSet(path)
    BY <2>1, <2>3 DEF AlarmInv, Chain, n
  <2>7. \A i \in 1..n : Rest[i] = <<>>
    <3>1. Rest[n] = <<>>  BY <2>1, <2>3, <2>5, <2>6, TailOfOne
    <3>2. \A i \in 1..n : i = n \/ i \in 1..(n - 1)  BY <2>1
    <3>. QED  BY <2>1, <2>6, <3>1, <3>2
  <2>8. Seen = ToSet(path)
    <3>1. CASE n = 1
      <4>1. \A i \in DOMAIN path : i = 1  BY <2>1, <2>5, <3>1
      <4>2. 1 \in DOMAIN path  BY <2>1, <2>5
      <4>3. ToSet(path) = {path[1]}  BY <4>1, <4>2 DEF ToSet
      <4>. QED  BY <2>4, <2>5, <3>1, <4>3
    <3>2. CASE n # 1  BY <2>1, <2>4, <2>6, <3>2
    <3>. QED  BY <3>1, <3>2
  <2>9. CASE a \in Seen /\ deadlock' = TRUE /\ todo' = Rest /\ path' = path
    <3>1. PICK j \in 1..n : path[j] = a
      BY <2>1, <2>5, <2>8, <2>9 DEF ToSet
    <3>. DEFINE S == {path[i] : i \in j..n}
    <3>2. S \in SUBSET Ids /\ a \in S
      BY <2>1, <2>5, <3>1
    <3>3. ASSUME NEW i \in j..n PROVE \E b \in S : b \in ToSet(next[path[i]])
      <4>1. CASE i = n  BY <2>1, <3>2, <4>1
      <4>2. CASE i < n
        <5>1. i \in 1..(Len(path) - 1) /\ i + 1 \in j..n  BY <2>1, <3>1, <4>2
        <5>2. path[i + 1] \in ToSet(next[path[i]])
          BY <2>1, <5>1 DEF Base, IInv, Stack
        <5>. QED  BY <5>1, <5>2
      <4>. QED  BY <2>1, <4>1, <4>2
    <3>4. \A c \in S : \E b \in S : b \in ToSet(next[c])
      BY <3>3
    <3>5. HasCycle'
      <4>. HIDE DEF S
      <4>1. \E T \in SUBSET Ids : T # {} /\ \A c \in T : \E b \in T : b \in ToSet(next'[c])
        BY <2>1, <3>2, <3>4
      <4>. QED  BY <4>1 DEF HasCycle, CycleSet
    <3>6. Chain'
      <4>1. Len(todo') = n /\ n \in 1..n /\ todo'[n] = <<>>  BY <2>1, <2>5, <2>7, <2>9
      <4>2. \A i \in 1..n : Len(todo'[i]) <= 1 /\ todo'[i] = <<>>  BY <2>7, <2>9
      <4>3. \A i \in 1..(n - 1) : i \in 1..n  BY <2>1
      <4>. QED  BY <4>1, <4>2, <4>3 DEF Chain
    <3>. QED  BY <3>5, <3>6 DEF AlarmInv, NoFalseAlarm
  <2>10. CASE /\ path' = Append(path, a) /\ visited' = Seen \cup {a}
              /\ deadlock' = deadlock /\ Len(todo') = n + 1
              /\ \A i \in 1..n : todo'[i] = Rest[i]
              /\ todo'[n + 1] = next[a]
    <3>1. visited' = ToSet(path')
      BY <2>1, <2>5, <2>8, <2>10, AppendElements
    <3>2. \A i \in 1..(n + 1) : i \in 1..n \/ i = n + 1  BY <2>1
    <3>3. \A i \in 1..n : todo'[i] = <<>>  BY <2>7, <2>10
    <3>4. \A i \in 1..(n + 1) : Len(todo'[i]) <= 1
      BY <2>1, <2>10, <3>2, <3>3 DEF OneWait
    <3>5. Chain'
      <4>1. (n + 1) - 1 = n  BY <2>1
      <4>. QED  BY <2>10, <3>1, <3>3, <3>4, <4>1 DEF Chain
    <3>6. NoFalseAlarm'
      BY <2>1, <2>10 DEF AlarmInv, NoFalseAlarm, HasCycle, CycleSet
    <3>. QED  BY <3>5, <3>6 DEF AlarmInv
  <2>. QED  BY <2>2, <2>9, <2>10
<1>5. CASE Return
  <2>. DEFINE n == Len(todo)
  <2>1. /\ n \in Nat /\ n > 1 /\ start > 0 /\ Len(todo') = n - 1
        /\ \A i \in 1..(n - 1) : todo'[i] = todo[i]
        /\ next' = next /\ start' = start /\ deadlock' = deadlock
    BY <1>5, Popped DEF graph
  <2>2. NoFalseAlarm'
    BY <2>1 DEF AlarmInv, NoFalseAlarm, HasCycle, CycleSet
  <2>3. ASSUME OneWait PROVE Chain'
    <3>1. /\ \A i \in 1..n : Len(todo[i]) <= 1
          /\ \A i \in 1..(n - 1) : todo[i] = <<>>
      BY <2>1, <2>3 DEF AlarmInv, Chain
    <3>. HIDE DEF n
    <3>2. /\ n - 1 \in 1..(n - 1)
          /\ \A i \in 1..(n - 1) : i \in 1..n
          /\ \A i \in 1..((n - 1) - 1) : i \in 1..(n - 1)
      BY <2>1
    <3>3. /\ \A i \in 1..(n - 1) : Len(todo'[i]) <= 1 /\ todo'[i] = <<>>
          /\ todo'[n - 1] = <<>>
      BY <2>1, <3>1, <3>2
    <3>. QED  BY <2>1, <3>2, <3>3 DEF Chain
  <2>4. ~OneWait => Chain'  BY <2>1 DEF Chain, OneWait
  <2>. QED  BY <2>2, <2>3, <2>4 DEF AlarmInv
<1>6. CASE SearchEnds
  <2>1. start > 0 /\ UNCHANGED graph /\ start \in 1..Len(ids) /\ deadlock' = deadlock
    BY <1>6 DEF SearchEnds, Base, IInv, TypeOK
  <2>2. CASE deadlock \/ start = Len(ids)
    <3>1. start' = 0  BY <1>6, <2>2 DEF SearchEnds
    <3>. QED  BY <3>1 DEF AlarmInv, Chain, NoFalseAlarm
  <2>3. CASE ~(deadlock \/ start = Len(ids))
    <3>1. Begin(start + 1) /\ ~deadlock'  BY <1>6, <2>1, <2>3 DEF SearchEnds, NextOne
    <3>2. start + 1 \in 1..Len(ids)  BY <2>1, <2>3 DEF Base, IInv, TypeOK
    <3>. QED  BY <1>2, <2>1, <3>1, <3>2
  <2>. QED  BY <2>2, <2>3
<1>7. CASE UNCHANGED vars
  BY <1>7 DEF vars, graph, search, AlarmInv, Chain, NoFalseAlarm, OneWait, HasCycle, CycleSet
<1>. QED  BY <1>1, <1>3, <1>4, <1>5, <1>6, <1>7 DEF Next, Search

(* What is reported while nobody waits for two others is a deadlock: the   *)
(* vertex that was met again is on the path, and the path leads back to it. *)
THEOREM AlarmsAreTrue == Spec => []NoFalseAlarm
<1>1. Init => AlarmInv
  BY DEF Init, AlarmInv, Chain, NoFalseAlarm
<1>2. AlarmInv /\ Base /\ Base' /\ [Next]_vars => AlarmInv'
  BY NextKeepsAlarmInv
<1>3. AlarmInv => NoFalseAlarm  BY DEF AlarmInv
<1>. QED  BY <1>1, <1>2, <1>3, BaseHolds, PTL DEF Spec
-----------------------------------------------------------------------------
(***************************************************************************)
(* The hooks: a table that every thread reads and writes without a lock.   *)
(***************************************************************************)

(* What holds however the hooks interleave.  Every call that has not yet   *)
(* counted its entry is one of the calls: the table suffices for it.       *)
Lockers == {t \in Ids : pc[t] \in {"waiting", "locked", "insert", "inc"}}

TableSuffices == IsFiniteSet(Lockers) /\ lockidx + Cardinality(Lockers) <= calls

InCalls ==
    \A t \in Ids :
        /\ pc[t] # "run" => want[t] \in Mutexes
        /\ pc[t] = "waiting" => holder[want[t]] # t
        /\ pc[t] \in {"locked", "insert", "inc", "adopt"} => holder[want[t]] = t
        /\ pc[t] \in {"insert", "inc"} => slot[t] \in 1..(lockidx + 1)
        /\ pc[t] = "adopt" => slot[t] \in Used

HaveOwners == \A i \in 1..MAX : locklist[i].lock_id \in Mutexes => locklist[i].id \in Ids

(* The lists name no vertex twice and only those that are there. *)
Graphs == {g \in [ids : Seq(Ids), next : [Ids -> Seq(Ids)]] :
               /\ IsInjective(g.ids)
               /\ \A a \in Ids : IsInjective(g.next[a]) /\ (g.next[a] # <<>> => a \in ToSet(g.ids))}

IsGraph == [ids |-> ids, next |-> next] \in Graphs

TableInv == /\ HooksTypeOK /\ IsGraph /\ TableSuffices /\ InCalls /\ HaveOwners
            /\ EveryEntryIsReached

(* What holds unless hooks have raced for an entry.  Several threads may   *)
(* be in the hooks of a mutex: all but one wait, and with a waiter that was *)
(* never overtaken there is no other one but who gives the mutex back.     *)
Apart ==
    \A t, u \in Ids : t # u /\ pc[t] # "run" /\ pc[u] # "run" /\ want[t] = want[u] =>
        /\ pc[t] = "waiting" \/ pc[u] = "waiting"
        /\ pc[t] = "waiting" /\ t \notin overtaken => pc[u] \in {"waiting", "unlocked"}

Freed == \A t \in Ids : pc[t] = "unlocked" => holder[want[t]] = Nobody

(* The entries of a mutex, of which there is one at most. *)
Of(m) == {i \in 1..MAX : locklist[i].lock_id = m}

OneEntry == \A i, j \in 1..MAX :
    locklist[i].lock_id = locklist[j].lock_id /\ locklist[i].lock_id \in Mutexes => i = j

OwnSlots == \A t, u \in Ids :
    t # u /\ pc[t] \in {"insert", "inc"} /\ pc[u] \in {"insert", "inc"} => slot[t] # slot[u]

Inserting ==
    \A t \in Ids :
        /\ pc[t] = "insert" => Of(want[t]) = {} /\ locklist[slot[t]].lock_id \notin Mutexes
        /\ pc[t] = "inc" => locklist[slot[t]].lock_id = want[t] /\ locklist[slot[t]].id = t

Owned == \A m \in Mutexes, t \in Ids : holder[m] = t /\ ~InHook(t, m) =>
    \E i \in Used : i \in Of(m) /\ locklist[i].id = t

(* An entry that is kept while its mutex is free is kept for a waiter that *)
(* has counted itself in, and nobody else takes what is one waiter's.      *)
InTurn(t) == pc[t] = "locked" \/ (pc[t] = "waiting" /\ t \notin overtaken)

Idle(m) == holder[m] = Nobody /\ \A t \in Ids : pc[t] = "unlocked" => want[t] # m

Counted ==
    /\ \A i \in 1..MAX : locklist[i].degress >= 0
    /\ \A t \in Ids : InTurn(t) => \A i \in Of(want[t]) : i \in Used /\ locklist[i].degress > 0
    /\ \A m \in Mutexes : Idle(m) => \A i \in Of(m) : i \in Used /\ locklist[i].degress > 0
    /\ \A t \in Ids : pc[t] = "adopt" =>
           locklist[slot[t]].lock_id = want[t] /\ locklist[slot[t]].degress > 0

(* Who has an edge, and to whom, among those that were never overtaken. *)
Pointing ==
    \A t \in Ids \ overtaken :
        /\ pc[t] \notin {"waiting", "locked", "adopt"} => next[t] = <<>>
        /\ pc[t] \in {"waiting", "locked", "adopt"} =>
               /\ Of(want[t]) = {} => next[t] = <<>>
               /\ \A i \in Of(want[t]) :
                      next[t] = IF locklist[i].id = t THEN <<>> ELSE <<locklist[i].id>>

OrderlyInv == /\ Apart /\ Freed /\ OneEntry /\ OwnSlots /\ Inserting
              /\ Owned /\ Counted /\ Pointing

HooksInv == TableInv /\ (~overlapped => OrderlyInv)

-----------------------------------------------------------------------------
(* A set of numbers has a least element. *)
LEMMA Least ==
    ASSUME NEW S \in SUBSET Nat, S # {}
    PROVE  \E x \in S : \A y \in S : x <= y
<1> DEFINE R == OpToRel(<, Nat)
<1>1. R = {ss \in Nat \X Nat : ss[1] < ss[2]}
  BY DEF OpToRel
<1>2. \A i, j \in Nat : <<i, j>> \in R <=> i < j
  BY <1>1
<1>3. IsWellFoundedOn(R, Nat)
  BY NatLessThanWellFounded
<1> HIDE DEF R
<1>4. PICK x \in S : \A y \in S : ~(<<y, x>> \in R)
  BY <1>3, WFMin
<1>5. ASSUME NEW y \in S PROVE x <= y
  <2>1. x \in Nat /\ y \in Nat /\ ~(<<y, x>> \in R)
    BY <1>4
  <2>2. ~(y < x)
    BY <1>2, <2>1
  <2> QED
    BY <2>1, <2>2
<1> QED
  BY <1>5

(* What is true of 0 and of every number after one of which it is true. *)
LEMMA Upwards ==
    ASSUME NEW n \in Nat, NEW T, 0 \in T, \A k \in 1..n : k - 1 \in T => k \in T
    PROVE  0..n \subseteq T
<1> DEFINE S == (0..n) \ T
<1> SUFFICES ASSUME S # {} PROVE FALSE
  OBVIOUS
<1>1. S \in SUBSET Nat
  OBVIOUS
<1>2. PICK k \in S : \A j \in S : k <= j
  BY <1>1, Least
<1>3. k \in 1..n /\ k - 1 \in 0..n
  BY <1>2
<1>4. k - 1 \notin S
  BY <1>2, <1>3
<1> QED
  BY <1>2, <1>3, <1>4

(* What search_lock finds. *)
LEMMA Found ==
    ASSUME NEW l, lockidx \in Nat
    PROVE  /\ FirstWith(l) = 0 => \A i \in Used : locklist[i].lock_id # l
           /\ FirstWith(l) # 0 => FirstWith(l) \in Used /\ locklist[FirstWith(l)].lock_id = l
           /\ FirstWith(l) \in 0..lockidx
<1> DEFINE S == {i \in Used : locklist[i].lock_id = l}
<1>1. CASE S = {}
  BY <1>1 DEF FirstWith
<1>2. CASE S # {}
  <2>1. S \in SUBSET Nat
    BY DEF Used
  <2>2. \E i \in S : \A j \in S : i <= j
    BY <1>2, <2>1, Least
  <2>3. FirstWith(l) = CHOOSE i \in S : \A j \in S : i <= j
    BY <1>2 DEF FirstWith
  <2>4. FirstWith(l) \in S
    BY <2>2, <2>3
  <2> QED
    BY <2>4 DEF Used
<1> QED
  BY <1>1, <1>2

LEMMA EmptyFound ==
    ASSUME lockidx \in Nat
    PROVE  /\ search_empty_lock \in 1..(lockidx + 1)
           /\ search_empty_lock \in Used => locklist[search_empty_lock].lock_id = NoLock
BY Found DEF search_empty_lock, Used
-----------------------------------------------------------------------------
(* One entry's edge leaves a graph; with none from t before, it has the    *)
(* one.                                                                    *)
LEMMA OneEdge ==
    ASSUME NEW g \in Graphs, NEW t \in Ids, NEW o \in Ids
    PROVE  /\ WithEdge(g, t, o) \in Graphs
           /\ \A a \in Ids \ {t} : WithEdge(g, t, o).next[a] = g.next[a]
           /\ g.next[t] = <<>> => WithEdge(g, t, o).next[t] = IF o = t THEN <<>> ELSE <<o>>
<1> DEFINE list == add_vertex(add_vertex(g.ids, t), o)
           adj == IF verify_edge(list, g.next, t, o) THEN g.next ELSE add_edge(g.next, t, o)
<1>1. /\ g.ids \in Seq(Ids) /\ IsInjective(g.ids) /\ g.next \in [Ids -> Seq(Ids)]
      /\ \A a \in Ids : IsInjective(g.next[a]) /\ (g.next[a] # <<>> => a \in ToSet(g.ids))
  BY DEF Graphs
<1>2. /\ list \in Seq(Ids) /\ IsInjective(list) /\ ToSet(list) = ToSet(g.ids) \cup {t, o}
  <2> DEFINE one == add_vertex(g.ids, t)
  <2>1. one \in Seq(Ids) /\ IsInjective(one) /\ ToSet(one) = ToSet(g.ids) \cup {t}
    BY <1>1, AddVertex
  <2> HIDE DEF one
  <2>2. add_vertex(one, o) \in Seq(Ids) /\ IsInjective(add_vertex(one, o))
        /\ ToSet(add_vertex(one, o)) = ToSet(one) \cup {o}
    BY <2>1, AddVertex
  <2> QED
    BY <2>1, <2>2 DEF one
<1>3. WithEdge(g, t, o) = [ids |-> list, next |-> adj]
  BY DEF WithEdge
<1> HIDE DEF list
<1>4. CASE o \in {t} \cup ToSet(g.next[t])
  <2>1. adj = g.next
    BY <1>2, <1>4 DEF verify_edge
  <2>2. g.next[t] = <<>> => o = t
    BY <1>4 DEF ToSet
  <2>3. [ids |-> list, next |-> adj] \in Graphs
    BY <1>1, <1>2, <2>1 DEF Graphs
  <2> QED
    BY <1>3, <2>1, <2>2, <2>3
<1>5. CASE o \notin {t} \cup ToSet(g.next[t])
  <2> DEFINE l == Append(g.next[t], o)
  <2>1. adj = [g.next EXCEPT ![t] = l]
    BY <1>5 DEF verify_edge, add_edge
  <2>2. l \in Seq(Ids) /\ IsInjective(l)
    BY <1>1, <1>5, AppendUnique
  <2>3. g.next[t] = <<>> => l = <<o>>
    OBVIOUS
  <2> HIDE DEF l
  <2>4. /\ adj \in [Ids -> Seq(Ids)] /\ adj[t] = l
        /\ \A a \in Ids \ {t} : adj[a] = g.next[a]
    BY <1>1, <2>1, <2>2
  <2>5. [ids |-> list, next |-> adj] \in Graphs
    BY <1>1, <1>2, <2>2, <2>4 DEF Graphs
  <2> QED
    BY <1>3, <1>5, <2>3, <2>4, <2>5
<1> QED
  BY <1>4, <1>5

(* The loop of lock_before computes a graph for every k, whatever edges it *)
(* meets: there is such a function, by induction over its domain.          *)
LEMMA LoopRuns ==
    ASSUME lockidx \in Nat, NEW g0 \in Graphs, NEW F \in [Graphs \X (1..lockidx) -> Graphs]
    PROVE  \E f \in [0..lockidx -> Graphs] :
               \A k \in 0..lockidx : f[k] = IF k = 0 THEN g0 ELSE F[<<f[k - 1], k>>]
<1> DEFINE Up(f, k) == \A j \in 0..k : f[j] = IF j = 0 THEN g0 ELSE F[<<f[j - 1], j>>]
           T == {k \in 0..lockidx : \E f \in [0..k -> Graphs] : Up(f, k)}
<1>1. 0 \in T
  <2> DEFINE f == [j \in 0..0 |-> g0]
  <2>1. f \in [0..0 -> Graphs] /\ Up(f, 0)
    OBVIOUS
  <2> HIDE DEF f, Up
  <2> QED
    BY <2>1
<1>2. ASSUME NEW k \in 1..lockidx, k - 1 \in T PROVE k \in T
  <2>1. PICK f \in [0..(k - 1) -> Graphs] : Up(f, k - 1)
    BY <1>2
  <2> DEFINE h == [j \in 0..k |-> IF j = k THEN F[<<f[k - 1], k>>] ELSE f[j]]
  <2>2. f[k - 1] \in Graphs /\ F[<<f[k - 1], k>>] \in Graphs
    OBVIOUS
  <2>3. h \in [0..k -> Graphs]
    BY <2>2
  <2>4. h[k] = F[<<f[k - 1], k>>] /\ \A j \in 0..(k - 1) : h[j] = f[j]
    OBVIOUS
  <2> HIDE DEF h
  <2>5. Up(h, k)
    <3> SUFFICES ASSUME NEW j \in 0..k
                 PROVE  h[j] = IF j = 0 THEN g0 ELSE F[<<h[j - 1], j>>]
      OBVIOUS
    <3>1. CASE j = k
      <4>1. k - 1 \in 0..(k - 1) /\ k # 0
        OBVIOUS
      <4>2. h[k - 1] = f[k - 1]
        BY <2>4, <4>1
      <4> QED
        BY <2>4, <3>1, <4>1, <4>2
    <3>2. CASE j # k /\ j # 0
      <4>1. j \in 0..(k - 1) /\ j - 1 \in 0..(k - 1)
        BY <3>2
      <4>2. f[j] = F[<<f[j - 1], j>>]
        BY <2>1, <3>2, <4>1
      <4>3. h[j] = f[j] /\ h[j - 1] = f[j - 1]
        BY <2>4, <4>1
      <4> QED
        BY <3>2, <4>2, <4>3
    <3>3. CASE j = 0
      <4>1. 0 \in 0..(k - 1)
        OBVIOUS
      <4>2. h[0] = f[0] /\ f[0] = g0
        BY <2>1, <2>4, <4>1
      <4> QED
        BY <3>3, <4>2
    <3> QED
      BY <3>1, <3>2, <3>3
  <2> HIDE DEF Up
  <2>6. \E e \in [0..k -> Graphs] : Up(e, k)
    BY <2>3, <2>5
  <2> QED
    BY <2>6
<1> HIDE DEF T
<1>3. lockidx \in T
  BY <1>1, <1>2, Upwards DEF Used
<1> QED
  BY <1>3 DEF T

(* What it adds: nothing without an entry of the mutex, the one edge with  *)
(* one.                                                                    *)
LEMMA Scanned ==
    ASSUME IsGraph, lockidx \in Nat, NEW t \in Ids, NEW m,
           \A i \in Used : locklist[i].lock_id = m => locklist[i].id \in Ids
    PROVE  /\ Scan(t, m) \in Graphs
           /\ (\A i \in Used : locklist[i].lock_id # m) => Scan(t, m) = [ids |-> ids, next |-> next]
           /\ \A i \in Used : (\A j \in Used : locklist[j].lock_id = m <=> j = i) =>
                  Scan(t, m) = WithEdge([ids |-> ids, next |-> next], t, locklist[i].id)
<1> DEFINE g0 == [ids |-> ids, next |-> next]
           B(g, k) == IF locklist[k].lock_id = m THEN WithEdge(g, t, locklist[k].id) ELSE g
           F == [p \in Graphs \X (1..lockidx) |-> B(p[1], p[2])]
           Loop(f) == f = [k \in 0..lockidx |-> IF k = 0 THEN g0
                                          ELSE IF locklist[k].lock_id = m
                                                 THEN WithEdge(f[k - 1], t, locklist[k].id)
                                          ELSE f[k - 1]]
<1>1. g0 \in Graphs
  BY DEF IsGraph
<1> HIDE DEF g0
<1>2. ASSUME NEW g \in Graphs, NEW k \in 1..lockidx PROVE B(g, k) \in Graphs
  BY OneEdge DEF Used
<1>3. F \in [Graphs \X (1..lockidx) -> Graphs]
  <2> SUFFICES ASSUME NEW p \in Graphs \X (1..lockidx) PROVE B(p[1], p[2]) \in Graphs
    BY DEF F
  <2>1. p[1] \in Graphs /\ p[2] \in 1..lockidx
    OBVIOUS
  <2> HIDE DEF B
  <2> QED
    BY <1>2, <2>1
<1>4. \E f : Loop(f)
  <2>1. PICK f \in [0..lockidx -> Graphs] :
            \A k \in 0..lockidx : f[k] = IF k = 0 THEN g0 ELSE F[<<f[k - 1], k>>]
    <3> HIDE DEF F
    <3> QED
      BY <1>1, <1>3, LoopRuns
  <2>2. \A k \in 1..lockidx : F[<<f[k - 1], k>>] = B(f[k - 1], k)
    <3> HIDE DEF B
    <3> QED
      BY DEF F
  <2>3. \A k \in 0..lockidx : f[k] = IF k = 0 THEN g0 ELSE B(f[k - 1], k)
    <3>1. \A k \in 0..lockidx : k = 0 \/ k \in 1..lockidx
      BY DEF Used
    <3> HIDE DEF B, F
    <3> QED
      BY <2>1, <2>2, <3>1
  <2>4. Loop(f)
    BY <2>3
  <2> QED
    BY <2>4
<1> DEFINE g == CHOOSE f : Loop(f)
<1>5. Loop(g)
  BY <1>4
<1>6. Scan(t, m) = g[lockidx]
  BY DEF Scan, g0
<1> HIDE DEF g
<1>7. g[0] = g0 /\ \A k \in 1..lockidx : k - 1 \in 0..lockidx /\ g[k] = B(g[k - 1], k)
  <2>1. \A k \in 0..lockidx : g[k] = IF k = 0 THEN g0 ELSE B(g[k - 1], k)
    BY <1>5
  <2> HIDE DEF B
  <2> QED
    BY <2>1
<1> HIDE DEF B, Loop
<1>8. \A k \in 0..lockidx : g[k] \in Graphs
  <2> DEFINE T == {k \in 0..lockidx : g[k] \in Graphs}
  <2>1. 0 \in T /\ \A k \in 1..lockidx : k - 1 \in T => k \in T
    BY <1>1, <1>2, <1>7
  <2> HIDE DEF T
  <2>2. 0..lockidx \subseteq T
    BY <2>1, Upwards
  <2> QED
    BY <2>2 DEF T
<1>9. ASSUME \A i \in Used : locklist[i].lock_id # m PROVE g[lockidx] = g0
  <2> DEFINE T == {k \in 0..lockidx : g[k] = g0}
  <2>1. 0 \in T /\ \A k \in 1..lockidx : k - 1 \in T => k \in T
    BY <1>7, <1>9 DEF B, Used
  <2> HIDE DEF T
  <2>2. 0..lockidx \subseteq T
    BY <2>1, Upwards
  <2> QED
    BY <2>2 DEF T
<1>10. ASSUME NEW i \in Used, \A j \in Used : locklist[j].lock_id = m <=> j = i
       PROVE  g[lockidx] = WithEdge(g0, t, locklist[i].id)
  <2> DEFINE w == WithEdge(g0, t, locklist[i].id)
             T == {k \in 0..lockidx : g[k] = IF k < i THEN g0 ELSE w}
  <2>1. i \in 1..lockidx
    BY DEF Used
  <2>2. ASSUME NEW k \in 1..lockidx, k - 1 \in T PROVE k \in T
    <3>1. CASE k = i
      <4>1. g[k - 1] = g0 /\ B(g0, k) = w
        BY <1>10, <2>2, <3>1 DEF B
      <4> QED
        BY <1>7, <3>1, <4>1
    <3>2. CASE k # i
      <4>1. g[k] = g[k - 1]
        BY <1>7, <1>10, <3>2 DEF B, Used
      <4> HIDE DEF w
      <4> QED
        BY <2>1, <2>2, <3>2, <4>1
    <3> QED
      BY <3>1, <3>2
  <2> HIDE DEF w
  <2>3. 0 \in T
    BY <1>7, <2>1
  <2> HIDE DEF T
  <2>4. 0..lockidx \subseteq T
    BY <2>2, <2>3, Upwards
  <2> QED
    BY <2>1, <2>4 DEF T, w
<1> QED
  BY <1>6, <1>8, <1>9, <1>10 DEF g0

-----------------------------------------------------------------------------
(* One thread takes a step: where it and the others are then. *)
Places == {"run", "waiting", "locked", "insert", "inc", "adopt", "unlocked"}
Counting == {"waiting", "locked", "insert", "inc"}

Moved(t, p) == /\ pc' \in [Ids -> Places] /\ pc'[t] = p
               /\ \A u \in Ids \ {t} : pc'[u] = pc[u]

LEMMA GoesMoves ==
    ASSUME HooksTypeOK, NEW t \in Ids, NEW p \in Places, Goes(t, p)
    PROVE  Moved(t, p)
BY DEF HooksTypeOK, Goes, Moved, Places

(* One more or one less of the calls that have not counted their entry. *)
LEMMA LockersMoved ==
    ASSUME TableInv, NEW t \in Ids, NEW p \in Places, Moved(t, p)
    PROVE  /\ IsFiniteSet(Lockers)' /\ Cardinality(Lockers) \in Nat /\ Cardinality(Lockers)' \in Nat
           /\ p \in Counting /\ pc[t] \in Counting => Cardinality(Lockers)' = Cardinality(Lockers)
           /\ p \in Counting /\ pc[t] \notin Counting => Cardinality(Lockers)' = Cardinality(Lockers) + 1
           /\ p \notin Counting /\ pc[t] \in Counting => Cardinality(Lockers)' = Cardinality(Lockers) - 1
           /\ p \notin Counting /\ pc[t] \notin Counting => Cardinality(Lockers)' = Cardinality(Lockers)
<1>1. IsFiniteSet(Lockers)
  BY DEF TableInv, TableSuffices
<1>2. t \in Lockers <=> pc[t] \in Counting
  BY DEF Lockers, Counting
<1>3. Lockers' = IF p \in Counting THEN Lockers \cup {t} ELSE Lockers \ {t}
  BY DEF Lockers, Counting, Moved
<1>4. IsFiniteSet(Lockers') /\ Cardinality(Lockers) \in Nat /\ Cardinality(Lockers') \in Nat
  BY <1>1, <1>3, FS_AddElement, FS_RemoveElement, FS_CardinalityType
<1>5. CASE p \in Counting
  <2>1. Cardinality(Lockers') = IF t \in Lockers THEN Cardinality(Lockers) ELSE Cardinality(Lockers) + 1
    BY <1>1, <1>3, <1>5, FS_AddElement
  <2> QED
    BY <1>2, <1>4, <1>5, <2>1
<1>6. CASE p \notin Counting
  <2>1. Cardinality(Lockers') = IF t \in Lockers THEN Cardinality(Lockers) - 1 ELSE Cardinality(Lockers)
    BY <1>1, <1>3, <1>6, FS_RemoveElement
  <2> QED
    BY <1>2, <1>4, <1>6, <2>1
<1> QED
  BY <1>5, <1>6

(* A thread that may still need an entry finds room for it. *)
LEMMA RoomLeft ==
    ASSUME TableInv
    PROVE  /\ lockidx \in Nat /\ lockidx <= MAX
           /\ \A t \in Ids : pc[t] \in Counting => lockidx + 1 <= MAX
<1>1. IsFiniteSet(Lockers) /\ lockidx + Cardinality(Lockers) <= calls /\ lockidx \in 0..MAX
      /\ calls \in 0..MAX
  BY DEF TableInv, TableSuffices, HooksTypeOK
<1>2. Cardinality(Lockers) \in Nat /\ (Cardinality(Lockers) = 0 <=> Lockers = {})
  BY <1>1, FS_CardinalityType, FS_EmptySet
<1>3. ASSUME NEW t \in Ids, pc[t] \in Counting PROVE lockidx + 1 <= MAX
  <2>1. t \in Lockers
    BY <1>3 DEF Lockers, Counting
  <2> QED
    BY <1>1, <1>2, <2>1, MAXAssumption
<1> QED
  BY <1>1, <1>3, MAXAssumption

(* The three ways in which an entry is written. *)
Stored(i, o, l) == [locklist EXCEPT ![i].id = o, ![i].lock_id = l]

LEMMA EntryStored ==
    ASSUME locklist \in [1..MAX -> Entries], NEW i \in 1..MAX, NEW o \in Ids \cup {Nobody},
           NEW l \in Mutexes \cup {NoLock},
           locklist' = Stored(i, o, l)
    PROVE  /\ locklist' \in [1..MAX -> Entries]
           /\ locklist'[i].id = o /\ locklist'[i].lock_id = l
           /\ locklist'[i].degress = locklist[i].degress
           /\ \A j \in 1..MAX \ {i} : locklist'[j] = locklist[j]
<1> DEFINE e == [locklist[i] EXCEPT !.id = o, !.lock_id = l]
<1>1. locklist[i] \in Entries
  OBVIOUS
<1>2. e \in Entries /\ e.id = o /\ e.lock_id = l /\ e.degress = locklist[i].degress
  BY <1>1 DEF Entries
<1>3. locklist' = [locklist EXCEPT ![i] = e]
  BY DEF Stored
<1> HIDE DEF e
<1> QED
  BY <1>2, <1>3

LEMMA EntryAdopted ==
    ASSUME locklist \in [1..MAX -> Entries], NEW i \in 1..MAX, NEW o \in Ids,
           locklist' = [locklist EXCEPT ![i].degress = @ - 1, ![i].id = o]
    PROVE  /\ locklist' \in [1..MAX -> Entries]
           /\ locklist'[i].id = o /\ locklist'[i].lock_id = locklist[i].lock_id
           /\ locklist'[i].degress = locklist[i].degress - 1
           /\ \A j \in 1..MAX \ {i} : locklist'[j] = locklist[j]
<1> DEFINE e == [locklist[i] EXCEPT !.degress = @ - 1, !.id = o]
<1>1. locklist[i] \in Entries
  OBVIOUS
<1>2. /\ e \in Entries /\ e.id = o /\ e.lock_id = locklist[i].lock_id
      /\ e.degress = locklist[i].degress - 1
  <2> DEFINE f == [locklist[i] EXCEPT !.degress = @ - 1]
  <2>1. /\ f \in Entries /\ f.lock_id = locklist[i].lock_id
        /\ f.degress = locklist[i].degress - 1
    BY <1>1 DEF Entries
  <2>2. e = [f EXCEPT !.id = o]
    OBVIOUS
  <2> HIDE DEF e, f
  <2> QED
    BY <2>1, <2>2 DEF Entries
<1>3. locklist' = [locklist EXCEPT ![i] = e]
  OBVIOUS
<1> HIDE DEF e
<1> QED
  BY <1>2, <1>3

LEMMA EntriesCounted ==
    ASSUME locklist \in [1..MAX -> Entries], NEW m,
           locklist' = [i \in 1..MAX |-> IF i \in Used /\ locklist[i].lock_id = m
                                         THEN [locklist[i] EXCEPT !.degress = @ + 1]
                                         ELSE locklist[i]]
    PROVE  /\ locklist' \in [1..MAX -> Entries]
           /\ \A i \in 1..MAX :
                  /\ locklist'[i].id = locklist[i].id /\ locklist'[i].lock_id = locklist[i].lock_id
                  /\ locklist'[i].degress = IF i \in Used /\ locklist[i].lock_id = m
                                            THEN locklist[i].degress + 1 ELSE locklist[i].degress
<1>1. ASSUME NEW i \in 1..MAX
      PROVE  LET e == [locklist[i] EXCEPT !.degress = @ + 1] IN
             /\ e \in Entries /\ e.id = locklist[i].id /\ e.lock_id = locklist[i].lock_id
             /\ e.degress = locklist[i].degress + 1
  <2>1. locklist[i] \in Entries
    OBVIOUS
  <2> QED
    BY <2>1 DEF Entries
<1> QED
  BY <1>1

LEMMA GraphTyped ==
    ASSUME IsGraph
    PROVE  /\ ids \in Seq(Ids) /\ IsInjective(ids) /\ next \in [Ids -> Seq(Ids)]
           /\ \A a \in Ids : IsInjective(next[a]) /\ (next[a] # <<>> => a \in ToSet(ids))
<1> DEFINE g == [ids |-> ids, next |-> next]
<1>1. g \in Graphs
  BY DEF IsGraph
<1>2. g.ids = ids /\ g.next = next
  OBVIOUS
<1> HIDE DEF g
<1> QED
  BY <1>1, <1>2 DEF Graphs

(* The table's invariant, whoever takes a step. *)
LEMMA BeforeKeepsTable ==
    ASSUME TableInv, NEW t \in Ids, NEW m \in Mutexes, lock_before(t, m)
    PROVE  TableInv'
<1>1. /\ pc[t] = "run" /\ holder[m] # t /\ calls < MAX /\ calls' = calls + 1
      /\ ids' = Scan(t, m).ids /\ next' = Scan(t, m).next
      /\ Goes(t, "waiting") /\ want' = [want EXCEPT ![t] = m]
      /\ overlapped' \in BOOLEAN
      /\ UNCHANGED <<lockidx, holder, slot, overtaken>>
  BY DEF lock_before, Writing, TableInv, HooksTypeOK
<1>2. /\ locklist' \in [1..MAX -> Entries]
      /\ \A i \in 1..MAX :
             locklist'[i].id = locklist[i].id /\ locklist'[i].lock_id = locklist[i].lock_id
  <2>1. locklist' = [i \in 1..MAX |-> IF i \in Used /\ locklist[i].lock_id = m
                                      THEN [locklist[i] EXCEPT !.degress = @ + 1]
                                      ELSE locklist[i]]
    BY DEF lock_before
  <2>2. locklist \in [1..MAX -> Entries]
    BY DEF TableInv, HooksTypeOK
  <2> QED
    BY <2>1, <2>2, EntriesCounted
<1>3. Moved(t, "waiting")
  BY <1>1, GoesMoves DEF TableInv, Places
<1>4. /\ want' \in [Ids -> Mutexes \cup {NoLock}] /\ want'[t] = m
      /\ \A u \in Ids \ {t} : want'[u] = want[u]
  BY <1>1 DEF TableInv, HooksTypeOK
<1>5. IsGraph'
  <2>1. \A i \in Used : locklist[i].lock_id = m => locklist[i].id \in Ids
    BY RoomLeft, MAXAssumption DEF TableInv, HaveOwners, Used
  <2>2. Scan(t, m) \in Graphs
    BY <2>1, RoomLeft, Scanned DEF TableInv
  <2>3. [ids |-> ids', next |-> next'] = Scan(t, m)
    BY <1>1, <2>2 DEF Graphs
  <2> QED
    BY <2>2, <2>3 DEF IsGraph
<1>6. HooksTypeOK'
  <2>1. ids' \in Seq(Ids) /\ next' \in [Ids -> Seq(Ids)]
    BY <1>5, <1>1 DEF IsGraph, Graphs
  <2>2. overlapped' \in BOOLEAN /\ calls' \in 0..MAX
    BY <1>1, MAXAssumption DEF TableInv, HooksTypeOK
  <2> QED
    BY <1>1, <1>2, <1>3, <1>4, <2>1, <2>2 DEF TableInv, HooksTypeOK, Moved, Places
<1>7. TableSuffices'
  <2>1. "waiting" \in Counting /\ "waiting" \in Places /\ pc[t] \notin Counting
    BY <1>1 DEF Counting, Places
  <2>2. /\ IsFiniteSet(Lockers)' /\ Cardinality(Lockers) \in Nat
        /\ Cardinality(Lockers)' = Cardinality(Lockers) + 1
    BY <1>3, <2>1, LockersMoved
  <2>3. lockidx \in Nat /\ calls \in Nat /\ lockidx + Cardinality(Lockers) <= calls
    BY MAXAssumption DEF TableInv, TableSuffices, HooksTypeOK
  <2> QED
    BY <1>1, <2>2, <2>3 DEF TableSuffices
<1>8. InCalls'
  BY <1>1, <1>3, <1>4 DEF TableInv, InCalls, Moved, Used
<1>9. HaveOwners' /\ EveryEntryIsReached'
  BY <1>1, <1>2, <1>3 DEF TableInv, HaveOwners, EveryEntryIsReached, Moved, Used
<1> QED
  BY <1>5, <1>6, <1>7, <1>8, <1>9 DEF TableInv

LEMMA AcquireKeepsTable ==
    ASSUME TableInv, NEW t \in Ids, Acquire(t)
    PROVE  TableInv'
<1>1. /\ pc[t] = "waiting" /\ holder[want[t]] = Nobody
      /\ holder' = [holder EXCEPT ![want[t]] = t] /\ Goes(t, "locked")
      /\ overlapped' \in BOOLEAN /\ overtaken' \subseteq Ids
      /\ UNCHANGED <<ids, next, locklist, lockidx, want, slot, calls>>
  BY DEF Acquire, tg, Writing, TableInv, HooksTypeOK
<1>2. Moved(t, "locked")
  BY <1>1, GoesMoves DEF TableInv, Places
<1>3. want[t] \in Mutexes
  BY <1>1 DEF TableInv, InCalls
<1>4. /\ holder' \in [Mutexes -> Ids \cup {Nobody}] /\ holder'[want[t]] = t
      /\ \A m \in Mutexes \ {want[t]} : holder'[m] = holder[m]
  BY <1>1, <1>3 DEF TableInv, HooksTypeOK
<1>5. HooksTypeOK' /\ IsGraph'
  BY <1>1, <1>2, <1>4 DEF TableInv, HooksTypeOK, IsGraph, Moved, Places
<1>6. TableSuffices'
  BY <1>1, <1>2, LockersMoved DEF TableInv, TableSuffices, Counting, Places
<1>7. InCalls'
  BY <1>1, <1>2, <1>3, <1>4, ZeroAssumption DEF TableInv, InCalls, Moved, Used
<1>8. HaveOwners' /\ EveryEntryIsReached'
  BY <1>1, <1>2 DEF TableInv, HaveOwners, EveryEntryIsReached, Moved, Used
<1> QED
  BY <1>5, <1>6, <1>7, <1>8 DEF TableInv

LEMMA AfterKeepsTable ==
    ASSUME TableInv, NEW t \in Ids, lock_after(t)
    PROVE  TableInv'
<1> DEFINE found == FirstWith(want[t])
           idx == IF found = 0 THEN search_empty_lock ELSE found
           p == IF found = 0 THEN "insert" ELSE "adopt"
<1>1. /\ pc[t] = "locked" /\ slot' = [slot EXCEPT ![t] = idx] /\ Goes(t, p)
      /\ overlapped' \in BOOLEAN
      /\ UNCHANGED <<ids, next, locklist, lockidx, holder, want, calls, overtaken>>
  BY DEF lock_after, tg, TableInv, HooksTypeOK
<1>2. Moved(t, p)
  BY <1>1, GoesMoves DEF TableInv, Places
<1>3. /\ found = 0 => idx \in 1..(lockidx + 1)
      /\ found # 0 => idx \in Used
      /\ idx \in 1..MAX
  BY <1>1, RoomLeft, EmptyFound, Found, MAXAssumption DEF Used, Counting
<1> HIDE DEF idx
<1>4. slot' \in [Ids -> 0..MAX] /\ slot'[t] = idx /\ \A u \in Ids \ {t} : slot'[u] = slot[u]
  BY <1>1, <1>3 DEF TableInv, HooksTypeOK
<1>5. HooksTypeOK' /\ IsGraph'
  BY <1>1, <1>2, <1>4 DEF TableInv, HooksTypeOK, IsGraph, Moved, Places
<1>6. TableSuffices'
  BY <1>1, <1>2, LockersMoved DEF TableInv, TableSuffices, HooksTypeOK, Counting, Places
<1>7. InCalls'
  BY <1>1, <1>2, <1>3, <1>4 DEF TableInv, InCalls, Moved, Used
<1>8. HaveOwners' /\ EveryEntryIsReached'
  BY <1>1, <1>2, <1>4 DEF TableInv, HaveOwners, EveryEntryIsReached, Moved, Used
<1> QED
  BY <1>5, <1>6, <1>7, <1>8 DEF TableInv

LEMMA InsertKeepsTable ==
    ASSUME TableInv, NEW t \in Ids, Insert(t)
    PROVE  TableInv'
<1>1. /\ pc[t] = "insert" /\ Goes(t, "inc")
      /\ UNCHANGED <<ids, next, lockidx, holder, want, slot, calls, overlapped, overtaken>>
  BY DEF Insert, tg
<1>2. want[t] \in Mutexes /\ slot[t] \in 1..(lockidx + 1) /\ slot[t] \in 1..MAX
  <2>1. slot[t] \in 1..(lockidx + 1)
    BY <1>1 DEF TableInv, InCalls
  <2> QED
    BY <1>1, <2>1, RoomLeft, MAXAssumption DEF TableInv, InCalls, Counting
<1>3. /\ locklist' \in [1..MAX -> Entries]
      /\ locklist'[slot[t]].id = t /\ locklist'[slot[t]].lock_id = want[t]
      /\ \A j \in 1..MAX \ {slot[t]} : locklist'[j] = locklist[j]
  <2>1. locklist' = Stored(slot[t], t, want[t])
    BY DEF Insert, Stored
  <2>2. locklist \in [1..MAX -> Entries] /\ t \in Ids \cup {Nobody} /\ want[t] \in Mutexes \cup {NoLock}
    BY <1>2 DEF TableInv, HooksTypeOK
  <2> QED
    BY <1>2, <2>1, <2>2, EntryStored
<1>4. Moved(t, "inc")
  BY <1>1, GoesMoves DEF TableInv, Places
<1>5. HooksTypeOK' /\ IsGraph'
  BY <1>1, <1>3, <1>4 DEF TableInv, HooksTypeOK, IsGraph, Moved, Places
<1>6. TableSuffices'
  BY <1>1, <1>4, LockersMoved DEF TableInv, TableSuffices, Counting, Places
<1>7. InCalls'
  BY <1>1, <1>4 DEF TableInv, InCalls, Moved, Used
<1>8. HaveOwners'
  BY <1>3 DEF TableInv, HaveOwners
<1>9. EveryEntryIsReached'
  <2> SUFFICES ASSUME NEW i \in 1..MAX, locklist'[i].lock_id \in Mutexes
               PROVE  i \in Used' \/ \E u \in Ids : pc'[u] = "inc" /\ slot'[u] = i
    BY DEF EveryEntryIsReached
  <2>1. CASE i = slot[t]
    BY <1>1, <1>4, <2>1 DEF Moved
  <2>2. CASE i # slot[t]
    BY <1>1, <1>3, <1>4, <2>2 DEF Moved, TableInv, EveryEntryIsReached, Used
  <2> QED
    BY <2>1, <2>2
<1> QED
  BY <1>5, <1>6, <1>7, <1>8, <1>9 DEF TableInv

LEMMA IncKeepsTable ==
    ASSUME TableInv, NEW t \in Ids, Inc(t)
    PROVE  TableInv'
<1>1. /\ pc[t] = "inc" /\ lockidx' = lockidx + 1 /\ Goes(t, "run")
      /\ UNCHANGED <<ids, next, locklist, holder, want, slot, calls, overlapped, overtaken>>
  BY DEF Inc, inc, tg
<1>2. lockidx \in Nat /\ lockidx + 1 <= MAX /\ slot[t] \in 1..(lockidx + 1)
  BY <1>1, RoomLeft DEF TableInv, InCalls, Counting
<1>3. Moved(t, "run")
  BY <1>1, GoesMoves DEF TableInv, Places
<1>4. HooksTypeOK' /\ IsGraph'
  BY <1>1, <1>2, <1>3, MAXAssumption DEF TableInv, HooksTypeOK, IsGraph, Moved, Places
<1>5. TableSuffices'
  <2>1. "run" \notin Counting /\ "run" \in Places /\ pc[t] \in Counting
    BY <1>1 DEF Counting, Places
  <2>2. /\ IsFiniteSet(Lockers)' /\ Cardinality(Lockers) \in Nat
        /\ Cardinality(Lockers)' = Cardinality(Lockers) - 1
    BY <1>3, <2>1, LockersMoved
  <2>3. calls \in Nat /\ lockidx + Cardinality(Lockers) <= calls
    BY MAXAssumption DEF TableInv, TableSuffices, HooksTypeOK
  <2> QED
    BY <1>1, <1>2, <2>2, <2>3 DEF TableSuffices
<1>6. Used' = 1..(lockidx + 1) /\ Used \subseteq Used' /\ slot[t] \in Used'
  BY <1>1, <1>2 DEF Used
<1>7. InCalls'
  <2> SUFFICES ASSUME NEW u \in Ids
               PROVE  /\ pc'[u] # "run" => want[u] \in Mutexes
                      /\ pc'[u] = "waiting" => holder[want[u]] # u
                      /\ pc'[u] \in {"locked", "insert", "inc", "adopt"} => holder[want[u]] = u
                      /\ pc'[u] \in {"insert", "inc"} => slot[u] \in 1..(lockidx' + 1)
                      /\ pc'[u] = "adopt" => slot[u] \in Used'
    BY <1>1 DEF InCalls
  <2>1. pc'[u] = "run" \/ pc'[u] = pc[u]
    BY <1>3 DEF Moved
  <2>2. pc[u] \in {"insert", "inc"} => slot[u] \in 1..(lockidx' + 1)
    BY <1>1, <1>2 DEF TableInv, InCalls
  <2> QED
    BY <1>6, <2>1, <2>2 DEF TableInv, InCalls
<1>8. HaveOwners'
  BY <1>1 DEF TableInv, HaveOwners
<1>9. EveryEntryIsReached'
  BY <1>1, <1>3, <1>6 DEF TableInv, EveryEntryIsReached, Moved
<1> QED
  BY <1>4, <1>5, <1>7, <1>8, <1>9 DEF TableInv

(* Without an edge or with one, what is left of the list is a list. *)
LEMMA EdgeRemoved ==
    ASSUME IsGraph, NEW t \in Ids, NEW o,
           next' = IF verify_edge(ids, next, t, o) THEN remove_edge(next, t, o) ELSE next,
           UNCHANGED ids
    PROVE  /\ IsGraph'
           /\ \A a \in Ids \ {t} : next'[a] = next[a]
           /\ next[t] = <<>> => next'[t] = <<>>
           /\ next[t] = <<o>> => next'[t] = <<>>
<1>1. /\ ids \in Seq(Ids) /\ IsInjective(ids) /\ next \in [Ids -> Seq(Ids)]
      /\ \A a \in Ids : IsInjective(next[a]) /\ (next[a] # <<>> => a \in ToSet(ids))
  BY GraphTyped
<1>2. CASE ~verify_edge(ids, next, t, o)
  <2>1. next' = next
    BY <1>2
  <2>2. next[t] # <<o>>
    <3>1. next[t] = <<o>> => o \in ToSet(next[t]) /\ t \in ToSet(ids)
      <4>1. <<o>> # <<>> /\ o \in ToSet(<<o>>)
        BY DEF ToSet
      <4> QED
        BY <1>1, <4>1
    <3> QED
      BY <1>2, <3>1 DEF verify_edge
  <2> QED
    BY <2>1, <2>2 DEF IsGraph
<1>3. CASE verify_edge(ids, next, t, o)
  <2> DEFINE l == RemoveFirst(next[t], o)
  <2>1. next' = [next EXCEPT ![t] = l] /\ t \in ToSet(ids)
    BY <1>3 DEF remove_edge, verify_edge
  <2>2. l \in Seq(Ids) /\ IsInjective(l) /\ ToSet(l) = ToSet(next[t]) \ {o}
    BY <1>1, RemoveFirstElements
  <2> HIDE DEF l
  <2>3. /\ next' \in [Ids -> Seq(Ids)] /\ next'[t] = l
        /\ \A a \in Ids \ {t} : next'[a] = next[a]
    BY <1>1, <2>1, <2>2
  <2>4. IsGraph'
    <3> DEFINE g == [ids |-> ids', next |-> next']
    <3>1. g.ids = ids /\ g.next = next' /\ g \in [ids : Seq(Ids), next : [Ids -> Seq(Ids)]]
      BY <1>1, <2>3
    <3> HIDE DEF g
    <3>2. g \in Graphs
      BY <1>1, <2>1, <2>2, <2>3, <3>1 DEF Graphs
    <3> QED
      BY <3>2 DEF g, IsGraph
  <2>5. next[t] \in {<<>>, <<o>>} => l = <<>>
    <3>1. next[t] \in {<<>>, <<o>>} => ToSet(next[t]) \subseteq {o}
      BY DEF ToSet
    <3>2. ToSet(l) = {} => l = <<>>
      BY <2>2 DEF ToSet
    <3> QED
      BY <2>2, <3>1, <3>2
  <2> QED
    BY <2>3, <2>4, <2>5
<1> QED
  BY <1>2, <1>3

LEMMA AdoptKeepsTable ==
    ASSUME TableInv, NEW t \in Ids, Adopt(t)
    PROVE  TableInv'
<1>1. /\ pc[t] = "adopt" /\ Goes(t, "run")
      /\ next' = IF verify_edge(ids, next, t, OldOwner(t))
                 THEN remove_edge(next, t, OldOwner(t)) ELSE next
      /\ UNCHANGED <<ids, lockidx, holder, want, slot, calls, overlapped, overtaken>>
  BY DEF Adopt
<1>2. slot[t] \in Used /\ slot[t] \in 1..MAX
  <2>1. slot[t] \in Used
    BY <1>1 DEF TableInv, InCalls
  <2> QED
    BY <2>1, RoomLeft, MAXAssumption DEF Used
<1>3. /\ locklist' \in [1..MAX -> Entries]
      /\ locklist'[slot[t]].id = t /\ locklist'[slot[t]].lock_id = locklist[slot[t]].lock_id
      /\ \A j \in 1..MAX \ {slot[t]} : locklist'[j] = locklist[j]
  BY <1>2, EntryAdopted DEF Adopt, TableInv, HooksTypeOK
<1>4. Moved(t, "run")
  BY <1>1, GoesMoves DEF TableInv, Places
<1>5. IsGraph'
  BY <1>1, EdgeRemoved DEF TableInv
<1>6. HooksTypeOK'
  <2>1. ids' \in Seq(Ids) /\ next' \in [Ids -> Seq(Ids)]
    BY <1>5 DEF IsGraph, Graphs
  <2> QED
    BY <1>1, <1>3, <1>4, <2>1 DEF TableInv, HooksTypeOK, Moved, Places
<1>7. TableSuffices'
  BY <1>1, <1>4, LockersMoved DEF TableInv, TableSuffices, Counting, Places
<1>8. InCalls'
  BY <1>1, <1>4 DEF TableInv, InCalls, Moved, Used
<1>9. HaveOwners' /\ EveryEntryIsReached'
  BY <1>1, <1>2, <1>3, <1>4 DEF TableInv, HaveOwners, EveryEntryIsReached, Moved, Used
<1> QED
  BY <1>5, <1>6, <1>7, <1>8, <1>9 DEF TableInv

LEMMA ReleaseKeepsTable ==
    ASSUME TableInv, NEW t \in Ids, NEW m \in Mutexes, Release(t, m)
    PROVE  TableInv'
<1>1. /\ pc[t] = "run" /\ holder[m] = t /\ holder' = [holder EXCEPT ![m] = Nobody]
      /\ Goes(t, "unlocked") /\ want' = [want EXCEPT ![t] = m]
      /\ UNCHANGED <<ids, next, locklist, lockidx, slot, calls, overlapped, overtaken>>
  BY DEF Release, tg
<1>2. Moved(t, "unlocked")
  BY <1>1, GoesMoves DEF TableInv, Places
<1>3. /\ holder' \in [Mutexes -> Ids \cup {Nobody}] /\ holder'[m] = Nobody
      /\ \A n \in Mutexes \ {m} : holder'[n] = holder[n]
  BY <1>1 DEF TableInv, HooksTypeOK
<1>4. /\ want' \in [Ids -> Mutexes \cup {NoLock}] /\ want'[t] = m
      /\ \A u \in Ids \ {t} : want'[u] = want[u]
  BY <1>1 DEF TableInv, HooksTypeOK
<1>5. HooksTypeOK' /\ IsGraph'
  BY <1>1, <1>2, <1>3, <1>4 DEF TableInv, HooksTypeOK, IsGraph, Moved, Places
<1>6. TableSuffices'
  BY <1>1, <1>2, LockersMoved DEF TableInv, TableSuffices, Counting, Places
<1>7. InCalls'
  BY <1>1, <1>2, <1>3, <1>4, ZeroAssumption DEF TableInv, InCalls, Moved, Used
<1>8. HaveOwners' /\ EveryEntryIsReached'
  BY <1>1, <1>2 DEF TableInv, HaveOwners, EveryEntryIsReached, Moved, Used
<1> QED
  BY <1>5, <1>6, <1>7, <1>8 DEF TableInv

(* Either nothing is cleared, or the entry that the scan finds.            *)
LEMMA Clearing ==
    ASSUME TableInv, NEW t \in Ids, unlock_after(t)
    PROVE  \/ /\ locklist' = locklist
              /\ \A i \in Used : locklist[i].lock_id = want[t] =>
                     \E j \in Used : locklist[j].lock_id = want[t] /\ locklist[j].degress # 0
           \/ \E i \in Used :
                  /\ i \in 1..MAX /\ locklist[i].lock_id = want[t] /\ locklist[i].degress = 0
                  /\ locklist' \in [1..MAX -> Entries]
                  /\ locklist'[i].lock_id = NoLock
                  /\ locklist'[i].degress = 0
                  /\ \A j \in 1..MAX \ {i} : locklist'[j] = locklist[j]
<1> DEFINE i == FirstWith(want[t])
<1>1. lockidx \in Nat /\ lockidx <= MAX
  BY RoomLeft
<1>2. /\ i # 0 => i \in Used /\ locklist[i].lock_id = want[t]
      /\ i = 0 => \A j \in Used : locklist[j].lock_id # want[t]
  BY <1>1, Found
<1>3. locklist' = IF i # 0 /\ locklist[i].degress = 0
                  THEN [locklist EXCEPT ![i].id = Nobody, ![i].lock_id = NoLock]
                  ELSE locklist
  BY DEF unlock_after
<1> HIDE DEF i
<1>4. CASE i # 0 /\ locklist[i].degress = 0
  <2>1. i \in 1..MAX
    BY <1>1, <1>2, <1>4, MAXAssumption DEF Used
  <2>2. locklist' = Stored(i, Nobody, NoLock)
    BY <1>3, <1>4 DEF Stored
  <2>3. /\ locklist \in [1..MAX -> Entries]
        /\ Nobody \in Ids \cup {Nobody} /\ NoLock \in Mutexes \cup {NoLock}
    BY DEF TableInv, HooksTypeOK
  <2>4. /\ locklist' \in [1..MAX -> Entries]
        /\ locklist'[i].lock_id = NoLock
        /\ locklist'[i].degress = locklist[i].degress
        /\ \A j \in 1..MAX \ {i} : locklist'[j] = locklist[j]
    BY <2>1, <2>2, <2>3, EntryStored
  <2> QED
    BY <1>2, <1>4, <2>1, <2>4
<1> QED
  BY <1>2, <1>3, <1>4

LEMMA UnlockKeepsTable ==
    ASSUME TableInv, NEW t \in Ids, unlock_after(t)
    PROVE  TableInv'
<1>1. /\ pc[t] = "unlocked" /\ Goes(t, "run")
      /\ UNCHANGED <<ids, next, lockidx, holder, want, slot, calls, overlapped, overtaken>>
  BY DEF unlock_after, tg
<1>2. Moved(t, "run")
  BY <1>1, GoesMoves DEF TableInv, Places
<1>3. /\ locklist' \in [1..MAX -> Entries]
      /\ \A i \in 1..MAX : locklist'[i].lock_id = NoLock \/ locklist'[i] = locklist[i]
  BY Clearing DEF TableInv, HooksTypeOK
<1>4. HooksTypeOK' /\ IsGraph'
  BY <1>1, <1>2, <1>3 DEF TableInv, HooksTypeOK, IsGraph, Moved, Places
<1>5. TableSuffices'
  BY <1>1, <1>2, LockersMoved DEF TableInv, TableSuffices, Counting, Places
<1>6. InCalls'
  BY <1>1, <1>2 DEF TableInv, InCalls, Moved, Used
<1>7. HaveOwners' /\ EveryEntryIsReached'
  BY <1>1, <1>2, <1>3, ZeroAssumption DEF TableInv, HaveOwners, EveryEntryIsReached, Moved, Used
<1> QED
  BY <1>4, <1>5, <1>6, <1>7 DEF TableInv

-----------------------------------------------------------------------------
(* The orderly part, as long as no two hooks meet that must not. *)
LEMMA HoldersDiffer ==
    ASSUME TableInv, NEW t \in Ids, NEW u \in Ids, t # u,
           pc[t] \in {"locked", "insert", "inc", "adopt"},
           pc[u] \in {"locked", "insert", "inc", "adopt"}
    PROVE  want[t] # want[u]
BY DEF TableInv, InCalls

(* Nobody in a hook of a mutex has stored an entry for it yet: then all of *)
(* its entries are in the scans' reach.                                    *)
LEMMA EntriesInReach ==
    ASSUME TableInv, OrderlyInv, NEW m \in Mutexes,
           \A u \in Ids : pc[u] = "inc" => want[u] # m
    PROVE  Of(m) \subseteq Used
<1> SUFFICES ASSUME NEW i \in Of(m), i \notin Used PROVE FALSE
  OBVIOUS
<1>1. i \in 1..MAX /\ locklist[i].lock_id = m
  BY DEF Of
<1>2. PICK u \in Ids : pc[u] = "inc" /\ slot[u] = i
  BY <1>1 DEF TableInv, EveryEntryIsReached
<1>3. want[u] = m
  BY <1>1, <1>2 DEF OrderlyInv, Inserting
<1> QED
  BY <1>2, <1>3

LEMMA BeforeKeepsOrder ==
    ASSUME TableInv, OrderlyInv, ~overlapped', NEW t \in Ids, NEW m \in Mutexes, lock_before(t, m)
    PROVE  OrderlyInv'
<1>1. /\ pc[t] = "run" /\ holder[m] # t
      /\ ids' = Scan(t, m).ids /\ next' = Scan(t, m).next
      /\ Goes(t, "waiting") /\ want' = [want EXCEPT ![t] = m]
      /\ ~Writing(t, m, {"locked", "insert", "inc", "adopt"})
      /\ UNCHANGED <<lockidx, holder, slot, overtaken>> /\ Used' = Used
  BY DEF lock_before, Used
<1>2. /\ locklist' \in [1..MAX -> Entries] /\ locklist \in [1..MAX -> Entries]
      /\ \A i \in 1..MAX :
             /\ locklist'[i].id = locklist[i].id /\ locklist'[i].lock_id = locklist[i].lock_id
             /\ locklist'[i].degress = IF i \in Used /\ locklist[i].lock_id = m
                                       THEN locklist[i].degress + 1 ELSE locklist[i].degress
  <2>1. locklist' = [i \in 1..MAX |-> IF i \in Used /\ locklist[i].lock_id = m
                                      THEN [locklist[i] EXCEPT !.degress = @ + 1]
                                      ELSE locklist[i]]
    BY DEF lock_before
  <2>2. locklist \in [1..MAX -> Entries]
    BY DEF TableInv, HooksTypeOK
  <2> QED
    BY <2>1, <2>2, EntriesCounted
<1>3. Moved(t, "waiting")
  BY <1>1, GoesMoves DEF TableInv, Places
<1>4. want'[t] = m /\ \A u \in Ids \ {t} : want'[u] = want[u]
  BY <1>1 DEF TableInv, HooksTypeOK
<1>5. \A u \in Ids : pc[u] # "run" /\ want[u] = m => pc[u] \in {"waiting", "unlocked"}
  <2>1. \A u \in Ids : pc[u] \in Places
    BY DEF TableInv, HooksTypeOK, Places
  <2> QED
    BY <1>1, <2>1 DEF Writing, InHook, Places
<1>6. \A n : Of(n)' = Of(n)
  BY <1>2 DEF Of
<1>7. Of(m) \subseteq Used
  BY <1>5, EntriesInReach
<1>8. /\ \A a \in Ids \ {t} : next'[a] = next[a]
      /\ next[t] = <<>> =>
             /\ Of(m) = {} => next'[t] = <<>>
             /\ \A i \in Of(m) : next'[t] = IF locklist[i].id = t THEN <<>> ELSE <<locklist[i].id>>
  <2> DEFINE g0 == [ids |-> ids, next |-> next]
  <2>1. g0 \in Graphs /\ g0.next = next
    BY DEF TableInv, IsGraph
  <2>2. \A i \in Used : i \in 1..MAX /\ (locklist[i].lock_id = m => locklist[i].id \in Ids)
    BY RoomLeft, MAXAssumption DEF TableInv, HaveOwners, Used
  <2>3. lockidx \in Nat
    BY RoomLeft
  <2>4. CASE Of(m) = {}
    <3>1. \A i \in Used : locklist[i].lock_id # m
      BY <2>2, <2>4 DEF Of
    <3>2. Scan(t, m) = g0
      BY <2>2, <2>3, <3>1, Scanned DEF TableInv
    <3> HIDE DEF g0
    <3> QED
      BY <1>1, <2>1, <2>4, <3>2
  <2>5. ASSUME NEW i \in Of(m)
        PROVE  /\ \A a \in Ids \ {t} : next'[a] = next[a]
               /\ next[t] = <<>> =>
                      next'[t] = IF locklist[i].id = t THEN <<>> ELSE <<locklist[i].id>>
    <3>1. i \in Used /\ locklist[i].lock_id = m
      BY <1>7, <2>5 DEF Of
    <3>2. \A j \in Used : locklist[j].lock_id = m <=> j = i
      BY <2>2, <3>1 DEF OrderlyInv, OneEntry
    <3>3. Scan(t, m) = WithEdge(g0, t, locklist[i].id) /\ locklist[i].id \in Ids
      BY <2>2, <2>3, <3>1, <3>2, Scanned DEF TableInv
    <3> HIDE DEF g0
    <3> QED
      BY <1>1, <2>1, <3>3, OneEdge
  <2> QED
    BY <2>4, <2>5
<1>9. Apart' /\ Freed'
  BY <1>1, <1>3, <1>4, <1>5 DEF OrderlyInv, Apart, Freed, Moved
<1>10. OneEntry' /\ OwnSlots'
  BY <1>1, <1>2, <1>3 DEF OrderlyInv, OneEntry, OwnSlots, Moved
<1>11. Inserting'
  <2> SUFFICES ASSUME NEW u \in Ids, pc'[u] \in {"insert", "inc"}
               PROVE  /\ pc'[u] = "insert" => Of(want[u])' = {} /\ locklist'[slot[u]].lock_id \notin Mutexes
                      /\ pc'[u] = "inc" => locklist'[slot[u]].lock_id = want[u] /\ locklist'[slot[u]].id = u
    BY <1>1, <1>3, <1>4 DEF Inserting, Moved
  <2>1. pc[u] = pc'[u] /\ want'[u] = want[u]
    BY <1>3, <1>4 DEF Moved
  <2>2. slot[u] \in 1..MAX
    BY <2>1, RoomLeft, MAXAssumption DEF TableInv, InCalls, Counting
  <2>3. Of(want[u])' = Of(want[u])
    BY <1>2, <2>1 DEF Of
  <2> QED
    BY <1>2, <2>1, <2>2, <2>3 DEF OrderlyInv, Inserting
<1>12. Owned'
  <2> SUFFICES ASSUME NEW n \in Mutexes, NEW u \in Ids, holder[n] = u, ~InHook(u, n)'
               PROVE  \E i \in Used : i \in Of(n) /\ locklist'[i].id = u
    BY <1>1, <1>6 DEF Owned
  <2>1. ~InHook(u, n)
    BY <1>1, <1>3, <1>4 DEF InHook, Moved
  <2>2. PICK i \in Used : i \in Of(n) /\ locklist[i].id = u
    BY <2>1 DEF OrderlyInv, Owned
  <2> QED
    BY <1>2, <2>2 DEF Of
<1>13. Counted'
  <2>1. \A i \in 1..MAX : locklist[i].degress \in Int /\ locklist[i].degress >= 0
    BY <1>2 DEF OrderlyInv, Counted, Entries
  <2>2. \A i \in 1..MAX : /\ locklist'[i].degress \in Int /\ locklist'[i].degress >= 0
                          /\ locklist'[i].degress >= locklist[i].degress
    BY <1>2, <2>1
  <2>3. ASSUME NEW u \in Ids, InTurn(u)', NEW i \in Of(want[u])'
        PROVE  i \in Used /\ locklist'[i].degress > 0
    <3>1. CASE u = t
      <4>1. i \in Of(m) /\ i \in Used /\ i \in 1..MAX /\ locklist[i].lock_id = m
        BY <1>2, <1>4, <1>7, <2>3, <3>1 DEF Of
      <4> QED
        BY <1>2, <2>1, <4>1
    <3>2. CASE u # t
      <4>1. InTurn(u) /\ i \in Of(want[u]) /\ i \in 1..MAX
        BY <1>1, <1>2, <1>3, <1>4, <2>3, <3>2 DEF Of, Moved, InTurn
      <4>2. i \in Used /\ locklist[i].degress > 0
        BY <2>3, <4>1 DEF OrderlyInv, Counted
      <4> QED
        BY <2>1, <2>2, <4>1, <4>2
    <3> QED
      BY <3>1, <3>2
  <2>4. ASSUME NEW u \in Ids, pc'[u] = "adopt"
        PROVE  locklist'[slot[u]].lock_id = want'[u] /\ locklist'[slot[u]].degress > 0
    <3>1. pc[u] = "adopt" /\ want'[u] = want[u]
      BY <1>3, <1>4, <2>4 DEF Moved
    <3>2. slot[u] \in 1..MAX
      BY <3>1, RoomLeft, MAXAssumption DEF TableInv, InCalls, Used
    <3>3. locklist[slot[u]].lock_id = want[u] /\ locklist[slot[u]].degress > 0
      BY <3>1 DEF OrderlyInv, Counted
    <3> QED
      BY <1>2, <2>1, <2>2, <3>1, <3>2, <3>3
  <2>5. ASSUME NEW n \in Mutexes, Idle(n)', NEW i \in Of(n)'
        PROVE  i \in Used /\ locklist'[i].degress > 0
    <3>1. Idle(n) /\ i \in Of(n) /\ i \in 1..MAX
      BY <1>1, <1>2, <1>3, <1>4, <2>5 DEF Idle, Of, Moved
    <3> QED
      BY <2>1, <2>2, <3>1 DEF OrderlyInv, Counted
  <2> QED
    BY <1>1, <2>2, <2>3, <2>4, <2>5 DEF Counted
<1>14. Pointing'
  <2> SUFFICES ASSUME NEW u \in Ids \ overtaken
               PROVE  /\ pc'[u] \notin {"waiting", "locked", "adopt"} => next'[u] = <<>>
                      /\ pc'[u] \in {"waiting", "locked", "adopt"} =>
                             /\ Of(want'[u]) = {} => next'[u] = <<>>
                             /\ \A i \in Of(want'[u]) :
                                    next'[u] = IF locklist[i].id = u THEN <<>> ELSE <<locklist[i].id>>
    <3>1. \A u \in Ids : Of(want[u])' = Of(want'[u])
      BY <1>2 DEF Of
    <3>2. \A u \in Ids : \A i \in Of(want'[u]) : locklist'[i].id = locklist[i].id
      BY <1>2 DEF Of
    <3> QED
      BY <1>1, <3>1, <3>2 DEF Pointing
  <2>1. CASE u = t
    BY <1>1, <1>3, <1>4, <1>8, <2>1 DEF Moved, OrderlyInv, Pointing
  <2>2. CASE u # t
    BY <1>3, <1>4, <1>8, <2>2 DEF Moved, OrderlyInv, Pointing
  <2> QED
    BY <2>1, <2>2
<1> QED
  BY <1>9, <1>10, <1>11, <1>12, <1>13, <1>14 DEF OrderlyInv

LEMMA AcquireKeepsOrder ==
    ASSUME TableInv, OrderlyInv, ~overlapped', NEW t \in Ids, Acquire(t)
    PROVE  OrderlyInv'
<1>1. /\ pc[t] = "waiting" /\ holder[want[t]] = Nobody
      /\ holder' = [holder EXCEPT ![want[t]] = t] /\ Goes(t, "locked")
      /\ ~Writing(t, want[t], {"unlocked"})
      /\ overtaken' = overtaken \cup {u \in Ids \ {t} : pc[u] = "waiting" /\ want[u] = want[t]}
      /\ UNCHANGED <<ids, next, locklist, lockidx, want, slot>>
  BY DEF Acquire, tg
<1>2. Moved(t, "locked")
  BY <1>1, GoesMoves DEF TableInv, Places
<1>3. want[t] \in Mutexes
  BY <1>1 DEF TableInv, InCalls
<1>4. holder'[want[t]] = t /\ \A m \in Mutexes \ {want[t]} : holder'[m] = holder[m]
  BY <1>1, <1>3 DEF TableInv, HooksTypeOK
<1>5. \A u \in Ids \ {t} : pc[u] # "run" /\ want[u] = want[t] => pc[u] = "waiting"
  <2> SUFFICES ASSUME NEW u \in Ids \ {t}, pc[u] # "run", want[u] = want[t] PROVE pc[u] = "waiting"
    OBVIOUS
  <2>1. pc[u] \in Places
    BY DEF TableInv, HooksTypeOK, Places
  <2>2. pc[u] \notin {"locked", "insert", "inc", "adopt"}
    BY <1>1, ZeroAssumption DEF TableInv, InCalls
  <2> QED
    BY <1>1, <2>1, <2>2 DEF Writing, InHook, Places
<1>6. Apart' /\ Freed'
  <2>1. Apart'
    BY <1>1, <1>2, <1>5 DEF OrderlyInv, Apart, Moved
  <2>2. Freed'
    BY <1>1, <1>2, <1>4, <1>5 DEF OrderlyInv, Freed, Moved, TableInv, InCalls
  <2> QED
    BY <2>1, <2>2
<1>7. OneEntry' /\ OwnSlots' /\ Inserting'
  BY <1>1, <1>2 DEF OrderlyInv, OneEntry, OwnSlots, Inserting, Of, Moved
<1>8. Owned'
  BY <1>1, <1>2, <1>3, <1>4 DEF OrderlyInv, Owned, Of, Moved, InHook, Used
<1>9. Counted'
  <2>1. /\ \A u \in Ids \ {t} : InTurn(u)' => InTurn(u)
        /\ \A n \in Mutexes : Idle(n)' => Idle(n)
    BY <1>1, <1>2, <1>3, <1>4, ZeroAssumption DEF InTurn, Idle, Moved
  <2>2. Idle(want[t])
    BY <1>1, <1>5 DEF Idle
  <2>3. \A i \in Of(want[t]) : i \in Used /\ locklist[i].degress > 0
    BY <1>3, <2>2 DEF OrderlyInv, Counted
  <2>4. \A n : Of(n)' = Of(n)
    BY <1>1 DEF Of
  <2> QED
    BY <1>1, <1>2, <2>1, <2>3, <2>4 DEF OrderlyInv, Counted, Of, Moved, Used
<1>10. Pointing'
  BY <1>1, <1>2 DEF OrderlyInv, Pointing, Of, Moved
<1> QED
  BY <1>6, <1>7, <1>8, <1>9, <1>10 DEF OrderlyInv

LEMMA AfterKeepsOrder ==
    ASSUME TableInv, OrderlyInv, ~overlapped', NEW t \in Ids, lock_after(t)
    PROVE  OrderlyInv'
<1> DEFINE found == FirstWith(want[t])
           idx == IF found = 0 THEN search_empty_lock ELSE found
           p == IF found = 0 THEN "insert" ELSE "adopt"
<1>1. /\ pc[t] = "locked" /\ slot' = [slot EXCEPT ![t] = idx] /\ Goes(t, p)
      /\ \A u \in Ids : pc[u] \in {"insert", "inc"} => slot[u] # idx
      /\ UNCHANGED <<ids, next, locklist, lockidx, holder, want, overtaken>>
  BY DEF lock_after, tg
<1>2. Moved(t, p)
  BY <1>1, GoesMoves DEF TableInv, Places
<1>3. lockidx \in Nat /\ lockidx + 1 <= MAX /\ want[t] \in Mutexes
  BY <1>1, RoomLeft DEF Counting, TableInv, InCalls
<1>4. /\ found = 0 => /\ idx \in 1..(lockidx + 1)
                      /\ idx \in Used => locklist[idx].lock_id = NoLock
                      /\ \A i \in Used : locklist[i].lock_id # want[t]
      /\ found # 0 => idx \in Used /\ locklist[idx].lock_id = want[t]
      /\ idx \in 1..MAX
  BY <1>3, EmptyFound, Found, MAXAssumption DEF Used
<1> HIDE DEF idx
<1>5. slot'[t] = idx /\ \A u \in Ids \ {t} : slot'[u] = slot[u]
  BY <1>1 DEF TableInv, HooksTypeOK
<1>6. found = 0 => Of(want[t]) = {} /\ locklist[idx].lock_id \notin Mutexes
  <2> SUFFICES ASSUME found = 0 PROVE Of(want[t]) = {} /\ locklist[idx].lock_id \notin Mutexes
    OBVIOUS
  <2>1. \A u \in Ids : pc[u] = "inc" => want[u] # want[t]
    BY <1>1, HoldersDiffer
  <2>2. Of(want[t]) \subseteq Used
    BY <1>3, <2>1, EntriesInReach
  <2>3. Of(want[t]) = {}
    BY <1>4, <2>2 DEF Of
  <2>4. locklist[idx].lock_id \notin Mutexes
    <3>1. CASE idx \in Used
      BY <1>4, <3>1, ZeroAssumption
    <3>2. CASE idx \notin Used
      BY <1>1, <1>4, <3>2 DEF TableInv, EveryEntryIsReached
    <3> QED
      BY <3>1, <3>2
  <2> QED
    BY <2>3, <2>4
<1>7. found # 0 => idx \in Of(want[t]) /\ locklist[idx].degress > 0
  <2>1. found # 0 => idx \in Of(want[t])
    BY <1>4 DEF Of
  <2> QED
    BY <1>1, <2>1 DEF OrderlyInv, Counted, InTurn
<1> HIDE DEF found
<1>8. Apart' /\ Freed'
  BY <1>1, <1>2 DEF OrderlyInv, Apart, Freed, Moved
<1>9. OneEntry' /\ OwnSlots'
  BY <1>1, <1>2, <1>5 DEF OrderlyInv, OneEntry, OwnSlots, Moved
<1>10. Inserting'
  BY <1>1, <1>2, <1>5, <1>6 DEF OrderlyInv, Inserting, Of, Moved
<1>11. Owned'
  BY <1>1, <1>2 DEF OrderlyInv, Owned, Of, Moved, InHook, Used
<1>12. Counted'
  BY <1>1, <1>2, <1>4, <1>5, <1>7 DEF OrderlyInv, Counted, InTurn, Idle, Of, Moved, Used
<1>13. Pointing'
  <2>1. found = 0 /\ t \notin overtaken => next[t] = <<>>
    BY <1>1, <1>6 DEF OrderlyInv, Pointing
  <2> QED
    BY <1>1, <1>2, <2>1 DEF OrderlyInv, Pointing, Of, Moved
<1> QED
  BY <1>8, <1>9, <1>10, <1>11, <1>12, <1>13 DEF OrderlyInv

LEMMA InsertKeepsOrder ==
    ASSUME TableInv, OrderlyInv, NEW t \in Ids, Insert(t)
    PROVE  OrderlyInv'
<1> DEFINE m == want[t]
           s == slot[t]
<1>1. /\ pc[t] = "insert" /\ Goes(t, "inc")
      /\ UNCHANGED <<ids, next, lockidx, holder, want, slot, overtaken>> /\ Used' = Used
  BY DEF Insert, tg, Used
<1>2. m \in Mutexes /\ s \in 1..MAX /\ holder[m] = t
  <2>1. s \in 1..(lockidx + 1) /\ m \in Mutexes /\ holder[m] = t
    BY <1>1 DEF TableInv, InCalls
  <2> QED
    BY <1>1, <2>1, RoomLeft, MAXAssumption DEF Counting
<1>3. /\ locklist'[s].id = t /\ locklist'[s].lock_id = m
      /\ locklist'[s].degress = locklist[s].degress
      /\ \A j \in 1..MAX \ {s} : locklist'[j] = locklist[j]
  <2>1. locklist' = Stored(s, t, m)
    BY DEF Insert, Stored
  <2>2. locklist \in [1..MAX -> Entries] /\ t \in Ids \cup {Nobody} /\ m \in Mutexes \cup {NoLock}
    BY <1>2 DEF TableInv, HooksTypeOK
  <2> QED
    BY <1>2, <2>1, <2>2, EntryStored
<1>4. Moved(t, "inc")
  BY <1>1, GoesMoves DEF TableInv, Places
<1>5. Of(m) = {} /\ locklist[s].lock_id \notin Mutexes
  BY <1>1 DEF OrderlyInv, Inserting
<1>6. \A n \in Mutexes \ {m} : Of(n)' = Of(n) /\ s \notin Of(n)
  <2> SUFFICES ASSUME NEW n \in Mutexes \ {m} PROVE Of(n)' = Of(n) /\ s \notin Of(n)
    OBVIOUS
  <2>1. \A i \in 1..MAX : locklist'[i].lock_id = n <=> locklist[i].lock_id = n
    BY <1>2, <1>3, <1>5
  <2> QED
    BY <1>5, <2>1 DEF Of
<1>7. \A u \in Ids \ {t} : pc[u] \in {"insert", "inc", "adopt"} \/ InTurn(u) =>
          want[u] \in Mutexes \ {m}
  BY <1>1, <1>2 DEF OrderlyInv, Apart, InTurn, TableInv, InCalls
<1> HIDE DEF m, s
<1>9. Apart' /\ Freed' /\ OwnSlots'
  BY <1>1, <1>4 DEF OrderlyInv, Apart, Freed, OwnSlots, Moved
<1>10. OneEntry'
  BY <1>2, <1>3, <1>5 DEF OrderlyInv, OneEntry, Of
<1>11. Inserting'
  <2>1. locklist'[slot[t]].lock_id = want[t] /\ locklist'[slot[t]].id = t
    BY <1>3 DEF m, s
  <2>2. ASSUME NEW u \in Ids \ {t}, pc[u] \in {"insert", "inc"}
        PROVE  locklist'[slot[u]] = locklist[slot[u]] /\ Of(want[u])' = Of(want[u])
    <3>1. slot[u] # s
      BY <1>1, <2>2 DEF OrderlyInv, OwnSlots, s
    <3>2. slot[u] \in 1..MAX
      BY <2>2, RoomLeft, MAXAssumption DEF TableInv, InCalls, Counting
    <3>3. want[u] \in Mutexes \ {m}
      BY <1>7, <2>2
    <3>4. Of(want[u])' = {i \in 1..MAX : locklist'[i].lock_id = want[u]}
      BY <1>1 DEF Of
    <3>5. Of(want[u])' = Of(want[u])
      BY <1>3, <1>5, <3>3, <3>4, <1>2 DEF Of
    <3> QED
      BY <1>3, <3>1, <3>2, <3>5
  <2> QED
    BY <1>1, <1>4, <2>1, <2>2 DEF OrderlyInv, Inserting, Moved
<1>12. Owned'
  <2> SUFFICES ASSUME NEW n \in Mutexes, NEW u \in Ids, holder[n] = u, ~InHook(u, n)'
               PROVE  \E i \in Used : i \in Of(n)' /\ locklist'[i].id = u
    BY <1>1 DEF Owned
  <2>1. ~InHook(u, n) /\ n # m
    BY <1>1, <1>2, <1>4 DEF InHook, Moved, m
  <2>2. PICK i \in Used : i \in Of(n) /\ locklist[i].id = u
    BY <2>1 DEF OrderlyInv, Owned
  <2>3. i # s /\ i \in 1..MAX
    BY <1>6, <2>1, <2>2 DEF Of
  <2> QED
    BY <1>3, <1>6, <2>1, <2>2, <2>3
<1>13. Counted'
  <2>1. \A i \in 1..MAX : locklist'[i].degress >= 0
    BY <1>2, <1>3 DEF OrderlyInv, Counted
  <2>2. ASSUME NEW u \in Ids, InTurn(u)', NEW i \in Of(want[u])'
        PROVE  i \in Used /\ locklist'[i].degress > 0
    <3>1. u # t /\ InTurn(u)
      BY <1>1, <1>4, <2>2 DEF Moved, InTurn
    <3>2. want[u] \in Mutexes \ {m} /\ i \in 1..MAX /\ locklist'[i].lock_id = want[u]
      BY <1>1, <1>7, <2>2, <3>1 DEF Of
    <3>3. i # s /\ locklist'[i] = locklist[i] /\ i \in Of(want[u])
      BY <1>3, <3>2 DEF Of
    <3> QED
      BY <2>2, <3>1, <3>3 DEF OrderlyInv, Counted
  <2>3. ASSUME NEW u \in Ids, pc'[u] = "adopt"
        PROVE  locklist'[slot[u]].lock_id = want[u] /\ locklist'[slot[u]].degress > 0
    <3>1. u # t /\ pc[u] = "adopt"
      BY <1>4, <2>3 DEF Moved
    <3>2. /\ locklist[slot[u]].lock_id = want[u] /\ locklist[slot[u]].degress > 0
          /\ want[u] \in Mutexes /\ slot[u] \in 1..MAX
      BY <3>1, RoomLeft, MAXAssumption DEF OrderlyInv, Counted, TableInv, InCalls, Used
    <3>3. slot[u] # s
      BY <1>5, <3>2
    <3> QED
      BY <1>3, <3>2, <3>3
  <2>4. ASSUME NEW n \in Mutexes, Idle(n)', NEW i \in Of(n)'
        PROVE  i \in Used /\ locklist'[i].degress > 0
    <3>1. Idle(n) /\ n # m
      BY <1>1, <1>2, <1>4, <2>4, ZeroAssumption DEF Idle, Moved
    <3>2. i \in Of(n) /\ i # s /\ i \in 1..MAX
      BY <1>6, <2>4, <3>1 DEF Of
    <3> QED
      BY <1>3, <3>1, <3>2 DEF OrderlyInv, Counted
  <2> QED
    BY <1>1, <2>1, <2>2, <2>3, <2>4 DEF Counted
<1>14. Pointing'
  <2> SUFFICES ASSUME NEW u \in Ids \ overtaken
               PROVE  /\ pc'[u] \notin {"waiting", "locked", "adopt"} => next[u] = <<>>
                      /\ pc'[u] \in {"waiting", "locked", "adopt"} =>
                             /\ Of(want[u])' = {} => next[u] = <<>>
                             /\ \A i \in Of(want[u])' :
                                    next[u] = IF locklist'[i].id = u THEN <<>> ELSE <<locklist'[i].id>>
    BY <1>1 DEF Pointing
  <2>1. CASE u = t
    BY <1>1, <1>4, <2>1 DEF Moved, OrderlyInv, Pointing
  <2>2. CASE u # t /\ pc[u] \in {"waiting", "locked", "adopt"}
    <3>1. want[u] \in Mutexes \ {m}
      BY <1>7, <2>2 DEF InTurn
    <3>2. Of(want[u])' = {i \in 1..MAX : locklist'[i].lock_id = want[u]}
      BY <1>1 DEF Of
    <3>3. Of(want[u])' = Of(want[u]) /\ \A i \in Of(want[u]) : locklist'[i] = locklist[i]
      BY <1>2, <1>3, <1>5, <3>1, <3>2 DEF Of
    <3> QED
      BY <1>4, <2>2, <3>3 DEF Moved, OrderlyInv, Pointing
  <2>3. CASE u # t /\ pc[u] \notin {"waiting", "locked", "adopt"}
    BY <1>4, <2>3 DEF Moved, OrderlyInv, Pointing
  <2> QED
    BY <2>1, <2>2, <2>3
<1> QED
  BY <1>9, <1>10, <1>11, <1>12, <1>13, <1>14 DEF OrderlyInv

LEMMA IncKeepsOrder ==
    ASSUME TableInv, OrderlyInv, NEW t \in Ids, Inc(t)
    PROVE  OrderlyInv'
<1>1. /\ pc[t] = "inc" /\ lockidx' = lockidx + 1 /\ Goes(t, "run")
      /\ UNCHANGED <<ids, next, locklist, holder, want, slot, overtaken>>
  BY DEF Inc, inc, tg
<1>2. Moved(t, "run")
  BY <1>1, GoesMoves DEF TableInv, Places
<1>3. Used \subseteq Used' /\ slot[t] \in Used' /\ slot[t] \in 1..MAX
  <2>1. lockidx \in Nat /\ lockidx + 1 <= MAX /\ slot[t] \in 1..(lockidx + 1)
    BY <1>1, RoomLeft DEF TableInv, InCalls, Counting
  <2> QED
    BY <1>1, <2>1, MAXAssumption DEF Used
<1>4. Apart' /\ Freed' /\ OneEntry' /\ OwnSlots' /\ Inserting'
  BY <1>1, <1>2 DEF OrderlyInv, Apart, Freed, OneEntry, OwnSlots, Inserting, Of, Moved
<1>5. Owned'
  <2> SUFFICES ASSUME NEW n \in Mutexes, NEW u \in Ids, holder[n] = u, ~InHook(u, n)'
               PROVE  \E i \in Used' : i \in Of(n) /\ locklist[i].id = u
    BY <1>1 DEF Owned, Of
  <2>1. CASE ~InHook(u, n)
    BY <1>3, <2>1 DEF OrderlyInv, Owned
  <2>2. CASE InHook(u, n)
    <3>1. u = t /\ want[t] = n
      BY <1>1, <1>2, <2>2 DEF InHook, Moved
    <3>2. locklist[slot[t]].lock_id = n /\ locklist[slot[t]].id = t
      BY <1>1, <3>1 DEF OrderlyInv, Inserting
    <3> QED
      BY <1>3, <3>1, <3>2 DEF Of
  <2> QED
    BY <2>1, <2>2
<1>6. Counted'
  BY <1>1, <1>2, <1>3 DEF OrderlyInv, Counted, InTurn, Idle, Of, Moved
<1>7. Pointing'
  BY <1>1, <1>2 DEF OrderlyInv, Pointing, Of, Moved
<1> QED
  BY <1>4, <1>5, <1>6, <1>7 DEF OrderlyInv

LEMMA AdoptKeepsOrder ==
    ASSUME TableInv, OrderlyInv, NEW t \in Ids, Adopt(t)
    PROVE  OrderlyInv'
<1> DEFINE m == want[t]
           s == slot[t]
<1>1. /\ pc[t] = "adopt" /\ Goes(t, "run")
      /\ next' = IF verify_edge(ids, next, t, OldOwner(t))
                 THEN remove_edge(next, t, OldOwner(t)) ELSE next
      /\ UNCHANGED <<ids, lockidx, holder, want, slot, overtaken>> /\ Used' = Used
  BY DEF Adopt, Used
<1>2. /\ m \in Mutexes /\ s \in Used /\ s \in 1..MAX /\ holder[m] = t
      /\ locklist[s].lock_id = m /\ locklist[s].degress > 0 /\ locklist[s].degress \in Int
  <2>1. s \in Used /\ m \in Mutexes /\ holder[m] = t
    BY <1>1 DEF TableInv, InCalls
  <2>2. s \in 1..MAX
    BY <2>1, RoomLeft, MAXAssumption DEF Used
  <2> QED
    BY <1>1, <2>1, <2>2 DEF OrderlyInv, Counted, TableInv, HooksTypeOK, Entries
<1>3. /\ locklist'[s].id = t /\ locklist'[s].lock_id = m
      /\ locklist'[s].degress = locklist[s].degress - 1
      /\ \A j \in 1..MAX \ {s} : locklist'[j] = locklist[j]
  BY <1>2, EntryAdopted DEF Adopt, TableInv, HooksTypeOK
<1>4. Moved(t, "run")
  BY <1>1, GoesMoves DEF TableInv, Places
<1>5. (t \notin overtaken => next'[t] = <<>>) /\ \A a \in Ids \ {t} : next'[a] = next[a]
  <2>1. s \in Of(m)
    BY <1>2 DEF Of
  <2>2. t \notin overtaken => next[t] = IF OldOwner(t) = t THEN <<>> ELSE <<OldOwner(t)>>
    BY <1>1, <2>1 DEF OrderlyInv, Pointing, OldOwner
  <2> QED
    BY <1>1, <2>2, EdgeRemoved DEF TableInv
<1>6. \A n : Of(n)' = Of(n)
  BY <1>2, <1>3 DEF Of
<1>7. \A u \in Ids \ {t} : pc[u] \in {"insert", "inc", "adopt"} \/ InTurn(u) =>
          want[u] \in Mutexes \ {m}
  BY <1>1, <1>2 DEF OrderlyInv, Apart, InTurn, TableInv, InCalls
<1> HIDE DEF m, s
<1>8. \A u \in Ids \ {t} : pc[u] \in {"insert", "inc", "adopt"} \/ InTurn(u) =>
          s \notin Of(want[u]) /\ locklist[s].lock_id # want[u]
  BY <1>2, <1>7 DEF Of
<1>9. Apart' /\ Freed' /\ OwnSlots'
  BY <1>1, <1>4 DEF OrderlyInv, Apart, Freed, OwnSlots, Moved
<1>10. OneEntry'
  BY <1>2, <1>3 DEF OrderlyInv, OneEntry
<1>11. Inserting'
  <2> SUFFICES ASSUME NEW u \in Ids, pc'[u] \in {"insert", "inc"}
               PROVE  /\ pc'[u] = "insert" => Of(want[u]) = {} /\ locklist'[slot[u]].lock_id \notin Mutexes
                      /\ pc'[u] = "inc" => locklist'[slot[u]].lock_id = want[u] /\ locklist'[slot[u]].id = u
    <3>1. \A u \in Ids : Of(want[u])' = Of(want[u])
      BY <1>1, <1>2, <1>3 DEF Of
    <3> QED
      BY <1>1, <3>1 DEF Inserting
  <2>1. u # t /\ pc[u] = pc'[u]
    BY <1>4 DEF Moved
  <2>2. slot[u] \in 1..MAX
    BY <2>1, RoomLeft, MAXAssumption DEF TableInv, InCalls, Counting
  <2>3. pc[u] = "inc" => slot[u] # s
    BY <1>8, <2>1 DEF OrderlyInv, Inserting
  <2>4. locklist'[slot[u]].lock_id = locklist[slot[u]].lock_id
    BY <1>2, <1>3, <2>2
  <2> QED
    BY <1>3, <2>1, <2>2, <2>3, <2>4 DEF OrderlyInv, Inserting
<1>12. Owned'
  <2> SUFFICES ASSUME NEW n \in Mutexes, NEW u \in Ids, holder[n] = u, ~InHook(u, n)'
               PROVE  \E i \in Used : i \in Of(n) /\ locklist'[i].id = u
    BY <1>1, <1>6 DEF Owned
  <2>1. CASE n = m
    <3>1. u = t /\ s \in Of(m)
      BY <1>2, <2>1 DEF Of
    <3> QED
      BY <1>2, <1>3, <2>1, <3>1
  <2>2. CASE n # m
    <3>1. ~InHook(u, n)
      BY <1>1, <1>4, <2>2 DEF InHook, Moved, m
    <3>2. PICK i \in Used : i \in Of(n) /\ locklist[i].id = u
      BY <3>1 DEF OrderlyInv, Owned
    <3>3. i # s /\ i \in 1..MAX
      BY <1>2, <2>2, <3>2 DEF Of
    <3> QED
      BY <1>3, <3>2, <3>3
  <2> QED
    BY <2>1, <2>2
<1>13. Counted'
  <2>1. \A i \in 1..MAX : locklist'[i].degress >= 0
    BY <1>2, <1>3 DEF OrderlyInv, Counted
  <2>2. ASSUME NEW u \in Ids, InTurn(u)', NEW i \in Of(want[u])
        PROVE  i \in Used /\ locklist'[i].degress > 0
    <3>1. u # t /\ InTurn(u)
      BY <1>1, <1>4, <2>2 DEF Moved, InTurn
    <3>2. i # s /\ i \in 1..MAX
      BY <1>8, <2>2, <3>1 DEF Of
    <3> QED
      BY <1>3, <2>2, <3>1, <3>2 DEF OrderlyInv, Counted
  <2>3. ASSUME NEW u \in Ids, pc'[u] = "adopt"
        PROVE  locklist'[slot[u]].lock_id = want[u] /\ locklist'[slot[u]].degress > 0
    <3>1. u # t /\ pc[u] = "adopt"
      BY <1>4, <2>3 DEF Moved
    <3>2. /\ locklist[slot[u]].lock_id = want[u] /\ locklist[slot[u]].degress > 0
          /\ slot[u] \in 1..MAX
      BY <3>1, RoomLeft, MAXAssumption DEF OrderlyInv, Counted, TableInv, InCalls, Used
    <3>3. slot[u] # s
      BY <1>8, <3>1, <3>2
    <3> QED
      BY <1>3, <3>2, <3>3
  <2>4. \A u \in Ids : Of(want[u])' = Of(want[u])
    BY <1>1, <1>2, <1>3 DEF Of
  <2>5. ASSUME NEW n \in Mutexes, Idle(n)', NEW i \in Of(n)
        PROVE  i \in Used /\ locklist'[i].degress > 0
    <3>1. Idle(n) /\ n # m
      BY <1>1, <1>2, <1>4, <2>5, ZeroAssumption DEF Idle, Moved
    <3>2. i # s /\ i \in 1..MAX
      BY <1>2, <3>1 DEF Of
    <3> QED
      BY <1>3, <2>5, <3>1, <3>2 DEF OrderlyInv, Counted
  <2> QED
    BY <1>1, <1>6, <2>1, <2>2, <2>3, <2>4, <2>5 DEF Counted
<1>14. Pointing'
  <2> SUFFICES ASSUME NEW u \in Ids \ overtaken
               PROVE  /\ pc'[u] \notin {"waiting", "locked", "adopt"} => next'[u] = <<>>
                      /\ pc'[u] \in {"waiting", "locked", "adopt"} =>
                             /\ Of(want[u]) = {} => next'[u] = <<>>
                             /\ \A i \in Of(want[u]) :
                                    next'[u] = IF locklist'[i].id = u THEN <<>> ELSE <<locklist'[i].id>>
    <3>1. \A u \in Ids : Of(want[u])' = Of(want[u])
      BY <1>1, <1>2, <1>3 DEF Of
    <3> QED
      BY <1>1, <3>1 DEF Pointing
  <2>1. CASE u = t
    BY <1>4, <1>5, <2>1 DEF Moved
  <2>2. CASE u # t
    <3>1. pc'[u] = pc[u] /\ next'[u] = next[u]
      BY <1>4, <1>5, <2>2 DEF Moved
    <3>2. pc[u] \in {"waiting", "locked", "adopt"} =>
              \A i \in Of(want[u]) : locklist'[i] = locklist[i]
      BY <1>3, <1>8, <2>2 DEF Of, InTurn
    <3> QED
      BY <3>1, <3>2 DEF OrderlyInv, Pointing
  <2> QED
    BY <2>1, <2>2
<1> QED
  BY <1>9, <1>10, <1>11, <1>12, <1>13, <1>14 DEF OrderlyInv

LEMMA ReleaseKeepsOrder ==
    ASSUME TableInv, OrderlyInv, NEW t \in Ids, NEW m \in Mutexes, Release(t, m)
    PROVE  OrderlyInv'
<1>1. /\ pc[t] = "run" /\ holder[m] = t /\ holder' = [holder EXCEPT ![m] = Nobody]
      /\ Goes(t, "unlocked") /\ want' = [want EXCEPT ![t] = m]
      /\ UNCHANGED <<ids, next, locklist, lockidx, slot, overtaken>> /\ Used' = Used
  BY DEF Release, tg, Used
<1>2. Moved(t, "unlocked")
  BY <1>1, GoesMoves DEF TableInv, Places
<1>3. holder'[m] = Nobody /\ \A n \in Mutexes \ {m} : holder'[n] = holder[n]
  BY <1>1 DEF TableInv, HooksTypeOK
<1>4. want'[t] = m /\ \A u \in Ids \ {t} : want'[u] = want[u]
  BY <1>1 DEF TableInv, HooksTypeOK
<1>5. \A u \in Ids \ {t} : pc[u] # "run" /\ want[u] = m => pc[u] = "waiting"
  <2> SUFFICES ASSUME NEW u \in Ids \ {t}, pc[u] # "run", want[u] = m PROVE pc[u] = "waiting"
    OBVIOUS
  <2>1. pc[u] \in Places
    BY DEF TableInv, HooksTypeOK, Places
  <2>2. pc[u] # "unlocked"
    BY <1>1, ZeroAssumption DEF OrderlyInv, Freed
  <2>3. pc[u] \notin {"locked", "insert", "inc", "adopt"}
    BY <1>1 DEF TableInv, InCalls
  <2> QED
    BY <2>1, <2>2, <2>3 DEF Places
<1>6. \A u \in Ids : pc[u] # "run" => want[u] \in Mutexes
  BY DEF TableInv, InCalls
<1>7. Apart'
  BY <1>1, <1>2, <1>4, <1>5 DEF OrderlyInv, Apart, Moved
<1>8. Freed'
  BY <1>2, <1>3, <1>4, <1>6 DEF OrderlyInv, Freed, Moved
<1>9. OneEntry' /\ OwnSlots'
  BY <1>1, <1>2 DEF OrderlyInv, OneEntry, OwnSlots, Moved
<1>10. Inserting'
  BY <1>1, <1>2, <1>4 DEF OrderlyInv, Inserting, Of, Moved
<1>11. Owned'
  <2> SUFFICES ASSUME NEW n \in Mutexes, NEW u \in Ids, holder'[n] = u, ~InHook(u, n)'
               PROVE  \E i \in Used : i \in Of(n) /\ locklist[i].id = u
    BY <1>1 DEF Owned, Of
  <2>1. n # m /\ holder[n] = u
    BY <1>3, ZeroAssumption
  <2>2. ~InHook(u, n)
    BY <1>1, <1>2, <1>4 DEF InHook, Moved
  <2> QED
    BY <2>1, <2>2 DEF OrderlyInv, Owned
<1>12. Counted'
  <2>1. \A u \in Ids : InTurn(u)' => u # t /\ InTurn(u)
    BY <1>1, <1>2 DEF InTurn, Moved
  <2>2. \A n \in Mutexes : Idle(n)' => Idle(n)
    BY <1>1, <1>2, <1>3, <1>4 DEF Idle, Moved
  <2> QED
    BY <1>1, <1>2, <1>4, <2>1, <2>2 DEF OrderlyInv, Counted, Of, Moved
<1>13. Pointing'
  BY <1>1, <1>2, <1>4 DEF OrderlyInv, Pointing, Of, Moved
<1> QED
  BY <1>7, <1>8, <1>9, <1>10, <1>11, <1>12, <1>13 DEF OrderlyInv

LEMMA UnlockKeepsOrder ==
    ASSUME TableInv, OrderlyInv, NEW t \in Ids, unlock_after(t)
    PROVE  OrderlyInv'
<1> DEFINE m == want[t]
<1>1. /\ pc[t] = "unlocked" /\ Goes(t, "run")
      /\ UNCHANGED <<ids, next, lockidx, holder, want, slot, overtaken>> /\ Used' = Used
  BY DEF unlock_after, tg, Used
<1>2. Moved(t, "run")
  BY <1>1, GoesMoves DEF TableInv, Places
<1>3. m \in Mutexes /\ holder[m] = Nobody
  BY <1>1 DEF TableInv, InCalls, OrderlyInv, Freed
<1>4. Apart' /\ Freed' /\ OwnSlots'
  BY <1>1, <1>2 DEF OrderlyInv, Apart, Freed, OwnSlots, Moved
<1>5. \A u \in Ids : \A n \in Mutexes : holder[n] = u /\ ~InHook(u, n)' => ~InHook(u, n)
  BY <1>1, <1>2, <1>3, ZeroAssumption DEF InHook, Moved
<1>6. /\ \A u \in Ids : InTurn(u)' => u # t /\ InTurn(u)
      /\ \A n \in Mutexes \ {m} : Idle(n)' => Idle(n)
  BY <1>1, <1>2 DEF InTurn, Idle, Moved
<1>7. Of(m) \subseteq Used
  <2>1. \A u \in Ids : pc[u] = "inc" => want[u] # m
    BY <1>3, ZeroAssumption DEF TableInv, InCalls
  <2> QED
    BY <1>3, <2>1, EntriesInReach
<1>8. CASE /\ locklist' = locklist
           /\ \A i \in Used : locklist[i].lock_id = m =>
                  \E j \in Used : locklist[j].lock_id = m /\ locklist[j].degress # 0
  <2>1. OneEntry' /\ Inserting' /\ Owned'
    BY <1>1, <1>2, <1>5, <1>8 DEF OrderlyInv, OneEntry, Inserting, Owned, Of, Moved
  <2>2. Counted'
    <3>1. ASSUME NEW i \in Of(m) PROVE i \in Used /\ locklist[i].degress > 0
      <4>1. i \in Used /\ i \in 1..MAX /\ locklist[i].lock_id = m
        BY <1>7, <3>1 DEF Of
      <4>2. PICK j \in Used : locklist[j].lock_id = m /\ locklist[j].degress # 0
        BY <1>8, <4>1
      <4>3. j \in 1..MAX
        BY RoomLeft, MAXAssumption DEF Used
      <4>4. i = j
        BY <1>3, <4>1, <4>2, <4>3 DEF OrderlyInv, OneEntry
      <4>5. locklist[i].degress >= 0 /\ locklist[i].degress \in Int
        BY <4>1 DEF OrderlyInv, Counted, TableInv, HooksTypeOK, Entries
      <4> QED
        BY <4>1, <4>2, <4>4, <4>5
    <3>2. \A n : Of(n)' = Of(n)
      BY <1>8 DEF Of
    <3> QED
      BY <1>1, <1>2, <1>8, <1>6, <3>1, <3>2 DEF OrderlyInv, Counted, Moved
  <2>3. Pointing'
    BY <1>1, <1>2, <1>8 DEF OrderlyInv, Pointing, Of, Moved
  <2> QED
    BY <1>4, <2>1, <2>3, <2>2 DEF OrderlyInv
<1>9. ASSUME NEW s \in Used, s \in 1..MAX, locklist[s].lock_id = m, locklist[s].degress = 0,
             locklist'[s].lock_id = NoLock, locklist'[s].degress = 0,
             \A j \in 1..MAX \ {s} : locklist'[j] = locklist[j]
      PROVE  OrderlyInv'
  <2>1. s \in Of(m) /\ locklist'[s].lock_id \notin Mutexes
    BY <1>9, ZeroAssumption DEF Of
  <2> HIDE DEF m
  <2>2. \A u \in Ids : pc[u] \in {"insert", "inc", "adopt"} \/ InTurn(u) =>
            want[u] \in Mutexes \ {m}
    <3> SUFFICES ASSUME NEW u \in Ids, pc[u] \in {"insert", "inc", "adopt"} \/ InTurn(u)
                 PROVE  want[u] \in Mutexes /\ want[u] # m
      OBVIOUS
    <3>1. want[u] \in Mutexes /\ (pc[u] # "waiting" => holder[want[u]] = u)
      BY DEF TableInv, InCalls, InTurn
    <3>2. CASE pc[u] = "waiting"
      <4>1. \A i \in Of(want[u]) : locklist[i].degress > 0
        BY <3>2 DEF OrderlyInv, Counted, InTurn
      <4>2. want[u] # m
        BY <1>9, <2>1, <4>1
      <4> QED
        BY <3>1, <4>2
    <3> QED
      BY <1>3, <3>1, <3>2, ZeroAssumption
  <2>3. \A n \in Mutexes \ {m} : s \notin Of(n) /\ {i \in 1..MAX : locklist'[i].lock_id = n} = Of(n)
    <3> SUFFICES ASSUME NEW n \in Mutexes \ {m}
                 PROVE  s \notin Of(n) /\ {i \in 1..MAX : locklist'[i].lock_id = n} = Of(n)
      OBVIOUS
    <3>1. \A i \in 1..MAX : locklist'[i].lock_id = n <=> locklist[i].lock_id = n
      BY <1>9, <2>1
    <3> QED
      BY <1>9, <3>1 DEF Of
  <2>4. \A n \in Mutexes \ {m} : \A i \in Of(n) : i \in 1..MAX /\ locklist'[i] = locklist[i]
    BY <1>9, <2>3 DEF Of
  <2>5. \A u \in Ids : Of(want[u])' = {i \in 1..MAX : locklist'[i].lock_id = want[u]}
    BY <1>1 DEF Of
  <2>6. OneEntry'
    BY <1>9, <2>1 DEF OrderlyInv, OneEntry
  <2>7. Inserting'
    <3> SUFFICES ASSUME NEW u \in Ids, pc'[u] \in {"insert", "inc"}
                 PROVE  /\ pc'[u] = "insert" => Of(want[u])' = {} /\ locklist'[slot[u]].lock_id \notin Mutexes
                        /\ pc'[u] = "inc" => locklist'[slot[u]].lock_id = want[u] /\ locklist'[slot[u]].id = u
      BY <1>1 DEF Inserting
    <3>1. u # t /\ pc[u] = pc'[u] /\ want[u] \in Mutexes \ {m}
      BY <1>2, <2>2 DEF Moved
    <3>2. slot[u] \in 1..MAX
      BY <3>1, RoomLeft, MAXAssumption DEF TableInv, InCalls, Counting
    <3>3. slot[u] = s \/ locklist'[slot[u]] = locklist[slot[u]]
      BY <1>9, <3>2
    <3>4. pc[u] = "inc" => slot[u] # s
      BY <1>9, <3>1 DEF OrderlyInv, Inserting
    <3> QED
      BY <2>1, <2>3, <2>5, <3>1, <3>3, <3>4 DEF OrderlyInv, Inserting
  <2>8. Owned'
    <3> SUFFICES ASSUME NEW n \in Mutexes, NEW u \in Ids, holder[n] = u, ~InHook(u, n)'
                 PROVE  \E i \in Used : i \in Of(n)' /\ locklist'[i].id = u
      BY <1>1 DEF Owned
    <3>1. n # m /\ ~InHook(u, n)
      BY <1>3, <1>5, ZeroAssumption
    <3>2. PICK i \in Used : i \in Of(n) /\ locklist[i].id = u
      BY <3>1 DEF OrderlyInv, Owned
    <3>3. Of(n)' = Of(n)
      BY <2>3, <3>1 DEF Of
    <3> QED
      BY <2>4, <3>1, <3>2, <3>3
  <2>9. Counted'
    <3>1. \A i \in 1..MAX : locklist'[i].degress >= 0
      BY <1>9 DEF OrderlyInv, Counted
    <3>2. ASSUME NEW u \in Ids, InTurn(u)', NEW i \in Of(want[u])'
          PROVE  i \in Used /\ locklist'[i].degress > 0
      <4>1. InTurn(u) /\ want[u] \in Mutexes \ {m}
        BY <1>6, <2>2, <3>2
      <4>2. i \in Of(want[u]) /\ locklist'[i] = locklist[i]
        BY <2>3, <2>4, <2>5, <3>2, <4>1
      <4> QED
        BY <3>2, <4>1, <4>2 DEF OrderlyInv, Counted
    <3>3. ASSUME NEW u \in Ids, pc'[u] = "adopt"
          PROVE  locklist'[slot[u]].lock_id = want[u] /\ locklist'[slot[u]].degress > 0
      <4>1. u # t /\ pc[u] = "adopt"
        BY <1>2, <3>3 DEF Moved
      <4>2. /\ locklist[slot[u]].lock_id = want[u] /\ locklist[slot[u]].degress > 0
            /\ slot[u] \in 1..MAX
        BY <4>1, RoomLeft, MAXAssumption DEF OrderlyInv, Counted, TableInv, InCalls, Used
      <4>3. slot[u] # s
        BY <1>9, <4>2
      <4> QED
        BY <1>9, <4>2, <4>3
    <3>4. \A i \in 1..MAX : locklist'[i].lock_id # m
      <4>1. \A i \in Of(m) : i = s
        BY <1>3, <1>9 DEF OrderlyInv, OneEntry, Of
      <4> QED
        BY <1>3, <1>9, <2>1, <4>1 DEF Of
    <3>5. ASSUME NEW n \in Mutexes, Idle(n)', NEW i \in Of(n)'
          PROVE  i \in Used /\ locklist'[i].degress > 0
      <4>1. n \in Mutexes \ {m} /\ Idle(n)
        BY <1>6, <3>4, <3>5 DEF Of
      <4>2. i \in Of(n) /\ locklist'[i] = locklist[i]
        BY <2>3, <2>4, <3>5, <4>1 DEF Of
      <4> QED
        BY <4>1, <4>2 DEF OrderlyInv, Counted
    <3> QED
      BY <1>1, <3>1, <3>2, <3>3, <3>5 DEF Counted
  <2>10. Pointing'
    <3> SUFFICES ASSUME NEW u \in Ids \ overtaken
                 PROVE  /\ pc'[u] \notin {"waiting", "locked", "adopt"} => next[u] = <<>>
                        /\ pc'[u] \in {"waiting", "locked", "adopt"} =>
                               /\ Of(want[u])' = {} => next[u] = <<>>
                               /\ \A i \in Of(want[u])' :
                                      next[u] = IF locklist'[i].id = u THEN <<>> ELSE <<locklist'[i].id>>
      BY <1>1 DEF Pointing
    <3>1. CASE pc'[u] \in {"waiting", "locked", "adopt"}
      <4>1. pc[u] = pc'[u] /\ want[u] \in Mutexes \ {m}
        BY <1>2, <2>2, <3>1 DEF Moved, InTurn
      <4>2. Of(want[u])' = Of(want[u]) /\ \A i \in Of(want[u]) : locklist'[i] = locklist[i]
        BY <2>3, <2>4, <2>5, <4>1
      <4> QED
        BY <3>1, <4>1, <4>2 DEF OrderlyInv, Pointing
    <3>2. CASE pc'[u] \notin {"waiting", "locked", "adopt"}
      BY <1>1, <1>2, <3>2 DEF Moved, OrderlyInv, Pointing
    <3> QED
      BY <3>1, <3>2
  <2> QED
    BY <1>4, <2>6, <2>7, <2>8, <2>9, <2>10 DEF OrderlyInv
<1> QED
  BY <1>8, <1>9, Clearing DEF m
-----------------------------------------------------------------------------
LEMMA HooksStart == ASSUME HooksInit PROVE HooksInv
<1>1. /\ ids = <<>> /\ next = [t \in Ids |-> <<>>] /\ locklist \in Junk /\ lockidx = 0
      /\ holder = [m \in Mutexes |-> Nobody] /\ pc = [t \in Ids |-> "run"]
      /\ want = [t \in Ids |-> NoLock] /\ slot = [t \in Ids |-> 0]
      /\ calls = 0 /\ overlapped = FALSE /\ overtaken = {}
  BY DEF HooksInit
<1>2. \A i \in 1..MAX : locklist[i] \in [id : Ids \cup {Nobody}, lock_id : Leftovers, degress : Nat]
  BY <1>1, JunkAssumption
<1>3. \A i \in 1..MAX : locklist[i].lock_id \notin Mutexes /\ locklist[i].degress \in Nat
  BY <1>2 DEF Leftovers
<1>4. locklist \in [1..MAX -> Entries]
  <2>1. [id : Ids \cup {Nobody}, lock_id : Leftovers, degress : Nat] \subseteq Entries
    BY DEF Entries
  <2>2. locklist \in [1..MAX -> [id : Ids \cup {Nobody}, lock_id : Leftovers, degress : Nat]]
    BY <1>1, JunkAssumption
  <2> QED
    BY <2>1, <2>2
<1>5. HooksTypeOK
  <2>1. ids \in Seq(Ids) /\ next \in [Ids -> Seq(Ids)]
    BY <1>1
  <2>2. 0 \in 0..MAX
    BY MAXAssumption
  <2> QED
    BY <1>1, <1>4, <2>1, <2>2 DEF HooksTypeOK
<1>6. IsGraph
  <2>1. IsInjective(<<>>)
    BY DEF IsInjective
  <2> DEFINE g == [ids |-> ids, next |-> next]
  <2>2. g.ids = <<>> /\ \A a \in Ids : g.next[a] = <<>>
    BY <1>1
  <2>3. g \in [ids : Seq(Ids), next : [Ids -> Seq(Ids)]]
    BY <1>1
  <2> HIDE DEF g
  <2>4. g \in Graphs
    BY <2>1, <2>2, <2>3 DEF Graphs
  <2> QED
    BY <2>4 DEF g, IsGraph
<1>7. TableSuffices
  <2>1. Lockers = {}
    BY <1>1 DEF Lockers
  <2> QED
    BY <1>1, <2>1, FS_EmptySet DEF TableSuffices
<1>8. InCalls /\ HaveOwners /\ EveryEntryIsReached
  BY <1>1, <1>3 DEF InCalls, HaveOwners, EveryEntryIsReached
<1>9. Apart /\ Freed /\ OneEntry /\ OwnSlots /\ Inserting /\ Counted /\ Pointing
  BY <1>1, <1>3 DEF Apart, Freed, OneEntry, OwnSlots, Inserting, Counted, InTurn, Of, Pointing
<1>10. Owned
  BY <1>1, ZeroAssumption DEF Owned
<1> QED
  BY <1>5, <1>6, <1>7, <1>8, <1>9, <1>10 DEF HooksInv, TableInv, OrderlyInv

LEMMA HooksKeep == ASSUME HooksInv, NEW t \in Ids, Hooks(t) PROVE HooksInv'
<1>1. TableInv /\ overlapped \in BOOLEAN /\ (~overlapped => OrderlyInv)
  BY DEF HooksInv, TableInv, HooksTypeOK
<1>2. ASSUME NEW m \in Mutexes, lock_before(t, m) PROVE HooksInv'
  <2>1. ~overlapped' => ~overlapped
    BY <1>2 DEF lock_before
  <2> QED
    BY <1>1, <1>2, <2>1, BeforeKeepsTable, BeforeKeepsOrder DEF HooksInv
<1>3. ASSUME NEW m \in Mutexes, Release(t, m) PROVE HooksInv'
  <2>1. overlapped' = overlapped
    BY <1>3 DEF Release
  <2> QED
    BY <1>1, <1>3, <2>1, ReleaseKeepsTable, ReleaseKeepsOrder DEF HooksInv
<1>4. CASE Acquire(t)
  <2>1. ~overlapped' => ~overlapped
    BY <1>4 DEF Acquire
  <2> QED
    BY <1>1, <1>4, <2>1, AcquireKeepsTable, AcquireKeepsOrder DEF HooksInv
<1>5. CASE lock_after(t)
  <2>1. ~overlapped' => ~overlapped
    BY <1>5 DEF lock_after
  <2> QED
    BY <1>1, <1>5, <2>1, AfterKeepsTable, AfterKeepsOrder DEF HooksInv
<1>6. CASE Insert(t)
  <2>1. overlapped' = overlapped
    BY <1>6 DEF Insert
  <2> QED
    BY <1>1, <1>6, <2>1, InsertKeepsTable, InsertKeepsOrder DEF HooksInv
<1>7. CASE Inc(t)
  <2>1. overlapped' = overlapped
    BY <1>7 DEF Inc
  <2> QED
    BY <1>1, <1>7, <2>1, IncKeepsTable, IncKeepsOrder DEF HooksInv
<1>8. CASE Adopt(t)
  <2>1. overlapped' = overlapped
    BY <1>8 DEF Adopt
  <2> QED
    BY <1>1, <1>8, <2>1, AdoptKeepsTable, AdoptKeepsOrder DEF HooksInv
<1>9. CASE unlock_after(t)
  <2>1. overlapped' = overlapped
    BY <1>9 DEF unlock_after
  <2> QED
    BY <1>1, <1>9, <2>1, UnlockKeepsTable, UnlockKeepsOrder DEF HooksInv
<1> QED
  BY <1>2, <1>3, <1>4, <1>5, <1>6, <1>7, <1>8, <1>9 DEF Hooks

LEMMA HooksInvariance == HooksSpec => []HooksInv
<1>1. HooksInv /\ [HooksNext]_hookVars => HooksInv'
  <2> SUFFICES ASSUME HooksInv, [HooksNext]_hookVars PROVE HooksInv'
    OBVIOUS
  <2>1. CASE HooksNext
    BY <2>1, HooksKeep DEF HooksNext
  <2>2. CASE UNCHANGED hookVars
    <3>1. UNCHANGED <<ids, next, locklist, lockidx, holder, pc, want, slot, calls, overlapped, overtaken>>
      BY <2>2 DEF hookVars, tg
    <3>2. TableInv' = TableInv
      BY <3>1 DEF TableInv, HooksTypeOK, IsGraph, TableSuffices, Lockers, InCalls, HaveOwners,
         EveryEntryIsReached, Used
    <3>3. OrderlyInv' = OrderlyInv
      BY <3>1 DEF OrderlyInv, Apart, Freed, OneEntry, OwnSlots, Inserting, Owned, InHook, Counted,
         InTurn, Idle, Pointing, Of, Used
    <3> QED
      BY <3>1, <3>2, <3>3 DEF HooksInv
  <2> QED
    BY <2>1, <2>2
<1> QED
  BY <1>1, HooksStart, PTL DEF HooksSpec

(* The table, the graph and the threads' places have their types. *)
THEOREM HooksTypesHold == HooksSpec => []HooksTypeOK
<1>1. HooksInv => HooksTypeOK
  BY DEF HooksInv, TableInv
<1> QED
  BY <1>1, HooksInvariance, PTL

(* However the hooks interleave, every entry is found by the scans, or its *)
(* writer is about to count it.                                            *)
THEOREM EntriesAreReached == HooksSpec => []EveryEntryIsReached
<1>1. HooksInv => EveryEntryIsReached
  BY DEF HooksInv, TableInv
<1> QED
  BY <1>1, HooksInvariance, PTL

(* The table names every mutex's holder, unless hooks have raced for an    *)
(* entry, however many threads wait and hand the entry on.                 *)
THEOREM TableNamesOwners == HooksSpec => []OwnersAreListed
<1>1. HooksInv => OwnersAreListed
  <2> SUFFICES ASSUME HooksInv, ~overlapped, NEW m \in Mutexes, NEW t \in Ids,
                      holder[m] = t, ~InHook(t, m)
               PROVE  \E i \in Used : /\ locklist[i].id = t
                                      /\ \A j \in Used : locklist[j].lock_id = m <=> j = i
    BY DEF OwnersAreListed
  <2>1. OneEntry /\ \E i \in Used : i \in Of(m) /\ locklist[i].id = t
    BY DEF HooksInv, OrderlyInv, Owned
  <2>2. PICK i \in Used : i \in Of(m) /\ locklist[i].id = t
    BY <2>1
  <2>3. Used \subseteq 1..MAX
    BY RoomLeft, MAXAssumption DEF HooksInv, Used
  <2>4. \A j \in Used : locklist[j].lock_id = m <=> j = i
    BY <2>1, <2>2, <2>3 DEF OneEntry, Of
  <2> QED
    BY <2>2, <2>4
<1> QED
  BY <1>1, HooksInvariance, PTL

(* Unless they have, the graph has exactly one edge for a thread that is   *)
(* blocked, to the holder, and none for a thread that is in no call of     *)
(* lock, if the thread never waited while another got the mutex: what the  *)
(* search reports or not is about real waits, as long as it meets no other. *)
THEOREM GraphShowsBlocks == HooksSpec => []EdgesAreBlocks
<1>1. HooksInv => EdgesAreBlocks
  <2> SUFFICES ASSUME HooksInv, ~overlapped, NEW t \in Ids \ overtaken PROVE EdgeIsBlock(t)
    BY DEF EdgesAreBlocks
  <2>1. TableInv /\ OrderlyInv
    BY DEF HooksInv
  <2>2. /\ pc[t] \notin {"waiting", "locked", "adopt"} => next[t] = <<>>
        /\ pc[t] \in {"waiting", "locked", "adopt"} =>
               /\ Of(want[t]) = {} => next[t] = <<>>
               /\ \A i \in Of(want[t]) :
                      next[t] = IF locklist[i].id = t THEN <<>> ELSE <<locklist[i].id>>
    BY <2>1 DEF OrderlyInv, Pointing
  <2>3. ASSUME pc[t] = "waiting", holder[want[t]] # Nobody
        PROVE  holder[want[t]] \in ToSet(next[t])
    <3> DEFINE u == holder[want[t]]
    <3>1. u \in Ids /\ u # t /\ want[t] \in Mutexes
      BY <2>1, <2>3 DEF TableInv, InCalls, HooksTypeOK
    <3>2. ~InHook(u, want[t])
      BY <2>1, <2>3, <3>1 DEF OrderlyInv, Apart, Freed, InHook, TableInv, InCalls
    <3>3. PICK i \in Used : i \in Of(want[t]) /\ locklist[i].id = u
      BY <2>1, <3>1, <3>2 DEF OrderlyInv, Owned
    <3> HIDE DEF u
    <3>4. next[t] = <<u>>
      BY <2>2, <2>3, <3>1, <3>3
    <3>5. u \in ToSet(<<u>>)
      BY DEF ToSet
    <3> QED
      BY <3>4, <3>5 DEF u
  <2>4. Len(next[t]) <= 1
    <3>1. next[t] = <<>> \/ \E i \in 1..MAX : next[t] = <<locklist[i].id>>
      BY <2>2 DEF Of
    <3>2. Len(<<>>) = 0 /\ \A x : Len(<<x>>) = 1
      OBVIOUS
    <3>3. CASE next[t] = <<>>
      BY <3>2, <3>3
    <3>4. ASSUME NEW x, next[t] = <<x>> PROVE Len(next[t]) <= 1
      BY <3>2, <3>4
    <3> QED
      BY <3>1, <3>3, <3>4
  <2> QED
    BY <2>2, <2>3, <2>4 DEF EdgeIsBlock
<1> QED
  BY <1>1, HooksInvariance, PTL

(* Among blocked threads that were never overtaken the cycles of the graph *)
(* are exactly the deadlocks, unless hooks have raced: what check_dead_lock *)
(* finds when the deadlocked threads have come to rest is one, and it finds *)
(* every one.                                                              *)
Blocked(t) == pc[t] = "waiting" /\ holder[want[t]] # Nobody

Deadlocked(D) == D # {} /\ \A t \in D : holder[want[t]] \in D

CyclesAreDeadlocks ==
    ~overlapped => \A D \in SUBSET (Ids \ overtaken) : (\A t \in D : Blocked(t)) => (CycleSet(D) <=> Deadlocked(D))

THEOREM DeadlocksAreCycles == HooksSpec => []CyclesAreDeadlocks
<1>1. HooksTypeOK /\ EdgesAreBlocks => CyclesAreDeadlocks
  <2> SUFFICES ASSUME HooksTypeOK, EdgesAreBlocks, ~overlapped,
                      NEW D \in SUBSET (Ids \ overtaken), \A t \in D : Blocked(t)
               PROVE  CycleSet(D) <=> Deadlocked(D)
    BY DEF CyclesAreDeadlocks
  <2>1. ASSUME NEW t \in D PROVE ToSet(next[t]) = {holder[want[t]]}
    <3>1. holder[want[t]] \in ToSet(next[t]) /\ Len(next[t]) <= 1 /\ next[t] \in Seq(Ids)
      BY DEF Blocked, EdgesAreBlocks, EdgeIsBlock, HooksTypeOK
    <3> QED
      BY <3>1 DEF ToSet
  <2> QED
    BY <2>1 DEF CycleSet, Deadlocked
<1> QED
  BY <1>1, HooksTypesHold, GraphShowsBlocks, PTL
=============================================================================
