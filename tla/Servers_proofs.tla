--------------------------- MODULE Servers_proofs ---------------------------
(***************************************************************************)
(* Theorems about the servers: Reactor and WebSocket for any number of     *)
(* connections and descriptors, any block and buffer size, and any streams *)
(* of the clients, and the road-side unit session of RsuSession for any    *)
(* connections and any lengths of messages.                                *)
(***************************************************************************)
EXTENDS WebSocket, RsuSession, SequenceTheorems, WellFoundedInduction, TLAPS

(* The listener's record never changes. *)
ListenerInv ==
    /\ open[listener] = NoConn
    /\ interest[listener] = "in"
    /\ ev[listener].events = "in"
    /\ ev[listener].callback = "accept_cb"

(* No event is about a closed descriptor. *)
EventsAreOpen == \A e \in batch : e.fd = listener \/ open[e.fd] # NoConn

(* TypeOK, for buffers that hold elements of B: what the callbacks put     *)
(* into them makes no difference to the records and the epoll set.         *)
Record(B) == [events : {"none", "in", "out"}, status : {0, 1}, buffer : Seq(B),
              callback : {"null", "accept_cb", "recv_cb", "send_cb"}]

Typed(B) ==
    /\ peer \in [Conns -> {"new", "open", "fin", "reset", "broken"}]
    /\ sent \in [Conns -> 0..MaxSend]
    /\ inbox \in [Conns -> Seq(Bytes)]
    /\ echoed \in [Conns -> Seq(B)]
    /\ backlog \in Seq(Conns)
    /\ open \in [Fds -> Conns \cup {NoConn}]
    /\ interest \in [Fds -> {"none", "in", "out"}]
    /\ ev \in [Fds -> Record(B)]
    /\ blkcnt \in Nat
    /\ batch \subseteq [fd : Fds, mask : {"in", "out"}, of : Conns \cup {NoConn}]
    /\ alive \in BOOLEAN
    /\ cut \subseteq Conns
    /\ full \subseteq Conns

Shaped(B) == Typed(B) /\ HaveRecords

Structure(B) == Shaped(B) /\ RecordsMatch /\ EventsAreCurrent /\ ListenerInv /\ EventsAreOpen

WellFormed == TypeOK /\ HaveRecords

IInv == WellFormed /\ RecordsMatch /\ EventsAreCurrent /\ ListenerInv /\ EventsAreOpen

LEMMA OfBytes == IInv <=> Structure(Bytes)
BY DEF IInv, Structure, WellFormed, Shaped, TypeOK, Typed, Record
-----------------------------------------------------------------------------
(* The parts of a sequence are sequences. *)
LEMMA Parts ==
    ASSUME NEW S, NEW s \in Seq(S), NEW n \in 0..Len(s)
    PROVE  SubSeq(s, 1, n) \in Seq(S) /\ SubSeq(s, n + 1, Len(s)) \in Seq(S)
<1>1. Len(s) \in Nat /\ \A i \in 1..Len(s) : s[i] \in S
  OBVIOUS
<1>2. SubSeq(s, 1, n) \in Seq(S)
  <2>1. \A i \in 1..n : s[i] \in S
    BY <1>1
  <2> QED
    BY <2>1, SubSeqProperties
<1>3. SubSeq(s, n + 1, Len(s)) \in Seq(S)
  <2>1. \A i \in (n + 1)..Len(s) : s[i] \in S
    BY <1>1
  <2> QED
    BY <1>1, <2>1, SubSeqProperties
<1> QED
  BY <1>2, <1>3

LEMMA BlockIndex == ASSUME NEW f \in Fds
                    PROVE  f \div MAX_EPOLL_EVENTS \in Nat
BY ReactorAssumption DEF Fds

(* What a callback of f does to the record and the epoll set concerns f    *)
(* alone; the events left in the batch are about other descriptors.        *)
LEMMA TurnAroundKeeps ==
    ASSUME NEW B, Structure(B), NEW e \in batch, batch' = batch \ {e}, e.fd # listener,
           NEW b \in Seq(B),
           NEW p \in {<<"in", "recv_cb">>, <<"out", "send_cb">>},
           TurnAround(e.fd, [ev[e.fd] EXCEPT !.buffer = b], p[2], p[1]),
           open' = open, blkcnt' = blkcnt
    PROVE  /\ ev' \in [Fds -> Record(B)]
           /\ interest' \in [Fds -> {"none", "in", "out"}]
           /\ RecordsMatch' /\ EventsAreCurrent' /\ ListenerInv' /\ EventsAreOpen'
           /\ ev'[e.fd].callback = p[2] /\ ev'[e.fd].buffer = b
           /\ \A g \in Fds : g # e.fd => ev'[g] = ev[g]
<1> DEFINE f == e.fd
           r == [ev[e.fd] EXCEPT !.buffer = b]
           mask == p[1]
           cb == p[2]
           q == nty_event_add(nty_event_set(nty_event_del(r), cb), mask)
<1>1. /\ f \in Fds /\ open[f] # NoConn /\ ev[f] \in Record(B) /\ ev[f].status = 1
      /\ \A d \in batch : d.fd = f => d = e
      /\ batch \subseteq [fd : Fds, mask : {"in", "out"}, of : Conns \cup {NoConn}]
      /\ ev \in [Fds -> Record(B)] /\ interest \in [Fds -> {"none", "in", "out"}]
  BY DEF Structure, Shaped, Typed, HaveRecords, RecordsMatch, EventsAreCurrent, EventsAreOpen, Record
<1>2. /\ r \in Record(B) /\ r.status = 1 /\ r.buffer = b
  BY <1>1 DEF Record
<1>3. /\ mask \in {"in", "out"} /\ cb \in {"recv_cb", "send_cb"}
      /\ <<mask, cb>> \in {<<"in", "recv_cb">>, <<"out", "send_cb">>}
  OBVIOUS
<1>4. /\ ev' = [ev EXCEPT ![f] = q]
      /\ interest' = [interest EXCEPT ![f] = AfterAdd(nty_event_del(r),
                                                     AfterDel(r, interest[f]), mask)]
  BY DEF TurnAround
<1> HIDE DEF r, mask, cb
<1>5. /\ q \in Record(B) /\ q.status = 1 /\ q.events = mask /\ q.callback = cb /\ q.buffer = b
      /\ interest' = [interest EXCEPT ![f] = mask]
  <2>1. /\ nty_event_del(r) \in Record(B) /\ nty_event_del(r).status = 0
        /\ nty_event_del(r).buffer = b
    BY <1>2 DEF nty_event_del, Record
  <2> DEFINE d == nty_event_del(r)
             s == nty_event_set(d, cb)
  <2>2. d \in Record(B) /\ d.buffer = b
    BY <2>1
  <2> HIDE DEF d
  <2>3. s \in Record(B) /\ s.callback = cb /\ s.buffer = b
    BY <1>3, <2>2 DEF nty_event_set, Record
  <2> HIDE DEF s
  <2>4. LET t == nty_event_add(s, mask)
        IN  t \in Record(B) /\ t.status = 1 /\ t.events = mask /\ t.callback = cb /\ t.buffer = b
    BY <1>3, <2>3 DEF nty_event_add, Record
  <2>5. AfterDel(r, interest[f]) = "none"
    BY <1>2 DEF AfterDel
  <2>6. AfterAdd(nty_event_del(r), "none", mask) = mask
    BY <2>1 DEF AfterAdd
  <2> QED
    BY <1>4, <2>4, <2>5, <2>6 DEF d, s
<1> HIDE DEF q
<1>6. ev' \in [Fds -> Record(B)] /\ interest' \in [Fds -> {"none", "in", "out"}]
  BY <1>1, <1>3, <1>4, <1>5
<1>7. RecordsMatch'
  <2> SUFFICES ASSUME NEW g \in Fds \ {listener}
               PROVE  IF open[g] = NoConn
                        THEN interest'[g] = "none" /\ ev'[g].status = 0
                        ELSE /\ ev'[g].status = 1
                             /\ interest'[g] = ev'[g].events
                             /\ <<ev'[g].events, ev'[g].callback>>
                                  \in {<<"in", "recv_cb">>, <<"out", "send_cb">>}
    BY DEF RecordsMatch
  <2>1. CASE g = f
    BY <1>1, <1>3, <1>4, <1>5, <2>1
  <2>2. CASE g # f
    <3>1. ev'[g] = ev[g] /\ interest'[g] = interest[g]
      BY <1>1, <1>4, <1>5, <2>2
    <3> QED
      BY <3>1 DEF Structure, RecordsMatch
  <2> QED
    BY <2>1, <2>2
<1>8. ASSUME NEW d \in batch'
      PROVE  d \in batch /\ d.fd # f /\ ev'[d.fd] = ev[d.fd]
  BY <1>1, <1>4
<1>9. EventsAreCurrent' /\ EventsAreOpen'
  BY <1>8 DEF Structure, EventsAreCurrent, EventsAreOpen
<1>10. ListenerInv'
  BY <1>1, <1>4, <1>5 DEF Structure, ListenerInv, Fds, listener
<1>11. /\ ev'[f].callback = cb /\ ev'[f].buffer = b
       /\ \A g \in Fds : g # f => ev'[g] = ev[g]
  BY <1>1, <1>4, <1>5
<1> QED
  BY <1>6, <1>7, <1>9, <1>10, <1>11 DEF cb

LEMMA CloseKeeps ==
    ASSUME NEW B, Structure(B), NEW e \in batch, batch' = batch \ {e}, e.fd # listener,
           CloseFd(e.fd), UNCHANGED blkcnt
    PROVE  /\ ev' \in [Fds -> Record(B)]
           /\ interest' \in [Fds -> {"none", "in", "out"}]
           /\ open' \in [Fds -> Conns \cup {NoConn}]
           /\ \A f \in Fds : open'[f] # NoConn => open[f] = open'[f] /\ ev[f] = ev'[f]
           /\ RecordsMatch' /\ EventsAreCurrent' /\ ListenerInv' /\ EventsAreOpen'
<1> DEFINE f == e.fd
<1>1. /\ f \in Fds /\ ev[f] \in Record(B) /\ f # listener
      /\ \A d \in batch : d.fd = f => d = e
      /\ batch \subseteq [fd : Fds, mask : {"in", "out"}, of : Conns \cup {NoConn}]
      /\ ev \in [Fds -> Record(B)] /\ interest \in [Fds -> {"none", "in", "out"}]
      /\ open \in [Fds -> Conns \cup {NoConn}]
  BY DEF Structure, Shaped, Typed, HaveRecords, EventsAreCurrent, Record
<1>2. /\ ev' = [ev EXCEPT ![f] = nty_event_del(ev[f])]
      /\ open' = [open EXCEPT ![f] = NoConn]
      /\ interest' = [interest EXCEPT ![f] = "none"]
  BY DEF CloseFd, Closed
<1>3. nty_event_del(ev[f]) \in Record(B) /\ nty_event_del(ev[f]).status = 0
  BY <1>1 DEF nty_event_del, Record
<1>4. \A g \in Fds : g # f => ev'[g] = ev[g] /\ open'[g] = open[g] /\ interest'[g] = interest[g]
  BY <1>1, <1>2
<1>5. ev'[f].status = 0 /\ open'[f] = NoConn /\ interest'[f] = "none"
  BY <1>1, <1>2, <1>3
<1>6. RecordsMatch'
  <2> SUFFICES ASSUME NEW g \in Fds \ {listener}
               PROVE  IF open'[g] = NoConn
                        THEN interest'[g] = "none" /\ ev'[g].status = 0
                        ELSE /\ ev'[g].status = 1
                             /\ interest'[g] = ev'[g].events
                             /\ <<ev'[g].events, ev'[g].callback>>
                                  \in {<<"in", "recv_cb">>, <<"out", "send_cb">>}
    BY DEF RecordsMatch
  <2>1. CASE g = f
    BY <1>5, <2>1
  <2>2. CASE g # f
    BY <1>4, <2>2 DEF Structure, RecordsMatch
  <2> QED
    BY <2>1, <2>2
<1>7. ASSUME NEW d \in batch'
      PROVE  d \in batch /\ d.fd # f /\ d.fd \in Fds
  BY <1>1
<1>8. EventsAreCurrent' /\ EventsAreOpen'
  BY <1>4, <1>7 DEF Structure, EventsAreCurrent, EventsAreOpen
<1>9. ListenerInv'
  BY <1>1, <1>4, ReactorAssumption DEF Structure, ListenerInv, Fds, listener
<1>10. /\ ev' \in [Fds -> Record(B)]
       /\ interest' \in [Fds -> {"none", "in", "out"}]
       /\ open' \in [Fds -> Conns \cup {NoConn}]
  BY <1>1, <1>2, <1>3
<1> QED
  BY <1>4, <1>5, <1>6, <1>8, <1>9, <1>10
-----------------------------------------------------------------------------
(* accept takes a closed descriptor, so no event left is about it. *)
LEMMA AcceptKeeps ==
    ASSUME NEW B, Structure(B), NEW e \in batch, batch' = batch \ {e}, accept_cb, UNCHANGED <<alive, cut>>
    PROVE Structure(B)'
<1>1. CASE UNCHANGED <<netVars, interest, ev, blkcnt>>
  BY <1>1 DEF Structure, Shaped, Typed, HaveRecords, RecordsMatch, EventsAreCurrent, ListenerInv,
     EventsAreOpen, netVars
<1>2. ASSUME NEW f \in FreeFds, backlog # <<>>,
             open' = [open EXCEPT ![f] = Head(backlog)],
             backlog' = Tail(backlog),
             ev' = [ev EXCEPT ![f] = nty_event_add(nty_event_set(ev[f], "recv_cb"), "in")],
             interest' = [interest EXCEPT
                            ![f] = AfterAdd(nty_event_set(ev[f], "recv_cb"), "none", "in")],
             blkcnt' = BlocksFor(f),
             UNCHANGED <<peer, sent, inbox, echoed, full>>
      PROVE Structure(B)'
  <2> DEFINE q == nty_event_add(nty_event_set(ev[f], "recv_cb"), "in")
             c == Head(backlog)
  <2>1. /\ f \in Fds /\ f # listener /\ open[f] = NoConn
        /\ ev[f] \in Record(B) /\ ev[f].status = 0
        /\ batch \subseteq [fd : Fds, mask : {"in", "out"}, of : Conns \cup {NoConn}]
        /\ ev \in [Fds -> Record(B)] /\ interest \in [Fds -> {"none", "in", "out"}]
        /\ open \in [Fds -> Conns \cup {NoConn}]
    BY <1>2 DEF Structure, Shaped, Typed, HaveRecords, RecordsMatch, FreeFds, Record
  <2>2. c \in Conns /\ c # NoConn /\ backlog' \in Seq(Conns)
    BY <1>2, NoConnAssumption DEF Structure, Shaped, Typed, HaveRecords
  <2>3. /\ q \in Record(B) /\ q.status = 1 /\ q.events = "in" /\ q.callback = "recv_cb"
        /\ nty_event_set(ev[f], "recv_cb").status = 0
    BY <2>1 DEF Record, nty_event_add, nty_event_set
  <2>4. interest' = [interest EXCEPT ![f] = "in"]
    <3>1. AfterAdd(nty_event_set(ev[f], "recv_cb"), "none", "in") = "in"
      <4> DEFINE r == nty_event_set(ev[f], "recv_cb")
      <4>1. r.status = 0
        BY <2>3
      <4> HIDE DEF r
      <4>2. AfterAdd(r, "none", "in") = "in"
        BY <4>1 DEF AfterAdd
      <4> QED
        BY <4>2 DEF r
    <3> QED
      BY <1>2, <3>1
  <2>5. ev' = [ev EXCEPT ![f] = q] /\ open' = [open EXCEPT ![f] = c]
    BY <1>2
  <2> HIDE DEF q, c
  <2>6. \A g \in Fds : g # f => ev'[g] = ev[g] /\ open'[g] = open[g] /\ interest'[g] = interest[g]
    BY <2>1, <2>4, <2>5
  <2>7. ev'[f] = q /\ open'[f] = c /\ interest'[f] = "in"
    BY <2>1, <2>4, <2>5
  <2>8. Shaped(B)'
    <3>1. /\ blkcnt' \in Nat /\ blkcnt <= blkcnt' /\ f \div MAX_EPOLL_EVENTS < blkcnt'
      <4>1. f \div MAX_EPOLL_EVENTS \in Nat /\ blkcnt \in Nat
        BY <2>1, BlockIndex DEF Structure, Shaped, Typed, HaveRecords
      <4> DEFINE k == f \div MAX_EPOLL_EVENTS
      <4>2. blkcnt' = IF k >= blkcnt THEN k + 1 ELSE blkcnt
        BY <1>2 DEF BlocksFor
      <4> HIDE DEF k
      <4>3. k \in Nat /\ blkcnt \in Nat
        BY <4>1 DEF k
      <4>4. blkcnt' \in Nat /\ blkcnt <= blkcnt' /\ k < blkcnt'
        BY <4>2, <4>3
      <4> QED
        BY <4>4 DEF k
    <3>2. ASSUME NEW g \in Fds, open'[g] # NoConn
          PROVE g \div MAX_EPOLL_EVENTS < blkcnt'
      <4>1. CASE g = f
        BY <3>1, <4>1
      <4>2. CASE g # f
        <5> DEFINE k == g \div MAX_EPOLL_EVENTS
        <5>1. k \in Nat /\ k < blkcnt /\ blkcnt \in Nat
          BY <2>6, <3>2, <4>2, BlockIndex DEF Structure, Shaped, Typed, HaveRecords
        <5> HIDE DEF k
        <5>2. k < blkcnt'
          BY <3>1, <5>1
        <5> QED
          BY <5>2 DEF k
      <4> QED
        BY <4>1, <4>2
    <3>3. /\ ev' \in [Fds -> Record(B)] /\ interest' \in [Fds -> {"none", "in", "out"}]
          /\ open' \in [Fds -> Conns \cup {NoConn}]
      BY <2>1, <2>2, <2>3, <2>4, <2>5
    <3>4. batch' \subseteq [fd : Fds, mask : {"in", "out"}, of : Conns \cup {NoConn}]
      BY <2>1
    <3> QED
      BY <1>2, <2>2, <3>1, <3>2, <3>3, <3>4 DEF Structure, Shaped, Typed, HaveRecords, Record
  <2>9. RecordsMatch'
    <3> SUFFICES ASSUME NEW g \in Fds \ {listener}
                 PROVE IF open'[g] = NoConn
                         THEN interest'[g] = "none" /\ ev'[g].status = 0
                         ELSE /\ ev'[g].status = 1
                              /\ interest'[g] = ev'[g].events
                              /\ <<ev'[g].events, ev'[g].callback>>
                                   \in {<<"in", "recv_cb">>, <<"out", "send_cb">>}
      BY DEF RecordsMatch
    <3>1. CASE g = f
      BY <2>2, <2>3, <2>7, <3>1
    <3>2. CASE g # f
      BY <2>6, <3>2 DEF Structure, RecordsMatch
    <3> QED
      BY <3>1, <3>2
  <2>10. ASSUME NEW d \in batch'
         PROVE d \in batch /\ d.fd # f /\ d.fd \in Fds
    BY <2>1 DEF Structure, EventsAreOpen
  <2>11. EventsAreCurrent' /\ EventsAreOpen'
    BY <2>6, <2>10 DEF Structure, EventsAreCurrent, EventsAreOpen
  <2>12. ListenerInv'
    BY <2>1, <2>6, ReactorAssumption DEF Structure, ListenerInv, Fds, listener
  <2> QED
    BY <2>8, <2>9, <2>11, <2>12 DEF Structure
<1> QED
  BY <1>1, <1>2 DEF accept_cb

LEMMA RecvKeeps ==
    ASSUME Structure(Bytes), NEW e \in batch, batch' = batch \ {e}, e.fd # listener,
           recv_cb(e.fd), UNCHANGED <<alive, cut>>
    PROVE Structure(Bytes)'
<1> DEFINE f == e.fd
           c == open[f]
           n == IF Len(inbox[c]) < BUFFER_LENGTH THEN Len(inbox[c]) ELSE BUFFER_LENGTH
<1>1. f \in Fds /\ c \in Conns /\ inbox[c] \in Seq(Bytes) /\ n \in 0..Len(inbox[c])
  <2>1. f \in Fds /\ c \in Conns /\ inbox[c] \in Seq(Bytes)
    BY DEF Structure, Shaped, Typed, HaveRecords, EventsAreOpen
  <2> QED
    BY <2>1, ReactorAssumption
<1>2. batch' \subseteq [fd : Fds, mask : {"in", "out"}, of : Conns \cup {NoConn}]
  BY DEF Structure, Shaped, Typed, HaveRecords
<1>3. CASE /\ inbox[c] # <<>>
           /\ TurnAround(f, [ev[f] EXCEPT !.buffer = Received(c)], "send_cb", "out")
           /\ inbox' = [inbox EXCEPT ![c] = SubSeq(@, Len(Received(c)) + 1, Len(@))]
           /\ UNCHANGED <<peer, sent, echoed, backlog, open, full, blkcnt>>
  <2>1. Received(c) = SubSeq(inbox[c], 1, n)
    BY DEF Received
  <2> HIDE DEF n
  <2>2. /\ Received(c) \in Seq(Bytes) /\ Len(Received(c)) = n
        /\ SubSeq(inbox[c], n + 1, Len(inbox[c])) \in Seq(Bytes)
    BY <1>1, <2>1, Parts
  <2>3. inbox' \in [Conns -> Seq(Bytes)]
    BY <1>1, <1>3, <2>2 DEF Structure, Shaped, Typed, HaveRecords
  <2>4. /\ ev' \in [Fds -> Record(Bytes)]
        /\ interest' \in [Fds -> {"none", "in", "out"}]
        /\ RecordsMatch' /\ EventsAreCurrent' /\ ListenerInv' /\ EventsAreOpen'
    <3> DEFINE b == Received(c)
               p == <<"out", "send_cb">>
    <3>1. p \in {<<"in", "recv_cb">>, <<"out", "send_cb">>}
      OBVIOUS
    <3>2. /\ TurnAround(e.fd, [ev[e.fd] EXCEPT !.buffer = b], p[2], p[1])
          /\ open' = open /\ blkcnt' = blkcnt
      BY <1>3
    <3>3. b \in Seq(Bytes)
      BY <2>2
    <3> HIDE DEF c, f, b, p
    <3> QED
      BY <3>1, <3>2, <3>3, TurnAroundKeeps
  <2> QED
    BY <1>2, <1>3, <2>3, <2>4 DEF Structure, Shaped, Typed, HaveRecords, Record
<1>4. CASE /\ CloseFd(f)
           /\ UNCHANGED <<peer, sent, inbox, echoed, backlog, full, blkcnt>>
  <2>1. /\ ev' \in [Fds -> Record(Bytes)]
        /\ interest' \in [Fds -> {"none", "in", "out"}]
        /\ open' \in [Fds -> Conns \cup {NoConn}]
        /\ \A g \in Fds : open'[g] # NoConn => open[g] = open'[g] /\ ev[g] = ev'[g]
        /\ RecordsMatch' /\ EventsAreCurrent' /\ ListenerInv' /\ EventsAreOpen'
    BY <1>4, CloseKeeps
  <2> QED
    BY <1>2, <1>4, <2>1 DEF Structure, Shaped, Typed, HaveRecords, Record
<1> QED
  BY <1>3, <1>4 DEF recv_cb

LEMMA SendKeeps ==
    ASSUME NEW B, Structure(B), NEW e \in batch, batch' = batch \ {e}, e.fd # listener, send_cb(e.fd)
    PROVE Structure(B)'
<1> DEFINE f == e.fd
           c == open[f]
           b == ev[f].buffer
<1>1. /\ f \in Fds /\ c \in Conns /\ b \in Seq(B)
      /\ echoed[c] \in Seq(B) /\ ev[f] \in Record(B) /\ alive \in BOOLEAN
  BY DEF Structure, Shaped, Typed, HaveRecords, EventsAreOpen, Record
<1>2. batch' \subseteq [fd : Fds, mask : {"in", "out"}, of : Conns \cup {NoConn}]
  BY DEF Structure, Shaped, Typed, HaveRecords
<1>3. ASSUME NEW s \in Taken(b), echoed' = [echoed EXCEPT ![c] = @ \o s],
             cut' = IF s = b THEN cut ELSE cut \cup {c},
             full' = full \/ full' = full \cup {c},
             ReceiveNext(f),
             UNCHANGED <<peer, sent, inbox, backlog, open, blkcnt, alive>>
      PROVE Structure(B)'
  <2>1. s \in Seq(B)
    <3>1. PICK n \in 0..Len(b) : s = SubSeq(b, 1, n)
      BY <1>1, <1>3 DEF Taken
    <3> QED
      BY <1>1, <3>1, Parts
  <2>2. echoed[c] \o s \in Seq(B)
    BY <1>1, <2>1, ConcatProperties
  <2>3. echoed' \in [Conns -> Seq(B)]
    BY <1>1, <1>3, <2>2 DEF Structure, Shaped, Typed, HaveRecords
  <2>4. ev[f] = [ev[f] EXCEPT !.buffer = b]
    BY <1>1 DEF Record
  <2>5. /\ ev' \in [Fds -> Record(B)]
        /\ interest' \in [Fds -> {"none", "in", "out"}]
        /\ RecordsMatch' /\ EventsAreCurrent' /\ ListenerInv' /\ EventsAreOpen'
    <3> DEFINE p == <<"in", "recv_cb">>
    <3>1. p \in {<<"in", "recv_cb">>, <<"out", "send_cb">>}
      OBVIOUS
    <3>2. /\ TurnAround(e.fd, [ev[e.fd] EXCEPT !.buffer = b], p[2], p[1])
          /\ open' = open /\ blkcnt' = blkcnt
      BY <1>3, <2>4 DEF ReceiveNext
    <3>3. b \in Seq(B)
      BY <1>1
    <3> HIDE DEF b, c, f, p
    <3> QED
      BY <3>1, <3>2, <3>3, TurnAroundKeeps
  <2> QED
    BY <1>1, <1>2, <1>3, <2>3, <2>5 DEF Structure, Shaped, Typed, HaveRecords, Record
<1>4. CASE /\ CloseFd(f)
           /\ UNCHANGED <<peer, sent, inbox, echoed, backlog, full, blkcnt, alive, cut>>
  <2>1. /\ ev' \in [Fds -> Record(B)]
        /\ interest' \in [Fds -> {"none", "in", "out"}]
        /\ open' \in [Fds -> Conns \cup {NoConn}]
        /\ \A g \in Fds : open'[g] # NoConn => open[g] = open'[g] /\ ev[g] = ev'[g]
        /\ RecordsMatch' /\ EventsAreCurrent' /\ ListenerInv' /\ EventsAreOpen'
    BY <1>4, CloseKeeps
  <2> QED
    BY <1>1, <1>2, <1>4, <2>1 DEF Structure, Shaped, Typed, HaveRecords, Record
<1>5. CASE /\ alive' = FALSE
           /\ UNCHANGED <<netVars, interest, ev, blkcnt, cut>>
  <2>1. alive' \in BOOLEAN
    BY <1>5, Zenon
  <2>2. UNCHANGED <<netVars, interest, ev, blkcnt, cut>>
    BY <1>5
  <2>3. Shaped(B)'
    BY <1>2, <2>1, <2>2 DEF Structure, Shaped, Typed, HaveRecords, netVars
  <2>4. RecordsMatch' /\ EventsAreCurrent' /\ ListenerInv' /\ EventsAreOpen'
    BY <1>2, <2>2 DEF Structure, RecordsMatch, EventsAreCurrent, ListenerInv,
       EventsAreOpen, netVars
  <2> QED
    BY <2>3, <2>4 DEF Structure
<1> QED
  BY <1>3, <1>4, <1>5 DEF send_cb

LEMMA DispatchKeeps == ASSUME Structure(Bytes), Dispatch PROVE Structure(Bytes)'
<1>1. PICK e \in batch :
         /\ batch' = batch \ {e}
         /\ \/ UNCHANGED <<netVars, interest, ev, blkcnt, alive, cut>>
            \/ accept_cb /\ UNCHANGED <<alive, cut>>
            \/ ev[e.fd].callback = "recv_cb" /\ recv_cb(e.fd) /\ UNCHANGED <<alive, cut>>
            \/ ev[e.fd].callback = "send_cb" /\ send_cb(e.fd)
  BY DEF Dispatch, Advanced
<1>2. CASE UNCHANGED <<netVars, interest, ev, blkcnt, alive, cut>>
  BY <1>1, <1>2 DEF Structure, Shaped, Typed, HaveRecords, RecordsMatch, EventsAreCurrent, ListenerInv,
     EventsAreOpen, netVars
<1>3. ev[e.fd].callback \in {"recv_cb", "send_cb"} => e.fd # listener
  BY DEF Structure, ListenerInv
<1> QED
  BY <1>1, <1>2, <1>3, AcceptKeeps, RecvKeeps, SendKeeps

(* What the clients do touches none of the server's variables. *)
LEMMA PeersKeep == ASSUME NEW B, Structure(B), Peers PROVE Structure(B)'
<1>1. UNCHANGED unchangedByPeers => /\ RecordsMatch' /\ EventsAreCurrent'
                                   /\ ListenerInv' /\ EventsAreOpen'
  BY DEF unchangedByPeers, Structure, RecordsMatch, EventsAreCurrent, ListenerInv, EventsAreOpen
<1>2. ASSUME NEW c \in Conns, Connect(c) PROVE Structure(B)'
  BY <1>1, <1>2 DEF Connect, Structure, Shaped, Typed, HaveRecords, unchangedByPeers
<1>3. ASSUME NEW c \in Conns, Send(c) PROVE Structure(B)'
  <2>1. sent[c] + 1 \in 1..MaxSend /\ sent[c] + 1 \in 0..MaxSend
    BY <1>3, ReactorAssumption DEF Send, Structure, Shaped, Typed, HaveRecords
  <2>2. <<c, sent[c] + 1>> \in Bytes
    BY <2>1 DEF Bytes
  <2>3. Append(inbox[c], <<c, sent[c] + 1>>) \in Seq(Bytes)
    BY <2>2 DEF Structure, Shaped, Typed, HaveRecords
  <2>4. Shaped(B)'
    <3>1. sent' \in [Conns -> 0..MaxSend] /\ inbox' \in [Conns -> Seq(Bytes)]
      BY <1>3, <2>1, <2>3 DEF Send, Structure, Shaped, Typed, HaveRecords
    <3> QED
      BY <1>3, <3>1 DEF Send, Structure, Shaped, Typed, HaveRecords, unchangedByPeers
  <2> QED
    BY <1>1, <1>3, <2>4 DEF Send, Structure
<1>4. ASSUME NEW c \in Conns, Hangup(c) PROVE Structure(B)'
  <2>1. peer' \in [Conns -> {"new", "open", "fin", "reset", "broken"}]
    <3>1. \E p \in {"fin", "reset", "broken"} : peer' = [peer EXCEPT ![c] = p]
      BY <1>4, Zenon DEF Hangup
    <3>2. peer \in [Conns -> {"new", "open", "fin", "reset", "broken"}]
      BY DEF Structure, Shaped, Typed
    <3> QED
      BY <3>1, <3>2
  <2>2. Shaped(B)'
    BY <1>4, <2>1 DEF Hangup, Structure, Shaped, Typed, HaveRecords, unchangedByPeers
  <2> QED
    BY <1>1, <1>4, <2>2 DEF Hangup, Structure
<1>5. ASSUME NEW c \in Conns, Drain(c) PROVE Structure(B)'
  BY <1>1, <1>5 DEF Drain, Structure, Shaped, Typed, HaveRecords, unchangedByPeers
<1> QED
  BY <1>2, <1>3, <1>4, <1>5 DEF Peers

(* Only descriptors in the epoll set, hence open ones, become events. *)
LEMMA EpollWaitKeeps == ASSUME NEW B, Structure(B), EpollWait PROVE Structure(B)'
<1>1. PICK S \in SUBSET {f \in Fds : Ready(f)} :
         batch' = {[fd |-> f, mask |-> interest[f], of |-> open[f]] : f \in S}
  BY DEF EpollWait
<1>2. /\ UNCHANGED <<netVars, interest, ev, blkcnt, alive, cut>>
      /\ UNCHANGED <<peer, sent, inbox, echoed, backlog, open, full>>
  BY DEF EpollWait, netVars
<1>3. ASSUME NEW f \in S
      PROVE /\ f \in Fds /\ interest[f] \in {"in", "out"} /\ open[f] \in Conns \cup {NoConn}
            /\ ev[f].events = interest[f]
            /\ f = listener \/ open[f] # NoConn
  <2>1. f \in Fds /\ interest[f] \in {"in", "out"}
    BY DEF Ready
  <2> QED
    BY <2>1 DEF Structure, Shaped, Typed, HaveRecords, RecordsMatch, ListenerInv
<1>4. ASSUME NEW e \in batch'
      PROVE \E f \in S : e = [fd |-> f, mask |-> interest[f], of |-> open[f]]
  BY <1>1
<1>5. batch' \subseteq [fd : Fds, mask : {"in", "out"}, of : Conns \cup {NoConn}]
  BY <1>3, <1>4
<1>6. Shaped(B)'
  BY <1>2, <1>5 DEF Structure, Shaped, Typed, HaveRecords
<1>7. EventsAreCurrent' /\ EventsAreOpen'
  BY <1>2, <1>3, <1>4 DEF EventsAreCurrent, EventsAreOpen
<1>8. RecordsMatch' /\ ListenerInv'
  BY <1>2 DEF Structure, RecordsMatch, ListenerInv
<1> QED
  BY <1>6, <1>7, <1>8 DEF Structure

LEMMA InitInv == ASSUME NEW B, Init PROVE Structure(B)
<1>1. <<>> \in Seq(Bytes) /\ <<>> \in Seq(Conns) /\ <<>> \in Seq(B)
  OBVIOUS
<1>2. listener \in Fds /\ 0 \in 0..MaxSend
  BY ReactorAssumption DEF Fds, listener
<1>3. Shaped(B)
  <2>1. \A f \in Fds : ev[f] \in Record(B)
    BY <1>1, <1>2 DEF Init, ZeroRecord, Record
  <2>2. ev \in [Fds -> Record(B)]
    BY <2>1 DEF Init
  <2> QED
    BY <1>1, <1>2, <2>2 DEF Init, Shaped, Typed, HaveRecords, Record
<1>4. RecordsMatch /\ EventsAreCurrent /\ EventsAreOpen
  BY DEF Init, RecordsMatch, EventsAreCurrent, EventsAreOpen, ZeroRecord
<1>5. ListenerInv
  BY <1>2 DEF Init, ListenerInv, ZeroRecord
<1> QED
  BY <1>3, <1>4, <1>5 DEF Structure

(* Nothing but the steps of the server and the clients matters. *)
LEMMA StutterKeeps == ASSUME NEW B, Structure(B), UNCHANGED vars PROVE Structure(B)'
BY DEF vars, netVars, Structure, Shaped, Typed, HaveRecords, RecordsMatch, EventsAreCurrent,
   ListenerInv, EventsAreOpen

LEMMA Invariance == Spec => []IInv
<1>1. Init => IInv
  BY InitInv, OfBytes
<1>2. IInv /\ [Next]_vars => IInv'
  <2> SUFFICES ASSUME IInv, [Next]_vars PROVE IInv'
    OBVIOUS
  <2>1. Structure(Bytes)
    BY OfBytes
  <2>2. Structure(Bytes)'
    BY <2>1, PeersKeep, EpollWaitKeeps, DispatchKeeps, StutterKeeps DEF Next
  <2>3. (IInv <=> Structure(Bytes))'
    BY OfBytes, PTL
  <2> QED
    BY <2>2, <2>3
<1> QED
  BY <1>1, <1>2, PTL DEF Spec
-----------------------------------------------------------------------------
(* The order of bytes: what a client got back, what is in the buffer of    *)
(* its record and what has arrived are increasing one after another, up to *)
(* the number of the last byte sent.                                       *)
Increasing(s) == \A i, j \in DOMAIN s : i < j => s[i][2] < s[j][2]
Before(s, t) == \A i \in DOMAIN s, j \in DOMAIN t : s[i][2] < t[j][2]
UpTo(s, k) == \A i \in DOMAIN s : s[i][2] <= k

InOrder(s, t, u, k) ==
    /\ Increasing(s) /\ Increasing(t) /\ Increasing(u)
    /\ Before(s, t) /\ Before(s, u) /\ Before(t, u)
    /\ UpTo(s, k) /\ UpTo(t, k) /\ UpTo(u, k)

(* What the record of f has to send. *)
Flight(f) == IF ev[f].callback = "send_cb" THEN ev[f].buffer ELSE <<>>

Streams == \A c \in Conns : InOrder(echoed[c], <<>>, inbox[c], sent[c])
Flights == \A f \in Fds : open[f] # NoConn =>
              InOrder(echoed[open[f]], Flight(f), inbox[open[f]], sent[open[f]])

(* A connection is in one place only. *)
OnePlace ==
    /\ \A f, g \in Fds : open[f] # NoConn /\ open[f] = open[g] => f = g
    /\ \A i, j \in DOMAIN backlog : backlog[i] = backlog[j] => i = j
    /\ \A i \in DOMAIN backlog, f \in Fds : backlog[i] # open[f]
    /\ \A i \in DOMAIN backlog : peer[backlog[i]] # "new"
    /\ \A f \in Fds : open[f] # NoConn => peer[open[f]] # "new"

OrderInv == Streams /\ Flights /\ OnePlace

LEMMA NoneInOrder ==
    ASSUME NEW s, NEW k
    PROVE  Increasing(<<>>) /\ UpTo(<<>>, k) /\ Before(s, <<>>) /\ Before(<<>>, s)
<1>1. DOMAIN <<>> = {}
  OBVIOUS
<1> QED
  BY <1>1 DEF Increasing, UpTo, Before

LEMMA Numbers ==
    ASSUME NEW s \in Seq(Bytes)
    PROVE  /\ Len(s) \in Nat /\ DOMAIN s = 1..Len(s)
           /\ \A i \in DOMAIN s : s[i][2] \in Nat
<1>1. Len(s) \in Nat /\ DOMAIN s = 1..Len(s) /\ \A i \in DOMAIN s : s[i] \in Bytes
  OBVIOUS
<1>2. \A b \in Bytes : b[2] \in Nat
  BY ReactorAssumption DEF Bytes
<1> QED
  BY <1>1, <1>2

LEMMA Cuts ==
    ASSUME NEW s \in Seq(Bytes), NEW n \in 0..Len(s)
    PROVE  /\ SubSeq(s, 1, n) \in Seq(Bytes)
           /\ DOMAIN SubSeq(s, 1, n) = 1..n
           /\ \A i \in 1..n : i \in DOMAIN s /\ SubSeq(s, 1, n)[i] = s[i]
           /\ SubSeq(s, n + 1, Len(s)) \in Seq(Bytes)
           /\ DOMAIN SubSeq(s, n + 1, Len(s)) = 1..(Len(s) - n)
           /\ \A i \in 1..(Len(s) - n) : /\ n + i \in DOMAIN s
                                         /\ SubSeq(s, n + 1, Len(s))[i] = s[n + i]
<1>1. Len(s) \in Nat /\ DOMAIN s = 1..Len(s) /\ \A i \in 1..Len(s) : s[i] \in Bytes
  OBVIOUS
<1>2. /\ SubSeq(s, 1, n) \in Seq(Bytes) /\ Len(SubSeq(s, 1, n)) = n
      /\ \A i \in 1..n : SubSeq(s, 1, n)[i] = s[i]
  <2>1. \A i \in 1..n : s[i] \in Bytes
    BY <1>1
  <2> QED
    BY <1>1, <2>1, SubSeqProperties
<1> DEFINE m == Len(s)
           b == SubSeq(s, n + 1, m)
<1>3. m \in Nat /\ n \in Nat /\ n <= m
  BY <1>1
<1>4. b \in Seq(Bytes) /\ Len(b) = m - n /\ \A i \in 1..(m - n) : b[i] = s[n + i]
  <2>1. \A i \in (n + 1)..m : s[i] \in Bytes
    BY <1>1
  <2> HIDE DEF m
  <2>2. n + 1 \in Int /\ m \in Int
    BY <1>3
  <2>3. /\ b \in Seq(Bytes)
        /\ Len(b) = IF n + 1 <= m THEN m - (n + 1) + 1 ELSE 0
        /\ \A i \in 1..(m - (n + 1) + 1) : b[i] = s[n + 1 + i - 1]
    BY <2>1, <2>2, SubSeqProperties
  <2> HIDE DEF b
  <2>4. m - (n + 1) + 1 = m - n /\ \A i \in 1..(m - n) : n + 1 + i - 1 = n + i
    BY <1>3
  <2>5. Len(b) = m - n
    BY <1>3, <2>3
  <2>6. \A i \in 1..(m - n) : b[i] = s[n + i]
    BY <2>3, <2>4
  <2> QED
    BY <2>3, <2>5, <2>6
<1>5. DOMAIN SubSeq(s, 1, n) = 1..n /\ \A i \in 1..n : i \in DOMAIN s
  BY <1>1, <1>2
<1>6. DOMAIN b = 1..(m - n)
  <2> HIDE DEF b, m
  <2> QED
    BY <1>4, LenProperties
<1>7. \A i \in 1..(m - n) : n + i \in DOMAIN s
  BY <1>1, <1>3
<1> QED
  BY <1>2, <1>4, <1>5, <1>6, <1>7

(* recv: the front of what has arrived becomes the buffer. *)
LEMMA ReceivedInOrder ==
    ASSUME NEW e \in Seq(Bytes), NEW u \in Seq(Bytes), NEW k \in Nat,
           InOrder(e, <<>>, u, k), NEW n \in 0..Len(u)
    PROVE  InOrder(e, SubSeq(u, 1, n), SubSeq(u, n + 1, Len(u)), k)
<1> DEFINE a == SubSeq(u, 1, n)
           b == SubSeq(u, n + 1, Len(u))
<1>1. /\ DOMAIN a = 1..n /\ \A i \in 1..n : i \in DOMAIN u /\ a[i] = u[i]
      /\ DOMAIN b = 1..(Len(u) - n)
      /\ \A i \in 1..(Len(u) - n) : n + i \in DOMAIN u /\ b[i] = u[n + i]
  BY Cuts
<1>2. n \in Nat /\ Len(u) \in Nat
  OBVIOUS
<1>3. Increasing(e) /\ Increasing(u) /\ Before(e, u) /\ UpTo(e, k) /\ UpTo(u, k)
  BY DEF InOrder
<1> HIDE DEF a, b
<1>4. Increasing(a)
  BY <1>1, <1>2, <1>3 DEF Increasing
<1>5. Increasing(b)
  <2> SUFFICES ASSUME NEW i \in 1..(Len(u) - n), NEW j \in 1..(Len(u) - n), i < j
               PROVE  b[i][2] < b[j][2]
    BY <1>1 DEF Increasing
  <2>1. n + i < n + j
    BY <1>2
  <2> QED
    BY <1>1, <1>3, <2>1 DEF Increasing
<1>6. Before(a, b)
  <2> SUFFICES ASSUME NEW i \in 1..n, NEW j \in 1..(Len(u) - n)
               PROVE  a[i][2] < b[j][2]
    BY <1>1 DEF Before
  <2>1. i < n + j
    BY <1>2
  <2> QED
    BY <1>1, <1>3, <2>1 DEF Increasing
<1>7. Before(e, a) /\ Before(e, b)
  BY <1>1, <1>3 DEF Before
<1>8. UpTo(a, k) /\ UpTo(b, k)
  BY <1>1, <1>3 DEF UpTo
<1> QED
  BY <1>3, <1>4, <1>5, <1>6, <1>7, <1>8 DEF InOrder, a, b

(* send: the front of the buffer goes out, the rest is forgotten. *)
LEMMA SentInOrder ==
    ASSUME NEW e \in Seq(Bytes), NEW t \in Seq(Bytes), NEW u \in Seq(Bytes), NEW k \in Nat,
           InOrder(e, t, u, k), NEW n \in 0..Len(t)
    PROVE  InOrder(e \o SubSeq(t, 1, n), <<>>, u, k)
<1> DEFINE a == SubSeq(t, 1, n)
           s == e \o a
           m == Len(e)
<1>1. a \in Seq(Bytes) /\ DOMAIN a = 1..n /\ \A i \in 1..n : i \in DOMAIN t /\ a[i] = t[i]
  BY Cuts
<1>2. n \in Nat /\ m \in Nat /\ DOMAIN e = 1..m /\ Len(a) = n
  BY <1>1, LenProperties
<1> HIDE DEF a
<1>3. /\ DOMAIN s = 1..(m + n)
      /\ \A i \in 1..m : s[i] = e[i]
      /\ \A i \in (m + 1)..(m + n) : s[i] = a[i - m] /\ i - m \in 1..n
  <2>1. /\ s \in Seq(Bytes) /\ Len(s) = m + n
        /\ \A i \in 1..(m + n) : s[i] = IF i <= m THEN e[i] ELSE a[i - m]
    BY <1>1, <1>2, ConcatProperties
  <2> HIDE DEF s, m
  <2>2. DOMAIN s = 1..(m + n)
    BY <2>1, LenProperties
  <2> QED
    BY <1>2, <2>1, <2>2
<1> HIDE DEF s, m
<1>4. /\ Increasing(e) /\ Increasing(t) /\ Increasing(u)
      /\ Before(e, t) /\ Before(e, u) /\ Before(t, u) /\ UpTo(e, k) /\ UpTo(t, k) /\ UpTo(u, k)
  BY DEF InOrder
<1>5. \A i \in DOMAIN s : \/ i \in 1..m /\ s[i] = e[i]
                          \/ i \in (m + 1)..(m + n) /\ i - m \in DOMAIN t /\ s[i] = t[i - m]
  BY <1>1, <1>2, <1>3
<1>6. Before(s, u) /\ UpTo(s, k)
  BY <1>2, <1>4, <1>5 DEF Before, UpTo
<1>7. Increasing(s)
  <2> SUFFICES ASSUME NEW i \in DOMAIN s, NEW j \in DOMAIN s, i < j
               PROVE  s[i][2] < s[j][2]
    BY DEF Increasing
  <2>1. CASE i \in 1..m /\ j \in 1..m
    BY <1>2, <1>3, <1>4, <2>1 DEF Increasing
  <2>2. CASE i \in 1..m /\ j \in (m + 1)..(m + n)
    <3>1. s[i] = e[i] /\ i \in DOMAIN e /\ j - m \in DOMAIN t /\ s[j] = t[j - m]
      BY <1>1, <1>2, <1>3, <2>2
    <3> QED
      BY <1>4, <3>1 DEF Before
  <2>3. CASE i \in (m + 1)..(m + n) /\ j \in (m + 1)..(m + n)
    <3>1. /\ i - m \in DOMAIN t /\ s[i] = t[i - m] /\ j - m \in DOMAIN t /\ s[j] = t[j - m]
          /\ i - m < j - m
      BY <1>1, <1>2, <1>3, <2>3
    <3> QED
      BY <1>4, <3>1 DEF Increasing
  <2>4. CASE i \in (m + 1)..(m + n) /\ j \in 1..m
    BY <1>2, <2>4
  <2> QED
    BY <1>2, <1>3, <2>1, <2>2, <2>3, <2>4
<1>8. /\ Increasing(<<>>) /\ UpTo(<<>>, k) /\ Before(s, <<>>) /\ Before(<<>>, u)
  BY NoneInOrder
<1> QED
  BY <1>4, <1>6, <1>7, <1>8 DEF InOrder, s, a

(* The client's next byte has the next number. *)
LEMMA NextInOrder ==
    ASSUME NEW e \in Seq(Bytes), NEW t \in Seq(Bytes), NEW u \in Seq(Bytes), NEW k \in Nat,
           InOrder(e, t, u, k), NEW c, <<c, k + 1>> \in Bytes
    PROVE  InOrder(e, t, Append(u, <<c, k + 1>>), k + 1)
<1> DEFINE b == <<c, k + 1>>
           s == Append(u, b)
           m == Len(u)
<1>1. b \in Bytes /\ b[2] = k + 1 /\ m \in Nat /\ DOMAIN u = 1..m
  OBVIOUS
<1> HIDE DEF b
<1>2. DOMAIN s = 1..(m + 1) /\ s[m + 1] = b /\ \A i \in 1..m : s[i] = u[i]
  <2>1. /\ s \in Seq(Bytes) /\ Len(s) = m + 1
        /\ s[m + 1] = b /\ \A i \in 1..m : s[i] = u[i]
    BY <1>1, AppendProperties
  <2> HIDE DEF s, m
  <2>2. DOMAIN s = 1..(m + 1)
    BY <2>1, LenProperties
  <2> QED
    BY <2>1, <2>2
<1> HIDE DEF s, m
<1>3. /\ Increasing(e) /\ Increasing(t) /\ Increasing(u)
      /\ Before(e, t) /\ Before(e, u) /\ Before(t, u) /\ UpTo(e, k) /\ UpTo(t, k) /\ UpTo(u, k)
  BY DEF InOrder
<1>4. /\ \A i \in DOMAIN e : e[i][2] \in Nat
      /\ \A i \in DOMAIN t : t[i][2] \in Nat
      /\ \A i \in DOMAIN u : u[i][2] \in Nat
  BY Numbers
<1>5. /\ \A i \in DOMAIN e : e[i][2] < k + 1
      /\ \A i \in DOMAIN t : t[i][2] < k + 1
      /\ \A i \in DOMAIN u : u[i][2] < k + 1
  BY <1>3, <1>4 DEF UpTo
<1>6. UpTo(e, k + 1) /\ UpTo(t, k + 1)
  BY <1>4, <1>5 DEF UpTo
<1>7. \A i \in DOMAIN s : \/ i \in 1..m /\ s[i] = u[i]
                          \/ i = m + 1 /\ s[i][2] = k + 1
  BY <1>1, <1>2
<1>8. UpTo(s, k + 1)
  BY <1>1, <1>4, <1>5, <1>7 DEF UpTo
<1>9. Before(e, s) /\ Before(t, s)
  BY <1>1, <1>3, <1>5, <1>7 DEF Before
<1>10. Increasing(s)
  <2> SUFFICES ASSUME NEW i \in DOMAIN s, NEW j \in DOMAIN s, i < j
               PROVE  s[i][2] < s[j][2]
    BY DEF Increasing
  <2>1. i \in 1..m /\ s[i] = u[i]
    BY <1>1, <1>2, <1>7
  <2>2. CASE j = m + 1
    BY <1>1, <1>2, <1>5, <2>1, <2>2
  <2>3. CASE j \in 1..m
    BY <1>1, <1>2, <1>3, <2>1, <2>3 DEF Increasing
  <2> QED
    BY <1>1, <1>2, <2>2, <2>3
<1> QED
  BY <1>3, <1>6, <1>8, <1>9, <1>10 DEF InOrder, s, b

LEMMA NothingInFlight ==
    ASSUME NEW e, NEW t, NEW u, NEW k, InOrder(e, t, u, k)
    PROVE  InOrder(e, <<>>, u, k)
  BY NoneInOrder DEF InOrder

-----------------------------------------------------------------------------
(* What each action does to the order.                                     *)

(* Closing a descriptor takes a connection from its place, to no other.    *)
LEMMA PlacesKept ==
    ASSUME OnePlace, \A f \in Fds : open'[f] # NoConn => open[f] = open'[f],
           UNCHANGED <<backlog, peer>>,
           \A i \in DOMAIN backlog : backlog[i] # NoConn
    PROVE  OnePlace'
<1>1. /\ \A f, g \in Fds : open'[f] # NoConn /\ open'[f] = open'[g] => f = g
      /\ \A f \in Fds : open'[f] # NoConn => peer'[open'[f]] # "new"
  BY DEF OnePlace
<1>2. \A i \in DOMAIN backlog, f \in Fds : backlog[i] # open'[f]
  BY DEF OnePlace
<1> QED
  BY <1>1, <1>2 DEF OnePlace

(* A callback moves bytes of its own descriptor's connection only. *)
LEMMA OthersKept ==
    ASSUME OrderInv, NEW f \in Fds, open[f] # NoConn,
           \A g \in Fds : open'[g] # NoConn => open[g] = open'[g],
           \A g \in Fds : g # f => ev'[g] = ev[g],
           \A c \in Conns : c # open[f] => inbox'[c] = inbox[c] /\ echoed'[c] = echoed[c],
           sent' = sent, open \in [Fds -> Conns \cup {NoConn}],
           InOrder(echoed'[open[f]], <<>>, inbox'[open[f]], sent[open[f]]),
           open'[f] # NoConn => InOrder(echoed'[open[f]], Flight(f)', inbox'[open[f]], sent[open[f]])
    PROVE  Streams' /\ Flights'
<1>1. Streams'
  BY DEF OrderInv, Streams
<1>2. ASSUME NEW g \in Fds, open'[g] # NoConn
      PROVE  InOrder(echoed'[open'[g]], Flight(g)', inbox'[open'[g]], sent'[open'[g]])
  <2>1. open[g] = open'[g] /\ open[g] \in Conns
    BY <1>2
  <2>2. CASE g = f
    BY <1>2, <2>1, <2>2
  <2>3. CASE g # f
    <3>1. open[g] # open[f] /\ Flight(g)' = Flight(g)
      BY <1>2, <2>1, <2>3 DEF OrderInv, OnePlace, Flight
    <3> QED
      BY <1>2, <2>1, <3>1 DEF OrderInv, Flights
  <2> QED
    BY <2>2, <2>3
<1> QED
  BY <1>1, <1>2 DEF Flights

(* The backlog holds connections. *)
LEMMA Queued ==
    ASSUME backlog \in Seq(Conns)
    PROVE  /\ Len(backlog) \in Nat /\ DOMAIN backlog = 1..Len(backlog)
           /\ \A i \in DOMAIN backlog : backlog[i] \in Conns /\ backlog[i] # NoConn
<1>1. /\ Len(backlog) \in Nat /\ DOMAIN backlog = 1..Len(backlog)
      /\ \A i \in DOMAIN backlog : backlog[i] \in Conns
  OBVIOUS
<1> QED
  BY <1>1, NoConnAssumption

(* accept takes the oldest connection of the backlog; it was nowhere else. *)
Accepts(f) ==
    /\ f \in Fds \ {listener} /\ open[f] = NoConn
    /\ open'[f] \in Conns /\ open'[f] \in Unserved /\ peer[open'[f]] # "new"
    /\ \A g \in Fds : open[g] # open'[f]
    /\ \A g \in Fds \ {f} : open'[g] = open[g] /\ ev'[g] = ev[g]
    /\ ev'[f].callback = "recv_cb"
    /\ Unserved' \subseteq Unserved \ {open'[f]}
    /\ UNCHANGED <<peer, sent, inbox, echoed>>

LEMMA AcceptPlaces ==
    ASSUME NEW B, Structure(B), OnePlace, accept_cb
    PROVE  /\ OnePlace'
           /\ \/ UNCHANGED <<netVars, interest, ev, blkcnt>>
              \/ \E f \in Fds \ {listener} : Accepts(f) /\ open' = [open EXCEPT ![f] = open'[f]]
<1>1. CASE UNCHANGED <<netVars, interest, ev, blkcnt>>
  BY <1>1 DEF OnePlace, netVars
<1>2. ASSUME NEW f \in FreeFds, backlog # <<>>,
             open' = [open EXCEPT ![f] = Head(backlog)],
             backlog' = Tail(backlog),
             ev' = [ev EXCEPT ![f] = nty_event_add(nty_event_set(ev[f], "recv_cb"), "in")],
             UNCHANGED <<peer, sent, inbox, echoed>>
      PROVE OnePlace' /\ Accepts(f) /\ open' = [open EXCEPT ![f] = open'[f]]
  <2> DEFINE c == Head(backlog)
             q == nty_event_add(nty_event_set(ev[f], "recv_cb"), "in")
             n == Len(backlog)
  <2>1. /\ f \in Fds /\ f # listener /\ open[f] = NoConn /\ ev[f] \in Record(B)
        /\ ev \in [Fds -> Record(B)] /\ open \in [Fds -> Conns \cup {NoConn}]
        /\ backlog \in Seq(Conns)
    BY <1>2 DEF Structure, Shaped, Typed, FreeFds
  <2>2. q.callback = "recv_cb"
    BY <2>1 DEF Record, nty_event_add, nty_event_set
  <2>3. /\ n \in Nat /\ DOMAIN backlog = 1..n /\ n # 0
        /\ \A i \in DOMAIN backlog : backlog[i] \in Conns /\ backlog[i] # NoConn
    BY <1>2, <2>1, Queued
  <2>4. c = backlog[1] /\ 1 \in DOMAIN backlog
    BY <2>1, <2>3
  <2>5. /\ DOMAIN backlog' = 1..(n - 1)
        /\ \A i \in 1..(n - 1) : i + 1 \in DOMAIN backlog /\ backlog'[i] = backlog[i + 1]
    <3>1. /\ backlog' \in Seq(Conns) /\ Len(backlog') = n - 1
          /\ \A i \in 1..Len(backlog') : backlog'[i] = backlog[i + 1]
      BY <1>2, <2>1, HeadTailProperties
    <3>2. DOMAIN backlog' = 1..(n - 1)
      BY <3>1, LenProperties
    <3> QED
      BY <2>3, <3>1, <3>2
  <2>6. ev' = [ev EXCEPT ![f] = q] /\ open' = [open EXCEPT ![f] = c]
    BY <1>2
  <2> HIDE DEF c, q, n
  <2>7. /\ \A g \in Fds : g # f => ev'[g] = ev[g] /\ open'[g] = open[g]
        /\ ev'[f].callback = "recv_cb" /\ open'[f] = c
    BY <2>1, <2>2, <2>6
  <2>8. /\ c \in Conns /\ c # NoConn /\ peer[c] # "new"
        /\ \A g \in Fds : open[g] # c
    BY <2>3, <2>4 DEF OnePlace
  <2>9. \A g, h \in Fds : open'[g] # NoConn /\ open'[g] = open'[h] => g = h
    BY <2>7, <2>8 DEF OnePlace
  <2>10. \A i, j \in DOMAIN backlog' : backlog'[i] = backlog'[j] => i = j
    <3> SUFFICES ASSUME NEW i \in 1..(n - 1), NEW j \in 1..(n - 1), backlog'[i] = backlog'[j]
                 PROVE  i = j
      BY <2>5
    <3>1. i + 1 = j + 1
      BY <2>5 DEF OnePlace
    <3> QED
      BY <3>1
  <2>11. ASSUME NEW i \in DOMAIN backlog'
         PROVE  /\ backlog'[i] # c /\ peer[backlog'[i]] # "new"
                /\ \A g \in Fds : open[g] # backlog'[i]
                /\ backlog'[i] \in Unserved
    <3>1. i \in 1..(n - 1) /\ i + 1 \in DOMAIN backlog /\ backlog'[i] = backlog[i + 1]
      BY <2>5, <2>11
    <3>2. i + 1 # 1
      BY <3>1
    <3> QED
      BY <2>4, <3>1, <3>2 DEF OnePlace, Unserved
  <2>12. \A g \in Fds : open'[g] = c \/ open'[g] = open[g]
    BY <2>7
  <2>13. OnePlace'
    BY <1>2, <2>8, <2>9, <2>10, <2>11, <2>12 DEF OnePlace
  <2>14. c \in Unserved /\ Unserved' \subseteq Unserved \ {c}
    BY <2>4, <2>11 DEF Unserved
  <2>15. Accepts(f)
    BY <1>2, <2>1, <2>7, <2>8, <2>14 DEF Accepts
  <2> QED
    BY <2>6, <2>7, <2>13, <2>15
<1> QED
  BY <1>1, <1>2 DEF accept_cb, FreeFds

LEMMA AcceptOrder ==
    ASSUME IInv, OrderInv, accept_cb
    PROVE  OrderInv'
<1>1. CASE UNCHANGED <<netVars, interest, ev, blkcnt>>
  BY <1>1 DEF OrderInv, Streams, Flights, OnePlace, Flight, netVars
<1>2. ASSUME NEW f \in Fds \ {listener}, Accepts(f), OnePlace'
      PROVE OrderInv'
  <2>1. /\ open'[f] \in Conns
        /\ \A g \in Fds : g # f => ev'[g] = ev[g] /\ open'[g] = open[g]
        /\ ev'[f].callback = "recv_cb" /\ UNCHANGED <<sent, inbox, echoed>>
    BY <1>2 DEF Accepts
  <2>2. Streams'
    BY <2>1 DEF OrderInv, Streams
  <2>3. Flights'
    <3> SUFFICES ASSUME NEW g \in Fds, open'[g] # NoConn
                 PROVE  InOrder(echoed[open'[g]], Flight(g)', inbox[open'[g]], sent[open'[g]])
      BY <2>1 DEF Flights
    <3>1. CASE g = f
      <4>1. Flight(g)' = <<>>
        BY <2>1, <3>1 DEF Flight
      <4> QED
        BY <2>1, <3>1, <4>1 DEF OrderInv, Streams
    <3>2. CASE g # f
      <4>1. Flight(g)' = Flight(g)
        BY <2>1, <3>2 DEF Flight
      <4> QED
        BY <2>1, <3>2, <4>1 DEF OrderInv, Flights
    <3> QED
      BY <3>1, <3>2
  <2> QED
    BY <1>2, <2>2, <2>3 DEF OrderInv
<1> QED
  BY <1>1, <1>2, OfBytes, AcceptPlaces DEF OrderInv

LEMMA CloseOrder ==
    ASSUME IInv, OrderInv, NEW e \in batch, batch' = batch \ {e}, e.fd # listener,
           CloseFd(e.fd), UNCHANGED <<peer, sent, inbox, echoed, backlog, full, blkcnt>>
    PROVE  OrderInv'
<1>1. /\ \A f \in Fds : open'[f] # NoConn => open[f] = open'[f] /\ ev[f] = ev'[f]
      /\ TypeOK
  BY OfBytes, CloseKeeps DEF IInv, WellFormed
<1>2. Streams'
  BY DEF OrderInv, Streams
<1>3. Flights'
  <2> SUFFICES ASSUME NEW f \in Fds, open'[f] # NoConn
               PROVE  InOrder(echoed[open[f]], Flight(f)', inbox[open[f]], sent[open[f]])
    BY <1>1 DEF Flights
  <2>1. Flight(f)' = Flight(f) /\ open[f] # NoConn
    BY <1>1 DEF Flight
  <2> QED
    BY <2>1 DEF OrderInv, Flights
<1>4. OnePlace'
  BY <1>1, PlacesKept, Queued DEF OrderInv, TypeOK
<1> QED
  BY <1>2, <1>3, <1>4 DEF OrderInv

LEMMA RecvOrder ==
    ASSUME IInv, OrderInv, NEW e \in batch, batch' = batch \ {e}, e.fd # listener,
           recv_cb(e.fd), UNCHANGED <<alive, cut>>
    PROVE  OrderInv'
<1> DEFINE f == e.fd
           c == open[f]
           n == IF Len(inbox[c]) < BUFFER_LENGTH THEN Len(inbox[c]) ELSE BUFFER_LENGTH
           b == Received(c)
<1>1. /\ f \in Fds /\ c \in Conns /\ c # NoConn /\ TypeOK
      /\ inbox[c] \in Seq(Bytes) /\ echoed[c] \in Seq(Bytes) /\ sent[c] \in Nat
      /\ inbox \in [Conns -> Seq(Bytes)] /\ open \in [Fds -> Conns \cup {NoConn}]
  BY NoConnAssumption, ReactorAssumption DEF IInv, WellFormed, TypeOK, EventsAreOpen
<1>2. n \in 0..Len(inbox[c])
  BY <1>1, ReactorAssumption
<1>3. CASE CloseFd(f) /\ UNCHANGED <<peer, sent, inbox, echoed, backlog, full, blkcnt>>
  BY <1>3, CloseOrder
<1>4. ASSUME TurnAround(f, [ev[f] EXCEPT !.buffer = b], "send_cb", "out"),
             inbox' = [inbox EXCEPT ![c] = SubSeq(inbox[c], Len(b) + 1, Len(inbox[c]))],
             UNCHANGED <<peer, sent, echoed, backlog, open, full, blkcnt>>
      PROVE  OrderInv'
  <2>1. b = SubSeq(inbox[c], 1, n)
    BY DEF Received
  <2> HIDE DEF n
  <2>2. b \in Seq(Bytes) /\ Len(b) = n
    BY <1>1, <1>2, <2>1, Cuts, LenProperties
  <2>3. /\ inbox'[c] = SubSeq(inbox[c], n + 1, Len(inbox[c]))
        /\ \A d \in Conns : d # c => inbox'[d] = inbox[d]
    BY <1>1, <1>4, <2>2
  <2>4. InOrder(echoed[c], b, inbox'[c], sent[c])
    <3>1. InOrder(echoed[c], <<>>, inbox[c], sent[c])
      BY <1>1 DEF OrderInv, Streams
    <3> QED
      BY <1>1, <1>2, <2>1, <2>3, <3>1, ReceivedInOrder
  <2>5. /\ ev'[f].callback = "send_cb" /\ ev'[f].buffer = b
        /\ \A g \in Fds : g # f => ev'[g] = ev[g]
    <3> DEFINE p == <<"out", "send_cb">>
    <3>1. p \in {<<"in", "recv_cb">>, <<"out", "send_cb">>} /\ p[2] = "send_cb"
      OBVIOUS
    <3>2. /\ TurnAround(e.fd, [ev[e.fd] EXCEPT !.buffer = b], p[2], p[1])
          /\ open' = open /\ blkcnt' = blkcnt
      BY <1>4
    <3>3. b \in Seq(Bytes)
      BY <2>2
    <3> HIDE DEF c, b, p
    <3> QED
      BY <3>1, <3>2, <3>3, OfBytes, TurnAroundKeeps
  <2> HIDE DEF b
  <2>6. Flight(f)' = b
    BY <2>5 DEF Flight
  <2>7. InOrder(echoed[c], <<>>, inbox'[c], sent[c])
    BY <2>4, NothingInFlight
  <2>8. Streams' /\ Flights'
    <3>1. /\ \A g \in Fds : open'[g] # NoConn => open[g] = open'[g]
          /\ \A d \in Conns : d # open[f] => inbox'[d] = inbox[d] /\ echoed'[d] = echoed[d]
          /\ sent' = sent
      BY <1>4, <2>3
    <3>2. /\ InOrder(echoed'[open[f]], <<>>, inbox'[open[f]], sent[open[f]])
          /\ InOrder(echoed'[open[f]], Flight(f)', inbox'[open[f]], sent[open[f]])
      BY <1>4, <2>4, <2>6, <2>7
    <3> HIDE DEF f
    <3> QED
      BY <1>1, <2>5, <3>1, <3>2, OthersKept
  <2>9. OnePlace'
    BY <1>1, <1>4, PlacesKept, Queued DEF OrderInv, TypeOK
  <2> QED
    BY <2>8, <2>9 DEF OrderInv
<1> QED
  BY <1>3, <1>4 DEF recv_cb

LEMMA SendOrder ==
    ASSUME IInv, OrderInv, NEW e \in batch, batch' = batch \ {e}, e.fd # listener,
           ev[e.fd].callback = "send_cb", send_cb(e.fd)
    PROVE  OrderInv'
<1> DEFINE f == e.fd
           c == open[f]
           b == ev[f].buffer
<1>1. /\ f \in Fds /\ c \in Conns /\ c # NoConn /\ TypeOK
      /\ inbox[c] \in Seq(Bytes) /\ echoed[c] \in Seq(Bytes) /\ sent[c] \in Nat
      /\ echoed \in [Conns -> Seq(Bytes)] /\ open \in [Fds -> Conns \cup {NoConn}]
      /\ ev[f] \in Record(Bytes) /\ b \in Seq(Bytes)
  BY NoConnAssumption, ReactorAssumption DEF IInv, WellFormed, TypeOK, EventsAreOpen, Record
<1>2. CASE CloseFd(f) /\ UNCHANGED <<peer, sent, inbox, echoed, backlog, full, blkcnt>>
  BY <1>2, CloseOrder
<1>3. CASE UNCHANGED <<netVars, interest, ev, blkcnt, cut>>
  BY <1>3 DEF OrderInv, Streams, Flights, OnePlace, Flight, netVars
<1>4. ASSUME NEW s \in Taken(b), echoed' = [echoed EXCEPT ![c] = echoed[c] \o s],
             ReceiveNext(f), UNCHANGED <<peer, sent, inbox, backlog, open, blkcnt>>
      PROVE  OrderInv'
  <2>1. PICK n \in 0..Len(b) : s = SubSeq(b, 1, n)
    BY <1>1, <1>4 DEF Taken
  <2>2. /\ echoed'[c] = echoed[c] \o SubSeq(b, 1, n)
        /\ \A d \in Conns : d # c => echoed'[d] = echoed[d]
    BY <1>1, <1>4, <2>1
  <2>3. InOrder(echoed'[c], <<>>, inbox[c], sent[c])
    <3>1. InOrder(echoed[c], b, inbox[c], sent[c])
      BY <1>1 DEF OrderInv, Flights, Flight
    <3> QED
      BY <1>1, <2>2, <3>1, SentInOrder
  <2>4. ev[f] = [ev[f] EXCEPT !.buffer = b]
    BY <1>1 DEF Record
  <2>5. ev'[f].callback = "recv_cb" /\ \A g \in Fds : g # f => ev'[g] = ev[g]
    <3> DEFINE p == <<"in", "recv_cb">>
    <3>1. p \in {<<"in", "recv_cb">>, <<"out", "send_cb">>} /\ p[2] = "recv_cb"
      OBVIOUS
    <3>2. /\ TurnAround(e.fd, [ev[e.fd] EXCEPT !.buffer = b], p[2], p[1])
          /\ open' = open /\ blkcnt' = blkcnt
      BY <1>4, <2>4 DEF ReceiveNext
    <3>3. b \in Seq(Bytes)
      BY <1>1
    <3> HIDE DEF c, b, p
    <3> QED
      BY <3>1, <3>2, <3>3, OfBytes, TurnAroundKeeps
  <2> HIDE DEF b
  <2>6. Flight(f)' = <<>>
    BY <2>5 DEF Flight
  <2>7. Streams' /\ Flights'
    <3>1. /\ \A g \in Fds : open'[g] # NoConn => open[g] = open'[g]
          /\ \A d \in Conns : d # open[f] => inbox'[d] = inbox[d] /\ echoed'[d] = echoed[d]
          /\ sent' = sent
      BY <1>4, <2>2
    <3>2. /\ InOrder(echoed'[open[f]], <<>>, inbox'[open[f]], sent[open[f]])
          /\ InOrder(echoed'[open[f]], Flight(f)', inbox'[open[f]], sent[open[f]])
      BY <1>4, <2>3, <2>6
    <3> HIDE DEF f
    <3> QED
      BY <1>1, <2>5, <3>1, <3>2, OthersKept
  <2>8. OnePlace'
    BY <1>1, <1>4, PlacesKept, Queued DEF OrderInv, TypeOK
  <2> QED
    BY <2>7, <2>8 DEF OrderInv
<1> QED
  BY <1>2, <1>3, <1>4 DEF send_cb

LEMMA DispatchOrder == ASSUME IInv, OrderInv, Dispatch PROVE OrderInv'
<1>1. PICK e \in batch :
         /\ batch' = batch \ {e}
         /\ \/ UNCHANGED <<netVars, interest, ev, blkcnt, alive, cut>>
            \/ accept_cb /\ UNCHANGED <<alive, cut>>
            \/ ev[e.fd].callback = "recv_cb" /\ recv_cb(e.fd) /\ UNCHANGED <<alive, cut>>
            \/ ev[e.fd].callback = "send_cb" /\ send_cb(e.fd)
  BY DEF Dispatch, Advanced
<1>2. CASE UNCHANGED <<netVars, interest, ev, blkcnt, alive, cut>>
  BY <1>2 DEF OrderInv, Streams, Flights, OnePlace, Flight, netVars
<1>3. ev[e.fd].callback \in {"recv_cb", "send_cb"} => e.fd # listener
  BY DEF IInv, ListenerInv
<1> QED
  BY <1>1, <1>2, <1>3, AcceptOrder, RecvOrder, SendOrder

(* A connection enters the backlog once. *)
LEMMA PeersPlaces ==
    ASSUME NEW B, Structure(B), OnePlace, Peers
    PROVE  OnePlace'
<1>1. /\ backlog \in Seq(Conns) /\ open \in [Fds -> Conns \cup {NoConn}]
      /\ peer \in [Conns -> {"new", "open", "fin", "reset", "broken"}]
  BY DEF Structure, Shaped, Typed
<1>2. ASSUME NEW c \in Conns, Connect(c) PROVE OnePlace'
  <2>1. /\ peer[c] = "new" /\ c # NoConn /\ open' = open
        /\ \A d \in Conns : peer'[d] = "new" => peer[d] = "new"
        /\ peer'[c] # "new"
    BY <1>1, <1>2, NoConnAssumption DEF Connect, unchangedByPeers
  <2>2. /\ \A i \in DOMAIN backlog : backlog[i] # c
        /\ \A f \in Fds : open[f] # c
    BY <2>1 DEF OnePlace
  <2> DEFINE n == Len(backlog)
  <2>3. /\ n \in Nat /\ DOMAIN backlog = 1..n
        /\ \A i \in DOMAIN backlog : backlog[i] \in Conns /\ backlog[i] # NoConn
    BY <1>1, Queued
  <2>4. /\ DOMAIN backlog' = 1..(n + 1)
        /\ backlog'[n + 1] = c /\ \A i \in 1..n : backlog'[i] = backlog[i]
    <3>1. /\ backlog' \in Seq(Conns) /\ Len(backlog') = n + 1
          /\ backlog'[n + 1] = c /\ \A i \in 1..n : backlog'[i] = backlog[i]
      BY <1>1, <1>2, AppendProperties DEF Connect
    <3>2. DOMAIN backlog' = 1..(n + 1)
      BY <3>1, LenProperties
    <3> QED
      BY <3>1, <3>2
  <2> HIDE DEF n
  <2>5. \A i \in DOMAIN backlog' : \/ i \in DOMAIN backlog /\ backlog'[i] = backlog[i]
                                   \/ i = n + 1 /\ backlog'[i] = c
    BY <2>3, <2>4
  <2>6. \A i, j \in DOMAIN backlog' : backlog'[i] = backlog'[j] => i = j
    BY <2>2, <2>5 DEF OnePlace
  <2>7. \A i \in DOMAIN backlog', f \in Fds : backlog'[i] # open'[f]
    BY <2>1, <2>2, <2>5 DEF OnePlace
  <2>8. \A i \in DOMAIN backlog' : peer'[backlog'[i]] # "new"
    BY <2>1, <2>3, <2>5 DEF OnePlace
  <2>9. \A f \in Fds : open'[f] # NoConn => peer'[open'[f]] # "new"
    BY <1>1, <2>1 DEF OnePlace
  <2> QED
    BY <2>1, <2>6, <2>7, <2>8, <2>9 DEF OnePlace
<1>3. ASSUME NEW c \in Conns, Send(c) PROVE OnePlace'
  BY <1>3 DEF Send, unchangedByPeers, OnePlace
<1>4. ASSUME NEW c \in Conns, Hangup(c) PROVE OnePlace'
  <2>1. \A d \in Conns : peer'[d] = "new" => peer[d] = "new"
    BY <1>1, <1>4 DEF Hangup
  <2>2. backlog' = backlog /\ open' = open
    BY <1>4 DEF Hangup, unchangedByPeers
  <2> QED
    BY <1>1, <2>1, <2>2, Queued DEF OnePlace
<1>5. ASSUME NEW c \in Conns, Drain(c) PROVE OnePlace'
  BY <1>5 DEF Drain, unchangedByPeers, OnePlace
<1> QED
  BY <1>2, <1>3, <1>4, <1>5 DEF Peers

LEMMA PeersOrder == ASSUME IInv, OrderInv, Peers PROVE OrderInv'
<1>1. TypeOK
  BY DEF IInv, WellFormed
<1>2. ASSUME NEW c \in Conns, Connect(c) PROVE Streams' /\ Flights'
  BY <1>2 DEF Connect, unchangedByPeers, OrderInv, Streams, Flights, Flight
<1>3. ASSUME NEW c \in Conns, Send(c) PROVE Streams' /\ Flights'
  <2>1. /\ sent'[c] = sent[c] + 1 /\ inbox'[c] = Append(inbox[c], <<c, sent[c] + 1>>)
        /\ \A d \in Conns : d # c => sent'[d] = sent[d] /\ inbox'[d] = inbox[d]
        /\ echoed' = echoed /\ open' = open /\ ev' = ev /\ peer' = peer /\ backlog' = backlog
    BY <1>1, <1>3 DEF Send, unchangedByPeers, TypeOK
  <2>2. /\ sent[c] \in Nat /\ <<c, sent[c] + 1>> \in Bytes
        /\ echoed[c] \in Seq(Bytes) /\ inbox[c] \in Seq(Bytes)
    <3>1. sent[c] \in 0..MaxSend /\ sent[c] < MaxSend /\ MaxSend \in Nat
      BY <1>1, <1>3, ReactorAssumption DEF Send, TypeOK
    <3>2. sent[c] \in Nat /\ sent[c] + 1 \in 1..MaxSend
      BY <3>1
    <3>3. <<c, sent[c] + 1>> \in Bytes
      BY <3>2 DEF Bytes
    <3>4. echoed[c] \in Seq(Bytes) /\ inbox[c] \in Seq(Bytes)
      BY <1>1 DEF TypeOK
    <3> QED
      BY <3>2, <3>3, <3>4
  <2>3. ASSUME NEW t \in Seq(Bytes), InOrder(echoed[c], t, inbox[c], sent[c])
        PROVE  InOrder(echoed[c], t, inbox'[c], sent'[c])
    BY <2>1, <2>2, <2>3, NextInOrder
  <2>4. Streams'
    <3>1. <<>> \in Seq(Bytes)
      OBVIOUS
    <3> QED
      BY <2>1, <2>3, <3>1 DEF OrderInv, Streams
  <2>5. Flights'
    <3> SUFFICES ASSUME NEW f \in Fds, open[f] # NoConn
                 PROVE  InOrder(echoed[open[f]], Flight(f), inbox'[open[f]], sent'[open[f]])
      BY <2>1 DEF Flights, Flight
    <3>1. open[f] \in Conns /\ InOrder(echoed[open[f]], Flight(f), inbox[open[f]], sent[open[f]])
      BY <1>1 DEF OrderInv, Flights, TypeOK
    <3>2. Flight(f) \in Seq(Bytes)
      BY <1>1 DEF Flight, TypeOK
    <3>3. CASE open[f] = c
      BY <2>3, <3>1, <3>2, <3>3
    <3>4. CASE open[f] # c
      BY <2>1, <3>1, <3>4
    <3> QED
      BY <3>3, <3>4
  <2> QED
    BY <2>4, <2>5
<1>4. ASSUME NEW c \in Conns, Hangup(c) PROVE Streams' /\ Flights'
  BY <1>4 DEF Hangup, unchangedByPeers, OrderInv, Streams, Flights, Flight
<1>5. ASSUME NEW c \in Conns, Drain(c) PROVE Streams' /\ Flights'
  BY <1>5 DEF Drain, unchangedByPeers, OrderInv, Streams, Flights, Flight
<1> QED
  BY <1>2, <1>3, <1>4, <1>5, OfBytes, PeersPlaces DEF Peers, OrderInv

LEMMA OrderAlways == Spec => []OrderInv
<1>1. Init => OrderInv
  <2> SUFFICES ASSUME Init PROVE OrderInv
    OBVIOUS
  <2>1. \A c \in Conns : InOrder(<<>>, <<>>, <<>>, sent[c])
    BY NoneInOrder DEF InOrder
  <2>2. Streams /\ Flights
    BY <2>1 DEF Init, Streams, Flights
  <2>3. OnePlace
    BY DEF Init, OnePlace
  <2> QED
    BY <2>2, <2>3 DEF OrderInv
<1>2. IInv /\ OrderInv /\ [Next]_vars => OrderInv'
  <2> SUFFICES ASSUME IInv, OrderInv, [Next]_vars PROVE OrderInv'
    OBVIOUS
  <2>1. CASE UNCHANGED netVars /\ UNCHANGED ev
    BY <2>1 DEF OrderInv, Streams, Flights, OnePlace, Flight, netVars
  <2>2. EpollWait \/ UNCHANGED vars => UNCHANGED netVars /\ UNCHANGED ev
    BY DEF EpollWait, vars, netVars
  <2> QED
    BY <2>1, <2>2, PeersOrder, DispatchOrder DEF Next
<1> QED
  BY <1>1, <1>2, Invariance, PTL DEF Spec
-----------------------------------------------------------------------------
(* The refinement of EchoChannel.  What is owed to a connection depends on *)
(* where it is: behind a descriptor, in the backlog, or nowhere.           *)
Owed(c) == IF Current(c) THEN InBuffer(c) \o inbox[c] ELSE <<>>

OwedByPlace ==
    \A c \in Conns :
       /\ \A f \in Fds : open[f] = c => Owed(c) = Flight(f) \o inbox[c]
       /\ c \in Unserved => Owed(c) = inbox[c]
       /\ c \notin Unserved \cup Served => Owed(c) = <<>>

(* Nothing has arrived on a connection that there is not yet. *)
Silent == \A c \in Conns : peer[c] = "new" => inbox[c] = <<>>

LEMMA OwedIsKnown == TypeOK /\ OnePlace => OwedByPlace
<1> SUFFICES ASSUME TypeOK, OnePlace, NEW c \in Conns
             PROVE  /\ \A f \in Fds : open[f] = c => Owed(c) = Flight(f) \o inbox[c]
                    /\ c \in Unserved => Owed(c) = inbox[c]
                    /\ c \notin Unserved \cup Served => Owed(c) = <<>>
  BY DEF OwedByPlace
<1> DEFINE F == {f \in Fds : open[f] = c /\ ev[f].callback = "send_cb"}
<1>1. inbox[c] \in Seq(Bytes) /\ c # NoConn
  BY NoConnAssumption DEF TypeOK
<1>2. ASSUME NEW f \in Fds, open[f] = c PROVE Owed(c) = Flight(f) \o inbox[c]
  <2>1. Current(c)
    BY <1>1, <1>2 DEF Current, Served
  <2>2. \A g \in F : g = f
    BY <1>1, <1>2 DEF OnePlace
  <2>3. InBuffer(c) = Flight(f)
    <3>1. CASE ev[f].callback = "send_cb"
      <4>1. F = {f}
        BY <1>2, <2>2, <3>1
      <4>2. F # {} /\ (CHOOSE g \in F : TRUE) = f
        BY <4>1
      <4> QED
        BY <3>1, <4>2 DEF InBuffer, Flight
    <3>2. CASE ev[f].callback # "send_cb"
      <4>1. F = {}
        BY <2>2, <3>2
      <4> QED
        BY <3>2, <4>1 DEF InBuffer, Flight
    <3> QED
      BY <3>1, <3>2
  <2> QED
    BY <2>1, <2>3 DEF Owed
<1>3. ASSUME c \in Unserved PROVE Owed(c) = inbox[c]
  <2>1. F = {}
    BY <1>3 DEF OnePlace, Unserved
  <2>2. InBuffer(c) = <<>> /\ Current(c)
    BY <1>3, <2>1 DEF InBuffer, Current
  <2> QED
    BY <1>1, <2>2, ConcatEmptySeq DEF Owed
<1>4. c \notin Unserved \cup Served => Owed(c) = <<>>
  BY DEF Owed, Current
<1> QED
  BY <1>2, <1>3, <1>4

LEMMA SilentAlways == Spec => []Silent
<1>1. Init => Silent
  BY DEF Init, Silent
<1>2. IInv /\ OrderInv /\ Silent /\ [Next]_vars => Silent'
  <2> SUFFICES ASSUME IInv, OrderInv, Silent, [Next]_vars, NEW c \in Conns, peer'[c] = "new"
               PROVE  inbox'[c] = <<>>
    BY DEF Silent
  <2>1. TypeOK
    BY DEF IInv, WellFormed
  <2>2. CASE Peers
    <3>1. peer[c] = "new" /\ inbox'[c] = inbox[c]
      BY <2>1, <2>2 DEF Peers, Connect, Send, Hangup, Drain, TypeOK
    <3> QED
      BY <3>1 DEF Silent
  <2>3. CASE UNCHANGED <<peer, inbox>>
    BY <2>3 DEF Silent
  <2>4. ASSUME NEW e \in batch, recv_cb(e.fd), ev[e.fd].callback = "recv_cb"
        PROVE  inbox'[c] = <<>>
    <3>1. e.fd \in Fds /\ open[e.fd] \in Conns
      BY <2>1, <2>4 DEF TypeOK, IInv, EventsAreOpen, ListenerInv
    <3>2. peer' = peer /\ peer[open[e.fd]] # "new"
      BY <3>1, <2>4, NoConnAssumption DEF recv_cb, OrderInv, OnePlace
    <3>3. inbox'[c] = inbox[c]
      BY <2>1, <2>4, <3>2 DEF recv_cb, TypeOK
    <3> QED
      BY <3>2, <3>3 DEF Silent
  <2>5. Dispatch => \/ UNCHANGED <<peer, inbox>>
                    \/ \E e \in batch : recv_cb(e.fd) /\ ev[e.fd].callback = "recv_cb"
    BY DEF Dispatch, accept_cb, send_cb, netVars
  <2>6. EpollWait \/ UNCHANGED vars => UNCHANGED <<peer, inbox>>
    BY DEF EpollWait, vars, netVars
  <2> QED
    BY <2>2, <2>3, <2>4, <2>5, <2>6 DEF Next
<1> QED
  BY <1>1, <1>2, Invariance, OrderAlways, PTL DEF Spec

(* A connection that a step does not touch is owed what it was. *)
LEMMA OwedElsewhere ==
    ASSUME OwedByPlace, OwedByPlace', NEW c \in Conns, inbox'[c] = inbox[c], c # NoConn,
           \A f \in Fds : open[f] = c => open'[f] = c /\ Flight(f)' = Flight(f),
           c \in Unserved => c \in Unserved',
           c \notin Unserved \cup Served => c \notin Unserved' \cup Served'
    PROVE  Owed(c)' = Owed(c)
<1>1. CASE c \in Served
  <2>1. PICK f \in Fds : open[f] = c
    BY <1>1 DEF Served
  <2>2. Owed(c) = Flight(f) \o inbox[c] /\ Owed(c)' = Flight(f)' \o inbox'[c]
    BY <2>1 DEF OwedByPlace
  <2> QED
    BY <2>1, <2>2
<1>2. CASE c \in Unserved
  BY <1>2 DEF OwedByPlace
<1>3. CASE c \notin Unserved \cup Served
  BY <1>3 DEF OwedByPlace
<1> QED
  BY <1>1, <1>2, <1>3

(* The steps of EchoChannel, in terms of Owed. *)
LEMMA Quiet ==
    ASSUME \A c \in Conns : Owed(c)' = Owed(c), UNCHANGED <<echoed, cut>>
    PROVE  UNCHANGED Echo!chanVars
  BY DEF Owed, Echo!chanVars

LEMMA Offers ==
    ASSUME NEW c \in Conns, NEW k \in 1..MaxSend, Owed(c)' = Append(Owed(c), <<c, k>>),
           \A d \in Conns : d # c => Owed(d)' = Owed(d), UNCHANGED <<echoed, cut>>
    PROVE  Echo!Next
<1> DEFINE o == [d \in Conns |-> Owed(d)]
<1>1. o' = [o EXCEPT ![c] = Append(@, <<c, k>>)]
  OBVIOUS
<1>2. Echo!Offer(c)
  BY <1>1 DEF Echo!Offer, Owed
<1> QED
  BY <1>2 DEF Echo!Next

LEMMA Finishes ==
    ASSUME NEW c \in Conns, Owed(c)' = <<>>,
           \A d \in Conns : d # c => Owed(d)' = Owed(d), UNCHANGED <<echoed, cut>>
    PROVE  Echo!Next
<1> DEFINE o == [d \in Conns |-> Owed(d)]
<1>1. o' = [o EXCEPT ![c] = <<>>]
  OBVIOUS
<1>2. Echo!Finish(c)
  BY <1>1 DEF Echo!Finish, Owed
<1> QED
  BY <1>2 DEF Echo!Next

LEMMA Echoes ==
    ASSUME NEW c \in Conns, NEW n \in 1..Len(Owed(c)), NEW m \in 1..n,
           echoed' = [echoed EXCEPT ![c] = @ \o SubSeq(Owed(c), 1, m)],
           Owed(c)' = SubSeq(Owed(c), n + 1, Len(Owed(c))),
           cut' = IF m = n THEN cut ELSE cut \cup {c},
           \A d \in Conns : d # c => Owed(d)' = Owed(d)
    PROVE  Echo!Next
<1> DEFINE o == [d \in Conns |-> Owed(d)]
<1>1. o[c] = Owed(c) /\ o' = [o EXCEPT ![c] = SubSeq(@, n + 1, Len(@))]
  OBVIOUS
<1>2. /\ n \in 1..Len(o[c])
      /\ echoed' = [echoed EXCEPT ![c] = @ \o SubSeq(o[c], 1, m)]
  BY <1>1
<1>3. Echo!Echo(c)
  BY <1>1, <1>2 DEF Echo!Echo, Owed
<1> QED
  BY <1>3 DEF Echo!Next

(* The steps of the server and its clients, one by one. *)
LEMMA AcceptQuiet ==
    ASSUME IInv, OrderInv, OwedByPlace, OwedByPlace', accept_cb
    PROVE  \A d \in Conns : Owed(d)' = Owed(d)
<1>1. CASE UNCHANGED <<netVars, interest, ev, blkcnt>>
  BY <1>1, NoConnAssumption, OwedElsewhere DEF netVars, Flight, Unserved, Served
<1>2. ASSUME NEW f \in FreeFds, backlog # <<>>,
             open' = [open EXCEPT ![f] = Head(backlog)],
             backlog' = Tail(backlog),
             ev' = [ev EXCEPT ![f] = nty_event_add(nty_event_set(ev[f], "recv_cb"), "in")],
             UNCHANGED <<peer, sent, inbox, echoed>>
      PROVE  \A d \in Conns : Owed(d)' = Owed(d)
  <2> DEFINE q == nty_event_add(nty_event_set(ev[f], "recv_cb"), "in")
             n == Len(backlog)
  <2>1. /\ f \in Fds /\ open[f] = NoConn /\ ev[f] \in Record(Bytes) /\ TypeOK
        /\ ev \in [Fds -> Record(Bytes)] /\ open \in [Fds -> Conns \cup {NoConn}]
        /\ backlog \in Seq(Conns) /\ inbox \in [Conns -> Seq(Bytes)]
    BY <1>2 DEF IInv, WellFormed, TypeOK, FreeFds, Record
  <2>2. q.callback = "recv_cb"
    BY <2>1 DEF Record, nty_event_add, nty_event_set
  <2>3. n \in Nat /\ DOMAIN backlog = 1..n /\ n # 0
    BY <1>2, <2>1, Queued
  <2>4. PICK c \in Conns : /\ c = Head(backlog) /\ c = backlog[1] /\ 1 \in DOMAIN backlog
                           /\ c \in Unserved
    <3>1. Head(backlog) = backlog[1] /\ 1 \in DOMAIN backlog /\ backlog[1] \in Conns
      BY <2>1, <2>3
    <3> QED
      BY <3>1 DEF Unserved
  <2>5. /\ DOMAIN backlog' = 1..(n - 1)
        /\ \A i \in 1..(n - 1) : i + 1 \in DOMAIN backlog /\ backlog'[i] = backlog[i + 1]
    <3>1. /\ backlog' \in Seq(Conns) /\ Len(backlog') = n - 1
          /\ \A i \in 1..Len(backlog') : backlog'[i] = backlog[i + 1]
      BY <1>2, <2>1, HeadTailProperties
    <3>2. DOMAIN backlog' = 1..(n - 1)
      BY <3>1, LenProperties
    <3> QED
      BY <2>3, <3>1, <3>2
  <2>6. ev' = [ev EXCEPT ![f] = q] /\ open' = [open EXCEPT ![f] = c]
    BY <1>2, <2>4
  <2> HIDE DEF q, n
  <2>7. /\ \A g \in Fds : g # f => ev'[g] = ev[g] /\ open'[g] = open[g]
        /\ ev'[f].callback = "recv_cb" /\ open'[f] = c
    BY <2>1, <2>2, <2>6
  <2>8. Owed(c)' = Owed(c)
    <3>1. Owed(c)' = Flight(f)' \o inbox[c]
      BY <1>2, <2>1, <2>7 DEF OwedByPlace
    <3>0. Flight(f)' = <<>>
      BY <2>7 DEF Flight
    <3>2. Owed(c) = inbox[c]
      BY <2>4 DEF OwedByPlace
    <3>3. inbox[c] \in Seq(Bytes)
      BY <2>1, <2>4
    <3> QED
      BY <3>1, <3>2, <3>3, <3>0, ConcatEmptySeq
  <2>9. ASSUME NEW d \in Conns, d # c PROVE Owed(d)' = Owed(d)
    <3>1. d # NoConn
      BY NoConnAssumption
    <3>2. \A g \in Fds : open[g] = d => open'[g] = d /\ Flight(g)' = Flight(g)
      BY <2>1, <2>7, <3>1 DEF Flight
    <3>3. d \in Unserved => d \in Unserved'
      <4> SUFFICES ASSUME d \in Unserved PROVE d \in Unserved'
        OBVIOUS
      <4>1. PICK i \in DOMAIN backlog : backlog[i] = d
        BY DEF Unserved
      <4>2. i \in 1..n /\ i # 1
        BY <2>3, <2>4, <2>9, <4>1
      <4>3. i - 1 \in 1..(n - 1) /\ (i - 1) + 1 = i
        BY <2>3, <4>2
      <4>4. i - 1 \in DOMAIN backlog' /\ backlog'[i - 1] = d
        BY <2>5, <4>1, <4>3
      <4> QED
        BY <4>4 DEF Unserved
    <3>4. d \notin Unserved \cup Served => d \notin Unserved' \cup Served'
      <4>1. d \notin Unserved => d \notin Unserved'
        BY <2>5 DEF Unserved
      <4>2. d \notin Served => d \notin Served'
        BY <2>1, <2>7, <2>9, <3>1 DEF Served
      <4> QED
        BY <2>9, <4>1, <4>2
    <3> QED
      BY <1>2, <3>1, <3>2, <3>3, <3>4, OwedElsewhere
  <2> QED
    BY <2>8, <2>9
<1> QED
  BY <1>1, <1>2 DEF accept_cb

LEMMA CloseFinishes ==
    ASSUME IInv, OrderInv, OwedByPlace, OwedByPlace',
           NEW e \in batch, batch' = batch \ {e}, e.fd # listener,
           CloseFd(e.fd), UNCHANGED <<peer, sent, inbox, echoed, backlog, blkcnt, cut>>
    PROVE  Echo!Next
<1> DEFINE f == e.fd
<1>7. PICK c \in Conns : c = open[f]
  BY DEF IInv, WellFormed, TypeOK, EventsAreOpen
<1>1. /\ f \in Fds /\ c = open[f] /\ c # NoConn /\ TypeOK
      /\ open \in [Fds -> Conns \cup {NoConn}]
  BY <1>7, NoConnAssumption DEF IInv, WellFormed, TypeOK
<1>2. open' = [open EXCEPT ![f] = NoConn] /\ Unserved' = Unserved
  BY DEF CloseFd, Closed, Unserved
<1>3. \A g \in Fds : open'[g] # NoConn => open[g] = open'[g] /\ ev[g] = ev'[g]
  BY OfBytes, CloseKeeps
<1>4. \A g \in Fds : g # f => open'[g] = open[g] /\ open[g] # c
  BY <1>1, <1>2 DEF OrderInv, OnePlace
<1>5. Owed(c)' = <<>>
  <2>1. c \notin Served' /\ c \notin Unserved'
    BY <1>1, <1>2, <1>4 DEF OrderInv, OnePlace, Served, Unserved
  <2> QED
    BY <1>1, <2>1 DEF OwedByPlace
<1>6. ASSUME NEW d \in Conns, d # c PROVE Owed(d)' = Owed(d)
  <2>1. d # NoConn
    BY NoConnAssumption
  <2>2. \A g \in Fds : open[g] = d => open'[g] = d /\ Flight(g)' = Flight(g)
    BY <1>1, <1>3, <1>4, <1>6, <2>1 DEF Flight
  <2>3. d \notin Served => d \notin Served'
    BY <1>3, <2>1 DEF Served
  <2> QED
    BY <1>2, <2>1, <2>2, <2>3, OwedElsewhere
<1> QED
  BY <1>5, <1>6, Finishes

(* What recv takes stays owed; what is left of it comes behind. *)
LEMMA RecvMaps ==
    ASSUME IInv, OrderInv, OwedByPlace, OwedByPlace',
           NEW e \in batch, batch' = batch \ {e}, e.fd # listener,
           ev[e.fd].callback = "recv_cb", recv_cb(e.fd), UNCHANGED <<alive, cut>>
    PROVE  Echo!Next \/ UNCHANGED Echo!chanVars
<1>5. PICK c \in Conns : c = open[e.fd]
  BY DEF IInv, WellFormed, TypeOK, EventsAreOpen
<1> DEFINE f == e.fd
           n == IF Len(inbox[c]) < BUFFER_LENGTH THEN Len(inbox[c]) ELSE BUFFER_LENGTH
           b == Received(c)
<1>1. /\ f \in Fds /\ c = open[f] /\ c # NoConn /\ TypeOK /\ inbox[c] \in Seq(Bytes)
      /\ inbox \in [Conns -> Seq(Bytes)] /\ open \in [Fds -> Conns \cup {NoConn}]
  BY <1>5, NoConnAssumption DEF IInv, WellFormed, TypeOK
<1>2. n \in 0..Len(inbox[c])
  BY <1>1, ReactorAssumption
<1>3. CASE CloseFd(f) /\ UNCHANGED <<peer, sent, inbox, echoed, backlog, full, blkcnt>>
  BY <1>3, CloseFinishes
<1>4. ASSUME TurnAround(f, [ev[f] EXCEPT !.buffer = b], "send_cb", "out"),
             inbox' = [inbox EXCEPT ![c] = SubSeq(inbox[c], Len(b) + 1, Len(inbox[c]))],
             UNCHANGED <<peer, sent, echoed, backlog, open, full, blkcnt>>
      PROVE  UNCHANGED Echo!chanVars
  <2>1. b = SubSeq(inbox[c], 1, n)
    BY DEF Received
  <2> HIDE DEF n
  <2>2. b \in Seq(Bytes) /\ Len(b) = n
    BY <1>1, <1>2, <2>1, Cuts, LenProperties
  <2>3. /\ inbox'[c] = SubSeq(inbox[c], n + 1, Len(inbox[c]))
        /\ \A d \in Conns : d # c => inbox'[d] = inbox[d]
    BY <1>1, <1>4, <2>2
  <2>4. /\ ev'[f].callback = "send_cb" /\ ev'[f].buffer = b
        /\ \A g \in Fds : g # f => ev'[g] = ev[g]
    <3> DEFINE p == <<"out", "send_cb">>
    <3>1. p \in {<<"in", "recv_cb">>, <<"out", "send_cb">>} /\ p[2] = "send_cb"
      OBVIOUS
    <3>2. /\ TurnAround(e.fd, [ev[e.fd] EXCEPT !.buffer = b], p[2], p[1])
          /\ open' = open /\ blkcnt' = blkcnt
      BY <1>4
    <3>3. b \in Seq(Bytes)
      BY <2>2
    <3> HIDE DEF b, p
    <3> QED
      BY <3>1, <3>2, <3>3, OfBytes, TurnAroundKeeps
  <2>5. b \o inbox'[c] = inbox[c]
    <3> DEFINE u == inbox[c]
    <3>1. u \in Seq(Bytes) /\ n \in 0..Len(u) /\ Len(u) \in Nat
      BY <1>1, <1>2
    <3> HIDE DEF u
    <3>2. /\ 1 \in 1..(Len(u) + 1) /\ n \in (1 - 1)..Len(u) /\ Len(u) \in n..Len(u)
      BY <3>1
    <3>3. SubSeq(u, 1, n) \o SubSeq(u, n + 1, Len(u)) = SubSeq(u, 1, Len(u))
      BY <3>1, <3>2, ConcatAdjacentSubSeq
    <3>4. SubSeq(u, 1, Len(u)) = u
      BY <3>1, SubSeqFull
    <3> QED
      BY <2>1, <2>3, <3>3, <3>4 DEF u
  <2> HIDE DEF b
  <2>6. Owed(c)' = Owed(c)
    <3>1. Owed(c) = Flight(f) \o inbox[c] /\ Flight(f) = <<>>
      BY <1>1 DEF OwedByPlace, Flight
    <3>2. Owed(c)' = Flight(f)' \o inbox'[c] /\ Flight(f)' = b
      BY <1>1, <1>4, <2>4 DEF OwedByPlace, Flight
    <3> QED
      BY <1>1, <2>5, <3>1, <3>2, ConcatEmptySeq
  <2>7. ASSUME NEW d \in Conns, d # c PROVE Owed(d)' = Owed(d)
    <3>1. \A g \in Fds : open[g] = d => open'[g] = d /\ Flight(g)' = Flight(g)
      BY <1>1, <1>4, <2>4, <2>7 DEF Flight
    <3>2. Unserved' = Unserved /\ Served' = Served
      BY <1>4 DEF Unserved, Served
    <3> QED
      BY <2>3, <2>7, <3>1, <3>2, NoConnAssumption, OwedElsewhere
  <2> QED
    BY <1>4, <2>6, <2>7, Quiet
<1> QED
  BY <1>1, <1>3, <1>4 DEF recv_cb

(* A part of a concatenation in front, and the rest behind it. *)
LEMMA FrontAndRest ==
    ASSUME NEW b \in Seq(Bytes), NEW u \in Seq(Bytes), NEW m \in 1..Len(b)
    PROVE  /\ SubSeq(b \o u, 1, m) = SubSeq(b, 1, m)
           /\ SubSeq(b \o u, Len(b) + 1, Len(b \o u)) = u
           /\ Len(b) \in 1..Len(b \o u)
<1>1. /\ Len(b) \in Nat /\ Len(u) \in Nat /\ Len(b \o u) = Len(b) + Len(u)
      /\ 1 \in 1..Len(b)
  BY ConcatProperties
<1>2. SubSeq(b \o u, 1, m) = SubSeq(b, 1, m)
  BY <1>1, SubSeqOfConcat1
<1>3. CASE u = <<>>
  <2>1. b \o u = b /\ SubSeq(b, Len(b) + 1, Len(b)) = <<>>
    BY <1>1, <1>3, ConcatEmptySeq, SubSeqEmpty
  <2> QED
    BY <1>1, <1>2, <1>3, <2>1
<1>4. CASE u # <<>>
  <2> DEFINE k == Len(b)
             h == Len(u)
  <2>1. k \in Nat /\ h \in Nat \ {0}
    BY <1>1, <1>4, EmptySeq
  <2>2. /\ k + 1 \in (k + 1)..(k + h) /\ k + h \in (k + 1)..(k + h)
        /\ (k + 1) - k = 1 /\ (k + h) - k = h
    BY <2>1
  <2>3. SubSeq(b \o u, k + 1, k + h) = SubSeq(u, (k + 1) - k, (k + h) - k)
    BY <2>2, SubSeqOfConcat2
  <2>4. SubSeq(u, 1, h) = u
    BY SubSeqFull
  <2>5. SubSeq(b \o u, k + 1, k + h) = u
    BY <2>2, <2>3, <2>4
  <2> QED
    BY <1>1, <1>2, <2>5
<1> QED
  BY <1>3, <1>4

(* Whatever send took is sent back, and the whole buffer is dealt with. *)
LEMMA SendMaps ==
    ASSUME IInv, OrderInv, OwedByPlace, OwedByPlace',
           NEW e \in batch, batch' = batch \ {e}, e.fd # listener,
           ev[e.fd].callback = "send_cb", send_cb(e.fd)
    PROVE  Echo!Next \/ UNCHANGED Echo!chanVars
<1>1. PICK c \in Conns : c = open[e.fd]
  BY DEF IInv, WellFormed, TypeOK, EventsAreOpen
<1> DEFINE f == e.fd
           b == ev[f].buffer
<1>2. /\ f \in Fds /\ c = open[f] /\ c # NoConn /\ TypeOK
      /\ inbox[c] \in Seq(Bytes) /\ open \in [Fds -> Conns \cup {NoConn}]
      /\ ev[f] \in Record(Bytes) /\ b \in Seq(Bytes)
  BY <1>1, NoConnAssumption DEF IInv, WellFormed, TypeOK, Record
<1>3. CASE CloseFd(f) /\ UNCHANGED <<peer, sent, inbox, echoed, backlog, blkcnt, cut>>
  BY <1>3, CloseFinishes
<1>4. CASE UNCHANGED <<netVars, interest, ev, blkcnt, cut>>
  <2>1. \A d \in Conns : Owed(d)' = Owed(d)
    BY <1>4, NoConnAssumption, OwedElsewhere DEF netVars, Flight, Unserved, Served
  <2> QED
    BY <1>4, <2>1, Quiet DEF netVars
<1>5. ASSUME NEW s \in Taken(b), echoed' = [echoed EXCEPT ![c] = @ \o s],
             cut' = IF s = b THEN cut ELSE cut \cup {c},
             full' = full \/ full' = full \cup {c},
             ReceiveNext(f), UNCHANGED <<peer, sent, inbox, backlog, open, blkcnt>>
      PROVE  Echo!Next
  <2>1. PICK m \in 1..Len(b) : s = SubSeq(b, 1, m)
    BY <1>5 DEF Taken
  <2>2. s = b <=> m = Len(b)
    <3>1. m = Len(b) => s = b
      BY <1>2, <2>1, SubSeqFull
    <3>2. Len(s) = m
      <4>1. m \in 0..Len(b)
        OBVIOUS
      <4> QED
        BY <1>2, <2>1, <4>1, Cuts, LenProperties
    <3> QED
      BY <3>1, <3>2
  <2>3. ev[f] = [ev[f] EXCEPT !.buffer = b]
    BY <1>2 DEF Record
  <2>4. ev'[f].callback = "recv_cb" /\ \A g \in Fds : g # f => ev'[g] = ev[g]
    <3> DEFINE p == <<"in", "recv_cb">>
    <3>1. p \in {<<"in", "recv_cb">>, <<"out", "send_cb">>} /\ p[2] = "recv_cb"
      OBVIOUS
    <3>2. /\ TurnAround(e.fd, [ev[e.fd] EXCEPT !.buffer = b], p[2], p[1])
          /\ open' = open /\ blkcnt' = blkcnt
      BY <1>5, <2>3 DEF ReceiveNext
    <3>3. b \in Seq(Bytes)
      BY <1>2
    <3> HIDE DEF b, p
    <3> QED
      BY <3>1, <3>2, <3>3, OfBytes, TurnAroundKeeps
  <2>5. Owed(c) = b \o inbox[c]
    BY <1>2 DEF OwedByPlace, Flight
  <2>6. Owed(c)' = inbox[c]
    <3>1. Owed(c)' = Flight(f)' \o inbox[c]
      BY <1>2, <1>5 DEF OwedByPlace
    <3>2. Flight(f)' = <<>>
      BY <2>4 DEF Flight
    <3> QED
      BY <1>2, <3>1, <3>2, ConcatEmptySeq
  <2>7. ASSUME NEW d \in Conns, d # c PROVE Owed(d)' = Owed(d)
    <3>1. \A g \in Fds : open[g] = d => open'[g] = d /\ Flight(g)' = Flight(g)
      BY <1>2, <1>5, <2>4, <2>7 DEF Flight
    <3>2. Unserved' = Unserved /\ Served' = Served /\ inbox' = inbox
      BY <1>5 DEF Unserved, Served
    <3> QED
      BY <2>7, <3>1, <3>2, NoConnAssumption, OwedElsewhere
  <2> DEFINE n == Len(b)
  <2> HIDE DEF b
  <2>8. /\ SubSeq(Owed(c), 1, m) = s
        /\ SubSeq(Owed(c), n + 1, Len(Owed(c))) = inbox[c]
        /\ n \in 1..Len(Owed(c)) /\ m \in 1..n
    <3> DEFINE u == inbox[c]
    <3>1. b \in Seq(Bytes) /\ u \in Seq(Bytes) /\ m \in 1..Len(b) /\ Owed(c) = b \o u
      BY <1>2, <2>5
    <3> HIDE DEF u, f
    <3>2. /\ SubSeq(b \o u, 1, m) = SubSeq(b, 1, m)
          /\ SubSeq(b \o u, Len(b) + 1, Len(b \o u)) = u
          /\ Len(b) \in 1..Len(b \o u)
      BY <3>1, FrontAndRest
    <3> QED
      BY <2>1, <3>1, <3>2 DEF u
  <2>9. cut' = IF m = n THEN cut ELSE cut \cup {c}
    BY <1>5, <2>2
  <2>10. echoed' = [echoed EXCEPT ![c] = @ \o SubSeq(Owed(c), 1, m)]
    BY <1>5, <2>8
  <2>11. Owed(c)' = SubSeq(Owed(c), n + 1, Len(Owed(c)))
    BY <2>6, <2>8
  <2> HIDE DEF n
  <2> QED
    BY <2>7, <2>8, <2>9, <2>10, <2>11, Echoes
<1> QED
  BY <1>2, <1>3, <1>4, <1>5 DEF send_cb

LEMMA DispatchMaps ==
    ASSUME IInv, OrderInv, OwedByPlace, OwedByPlace', Dispatch
    PROVE  Echo!Next \/ UNCHANGED Echo!chanVars
<1>1. PICK e \in batch :
         /\ batch' = batch \ {e}
         /\ \/ UNCHANGED <<netVars, interest, ev, blkcnt, alive, cut>>
            \/ accept_cb /\ UNCHANGED <<alive, cut>>
            \/ ev[e.fd].callback = "recv_cb" /\ recv_cb(e.fd) /\ UNCHANGED <<alive, cut>>
            \/ ev[e.fd].callback = "send_cb" /\ send_cb(e.fd)
  BY DEF Dispatch, Advanced
<1>2. CASE UNCHANGED <<netVars, interest, ev, blkcnt, alive, cut>>
  <2>1. \A d \in Conns : Owed(d)' = Owed(d)
    BY <1>2, NoConnAssumption, OwedElsewhere DEF netVars, Flight, Unserved, Served
  <2> QED
    BY <1>2, <2>1, Quiet DEF netVars
<1>3. CASE accept_cb /\ UNCHANGED <<alive, cut>>
  <2>1. echoed' = echoed
    BY <1>3 DEF accept_cb, netVars
  <2> QED
    BY <1>3, <2>1, AcceptQuiet, Quiet
<1>4. ev[e.fd].callback \in {"recv_cb", "send_cb"} => e.fd # listener
  BY DEF IInv, ListenerInv
<1> QED
  BY <1>1, <1>2, <1>3, <1>4, RecvMaps, SendMaps

LEMMA AppendBehind ==
    ASSUME NEW s \in Seq(Bytes), NEW t \in Seq(Bytes), NEW b \in Bytes
    PROVE  Append(s \o t, b) = s \o Append(t, b)
<1> DEFINE u == <<b>>
<1>1. u \in Seq(Bytes)
  OBVIOUS
<1>2. s \o t \in Seq(Bytes)
  BY ConcatProperties
<1>3. Append(s \o t, b) = (s \o t) \o u /\ Append(t, b) = t \o u
  BY <1>2, AppendIsConcat
<1> HIDE DEF u
<1>4. (s \o t) \o u = s \o (t \o u)
  BY <1>1, ConcatAssociative
<1> QED
  BY <1>3, <1>4

LEMMA PeersMap ==
    ASSUME IInv, OrderInv, OwedByPlace, OwedByPlace', Silent, Peers
    PROVE  Echo!Next \/ UNCHANGED Echo!chanVars
<1>1. TypeOK
  BY DEF IInv, WellFormed
<1>2. ASSUME NEW c \in Conns, Connect(c) PROVE UNCHANGED Echo!chanVars
  <2>1. /\ open' = open /\ ev' = ev /\ inbox' = inbox /\ echoed' = echoed /\ cut' = cut
        /\ peer[c] = "new" /\ backlog' = Append(backlog, c) /\ backlog \in Seq(Conns)
    BY <1>1, <1>2 DEF Connect, unchangedByPeers, TypeOK
  <2> DEFINE n == Len(backlog)
  <2>2. n \in Nat /\ DOMAIN backlog = 1..n
    BY <1>1, Queued
  <2>3. /\ DOMAIN backlog' = 1..(n + 1)
        /\ backlog'[n + 1] = c /\ \A i \in 1..n : backlog'[i] = backlog[i]
    <3>1. /\ backlog' \in Seq(Conns) /\ Len(backlog') = n + 1
          /\ backlog'[n + 1] = c /\ \A i \in 1..n : backlog'[i] = backlog[i]
      BY <2>1, AppendProperties
    <3>2. DOMAIN backlog' = 1..(n + 1)
      BY <3>1, LenProperties
    <3> QED
      BY <3>1, <3>2
  <2> HIDE DEF n
  <2>4. c \in Unserved' /\ \A d \in Conns : d # c => (d \in Unserved' <=> d \in Unserved)
    <3>1. \A i \in DOMAIN backlog' : \/ i \in DOMAIN backlog /\ backlog'[i] = backlog[i]
                                     \/ i = n + 1 /\ backlog'[i] = c
      BY <2>2, <2>3
    <3>2. \A i \in DOMAIN backlog : i \in DOMAIN backlog' /\ backlog'[i] = backlog[i]
      BY <2>2, <2>3
    <3>3. n + 1 \in DOMAIN backlog'
      BY <2>2, <2>3
    <3> QED
      BY <2>3, <3>1, <3>2, <3>3 DEF Unserved
  <2>5. Served' = Served /\ \A g \in Fds : Flight(g)' = Flight(g)
    BY <2>1 DEF Served, Flight
  <2>6. Owed(c)' = Owed(c)
    <3>1. Owed(c)' = <<>>
      BY <2>1, <2>4 DEF OwedByPlace, Silent
    <3>2. c \notin Unserved \cup Served
      BY <2>1 DEF OrderInv, OnePlace, Unserved, Served
    <3>3. Owed(c) = <<>>
      BY <3>2 DEF OwedByPlace
    <3> QED
      BY <3>1, <3>3
  <2>7. ASSUME NEW d \in Conns, d # c PROVE Owed(d)' = Owed(d)
    BY <2>1, <2>4, <2>5, <2>7, NoConnAssumption, OwedElsewhere
  <2> QED
    BY <2>1, <2>6, <2>7, Quiet
<1>3. ASSUME NEW c \in Conns, Send(c) PROVE Echo!Next
  <2> DEFINE k == sent[c] + 1
  <2>1. /\ inbox'[c] = Append(inbox[c], <<c, k>>)
        /\ \A d \in Conns : d # c => inbox'[d] = inbox[d]
        /\ UNCHANGED <<echoed, open, ev, backlog, cut>>
        /\ c \in Unserved \cup Served
    BY <1>1, <1>3 DEF Send, unchangedByPeers, TypeOK
  <2>2. k \in 1..MaxSend
    <3>1. sent[c] \in 0..MaxSend /\ sent[c] < MaxSend /\ MaxSend \in Nat
      BY <1>1, <1>3, ReactorAssumption DEF Send, TypeOK
    <3> QED
      BY <3>1
  <2>3. <<c, k>> \in Bytes /\ inbox[c] \in Seq(Bytes)
    BY <1>1, <2>2 DEF Bytes, TypeOK
  <2> HIDE DEF k
  <2>4. Unserved' = Unserved /\ Served' = Served /\ \A g \in Fds : Flight(g)' = Flight(g)
    BY <2>1 DEF Unserved, Served, Flight
  <2>5. Owed(c)' = Append(Owed(c), <<c, k>>)
    <3>1. CASE c \in Unserved
      BY <2>1, <2>4, <3>1 DEF OwedByPlace
    <3>2. CASE c \in Served
      <4>1. PICK f \in Fds : open[f] = c
        BY <3>2 DEF Served
      <4>2. Owed(c) = Flight(f) \o inbox[c] /\ Owed(c)' = Flight(f)' \o inbox'[c]
        BY <2>1, <4>1 DEF OwedByPlace
      <4>3. Flight(f) \in Seq(Bytes)
        BY <1>1 DEF Flight, TypeOK
      <4>4. Append(Flight(f) \o inbox[c], <<c, k>>) = Flight(f) \o Append(inbox[c], <<c, k>>)
        BY <2>3, <4>3, AppendBehind
      <4> QED
        BY <2>1, <2>4, <4>2, <4>4
    <3> QED
      BY <2>1, <3>1, <3>2
  <2>6. ASSUME NEW d \in Conns, d # c PROVE Owed(d)' = Owed(d)
    BY <2>1, <2>4, <2>6, NoConnAssumption, OwedElsewhere
  <2> QED
    BY <2>1, <2>2, <2>5, <2>6, Offers
<1>4. ASSUME NEW c \in Conns, Hangup(c) \/ Drain(c) PROVE UNCHANGED Echo!chanVars
  <2>1. UNCHANGED <<inbox, echoed, open, ev, backlog, cut>>
    BY <1>4 DEF Hangup, Drain, unchangedByPeers
  <2>2. \A d \in Conns : Owed(d)' = Owed(d)
    BY <2>1, NoConnAssumption, OwedElsewhere DEF Flight, Unserved, Served
  <2> QED
    BY <2>1, <2>2, Quiet
<1> QED
  BY <1>2, <1>3, <1>4 DEF Peers

LEMMA StepMaps ==
    IInv /\ OrderInv /\ OwedByPlace /\ OwedByPlace' /\ Silent /\ [Next]_vars
       => [Echo!Next]_(Echo!chanVars)
<1> SUFFICES ASSUME IInv, OrderInv, OwedByPlace, OwedByPlace', Silent, [Next]_vars
             PROVE  Echo!Next \/ UNCHANGED Echo!chanVars
  OBVIOUS
<1>1. CASE UNCHANGED <<netVars, ev, cut>>
  <2>1. \A d \in Conns : Owed(d)' = Owed(d)
    BY <1>1, NoConnAssumption, OwedElsewhere DEF netVars, Flight, Unserved, Served
  <2> QED
    BY <1>1, <2>1, Quiet DEF netVars
<1>2. EpollWait \/ UNCHANGED vars => UNCHANGED <<netVars, ev, cut>>
  BY DEF EpollWait, vars, netVars
<1> QED
  BY <1>1, <1>2, PeersMap, DispatchMaps DEF Next

LEMMA InitMaps == Init => Echo!Init
<1> SUFFICES ASSUME Init PROVE Echo!Init
  OBVIOUS
<1>1. ASSUME NEW c \in Conns PROVE ~Current(c)
  BY NoConnAssumption DEF Init, Current, Unserved, Served
<1> QED
  BY <1>1 DEF Init, Echo!Init
-----------------------------------------------------------------------------
(* The variables have their types (TypeOK). *)
THEOREM TypeCorrect == Spec => []TypeOK
<1>1. IInv => TypeOK
  BY DEF IInv, WellFormed
<1> QED
  BY <1>1, Invariance, PTL

(* Epoll set, event records, their blocks and the descriptors agree for    *)
(* ever, through every reuse of a descriptor (WatchedAsRecorded).          *)
THEOREM RecordsAgree == Spec => []WatchedAsRecorded
<1>1. IInv => WatchedAsRecorded
  BY DEF IInv, WellFormed, WatchedAsRecorded
<1> QED
  BY <1>1, Invariance, PTL

(* No event is delivered to a connection it is not about, also when        *)
(* descriptors are closed and given out again in the course of one batch   *)
(* (EventsAreCurrent).                                                     *)
THEOREM EventsReachTheirConnection == Spec => []EventsAreCurrent
<1>1. IInv => EventsAreCurrent
  BY DEF IInv
<1> QED
  BY <1>1, Invariance, PTL

(* No client gets a byte twice or out of order, whatever part send takes   *)
(* and whichever connections have the record in turn (OwnBytesInOrder).    *)
THEOREM BytesStayInOrder == Spec => []OwnBytesInOrder
<1>1. OrderInv => OwnBytesInOrder
  BY DEF OrderInv, Streams, InOrder, Increasing, OwnBytesInOrder
<1> QED
  BY <1>1, OrderAlways, PTL

(* Every client gets back its own bytes, whichever records and descriptors *)
(* its connections pass through, and until a send takes a part only it     *)
(* gets all of them: the server is an EchoChannel (ImplementsEcho).        *)
THEOREM ServerImplementsEcho == Spec => ImplementsEcho
<1>1. IInv /\ OrderInv => OwedByPlace
  BY OwedIsKnown DEF IInv, WellFormed, OrderInv
<1> QED
  BY <1>1, InitMaps, StepMaps, Invariance, OrderAlways, SilentAlways, PTL
     DEF Spec, ImplementsEcho, Echo!Spec
-----------------------------------------------------------------------------

(***************************************************************************)
(* The WebSocket server: the same event loop, with cells in its buffers.   *)
(***************************************************************************)

(* What the server has made of its reads: AnswerThenBytes, of one          *)
(* connection with the answer a, the reads r and k units read.             *)
Chain(c, a, r, k) ==
    LET first == IF a # <<>> /\ a[1].nr = 0 THEN r[1] ELSE 0
        shift == IF first > 0 THEN first - 1 ELSE 0
    IN /\ Len(a) = k - shift
       /\ \A i \in DOMAIN a : /\ a[i].of = c
                              /\ a[i].nr = IF i = 1 /\ first > 0 THEN 0 ELSE i + shift

(* The first read ended somewhere, and the last one where the next begins. *)
Marked(r, k) == IF r = <<>> THEN k = 0 ELSE r[1] \in 1..k /\ r[Len(r)] = k

(* Of one connection, wherever it is.                                      *)
ConnInv(c) ==
    /\ Len(inbox[c]) <= sent[c]
    /\ \A i \in DOMAIN inbox[c] : inbox[c][i] = <<c, ReadFrom(c) + i>>
    /\ Marked(reads[c], ReadFrom(c))
    /\ echoed[c] # <<>> => reads[c] # <<>>
    /\ peer[c] = "new" \/ c \in Unserved => reads[c] = <<>> /\ echoed[c] = <<>>

(* Of one that is open, and the record that serves it.                     *)
RequestOf(f) == status_machine[f] = WS_HANDSHARK <=> reads[open[f]] = <<>>
AnswerOf(f) == /\ ev[f].callback = "send_cb" => reads[open[f]] # <<>>
               /\ open[f] \notin cut => Chain(open[f], echoed[open[f]] \o Flight(f),
                                              reads[open[f]], ReadFrom(open[f]))
FdInv(f) == open[f] # NoConn => RequestOf(f) /\ AnswerOf(f)

MarksOK == /\ status_machine \in [Fds -> {WS_HANDSHARK, WS_TRANMISSION}]
           /\ reads \in [Conns -> Seq(1..MaxSend)]

WsInv == /\ Structure(Cells) /\ OnePlace /\ MarksOK
         /\ \A c \in Conns : ConnInv(c)
         /\ \A f \in Fds : FdInv(f)
-----------------------------------------------------------------------------
(* A set of numbers has a least element, so Min of it is one. *)
LEMMA Least ==
    ASSUME NEW S \in SUBSET Nat, S # {}
    PROVE  /\ \E x \in S : \A y \in S : x <= y
           /\ Min(S) \in S /\ \A y \in S : Min(S) <= y
<1> DEFINE R == OpToRel(<, Nat)
<1>1. R = {ss \in Nat \X Nat : ss[1] < ss[2]}
  BY DEF OpToRel
<1>2. \A i, j \in Nat : <<i, j>> \in R <=> i < j
  BY <1>1
<1>3. IsWellFoundedOn(R, Nat)
  BY NatLessThanWellFounded
<1> HIDE DEF R
<1>4. PICK x \in S : \A y \in S : ~(<<y, x>> \in R)
  BY <1>3, WFMin
<1>5. ASSUME NEW y \in S PROVE x <= y
  <2>1. x \in Nat /\ y \in Nat /\ ~(<<y, x>> \in R)
    BY <1>4
  <2>2. ~(y < x)
    BY <1>2, <2>1
  <2> QED
    BY <2>1, <2>2
<1> QED
  BY <1>5 DEF Min

(* What recv_cb reads: n units of c, from k on.                            *)
Fresh(c, k, n) == [i \in 1..n |-> [of |-> c, nr |-> k + i, fate |-> "sent"]]

(* Cells for the n units of c behind k, whatever has become of them.       *)
Run(c, k, n, a) == /\ a \in Seq(Cells) /\ Len(a) = n
                   /\ \A i \in 1..n : a[i].of = c /\ a[i].nr = k + i

LEMMA FreshRuns ==
    ASSUME NEW c \in Conns, NEW k \in Nat, NEW n \in Nat, k + n <= MaxSend
    PROVE  Run(c, k, n, Fresh(c, k, n))
<1>1. \A i \in 1..n : k + i \in 0..MaxSend
  BY ReactorAssumption
<1>2. \A i \in 1..n : [of |-> c, nr |-> k + i, fate |-> "sent"] \in Cells
  BY <1>1 DEF Cells, Fates
<1>3. Fresh(c, k, n) \in [1..n -> Cells]
  BY <1>2 DEF Fresh
<1>4. Fresh(c, k, n) \in Seq(Cells) /\ Len(Fresh(c, k, n)) = n
  BY <1>3
<1> QED
  BY <1>4 DEF Run, Fresh

(* Only the fates change when a frame is unmasked, or what is taken for    *)
(* one.                                                                    *)
LEMMA FatesOnly ==
    ASSUME NEW c \in Conns, NEW k \in Nat, NEW n \in Nat, NEW b, Run(c, k, n, b),
           NEW S, NEW x \in Fates
    PROVE  Run(c, k, n, Changed(b, S, x))
<1> DEFINE a == Changed(b, S, x)
<1>1. DOMAIN b = 1..n /\ \A i \in 1..n : b[i] \in Cells /\ b[i].of = c /\ b[i].nr = k + i
  BY DEF Run
<1>2. \A i \in 1..n : /\ [b[i] EXCEPT !.fate = x] \in Cells
                      /\ [b[i] EXCEPT !.fate = x].of = c
                      /\ [b[i] EXCEPT !.fate = x].nr = k + i
  BY <1>1 DEF Cells
<1>3. \A i \in 1..n : a[i] \in Cells /\ a[i].of = c /\ a[i].nr = k + i
  BY <1>1, <1>2 DEF Changed
<1>4. a \in [1..n -> Cells]
  BY <1>1, <1>3 DEF Changed
<1> HIDE DEF a
<1>5. a \in Seq(Cells) /\ Len(a) = n
  BY <1>4
<1> QED
  BY <1>3, <1>5 DEF Run, a

LEMMA TransmissionRuns ==
    ASSUME NEW c \in Conns, NEW k \in Nat, NEW n \in Nat, NEW b, Run(c, k, n, b),
           NEW a \in transmission(b)
    PROVE  Run(c, k, n, a)
<1>1. "clear" \in Fates /\ "garbled" \in Fates
  BY DEF Fates
<1>2. CASE UnitOf(b[1]).kind = "frame"
  <2>1. a = b \/ a = Changed(b, 2..(UnitOf(b[1]).len + 1), "clear")
    BY <1>2 DEF transmission, umask
  <2> QED
    BY <1>1, <2>1, FatesOnly
<1>3. CASE UnitOf(b[1]).kind # "frame"
  <2>1. PICK m \in 1..Len(b), h \in 0..Len(b) : a = Changed(b, m..h, "garbled")
    BY <1>3 DEF transmission
  <2> QED
    BY <1>1, <2>1, FatesOnly
<1> QED
  BY <1>2, <1>3

(* The key that is found is in the buffer. *)
LEMMA KeyFound ==
    ASSUME NEW b, NEW n \in Nat, DOMAIN b = 1..n, KeyLine(b) # {}
    PROVE  /\ Min(KeyLine(b)) \in 1..n /\ Min(KeyLine(b)) \in KeyLine(b)
<1>1. KeyLine(b) \in SUBSET Nat
  BY DEF KeyLine
<1> QED
  BY <1>1, Least DEF KeyLine

LEMMA HandsharkAnswers ==
    ASSUME NEW c \in Conns, NEW n \in Nat, NEW b, Run(c, 0, n, b)
    PROVE  \/ handshark(b) = b
           \/ \E a \in Cells : handshark(b) = <<a>> /\ a.of = c /\ a.nr = 0
<1>1. DOMAIN b = 1..n /\ \A i \in 1..n : b[i].of = c
  BY DEF Run
<1>2. CASE KeyLine(b) # {}
  <2>1. Min(KeyLine(b)) \in 1..n
    BY <1>1, <1>2, KeyFound
  <2>2. PICK i \in 1..n : i = Min(KeyLine(b))
    BY <2>1
  <2>3. /\ Accept(b, i).of = c /\ Accept(b, i).nr = 0
        /\ Accept(b, i) \in Cells
    BY <1>1, <2>2, ReactorAssumption DEF Accept, Cells, Fates
  <2>4. handshark(b) = <<Accept(b, i)>>
    BY <1>2, <2>2 DEF handshark
  <2> QED
    BY <2>3, <2>4
<1> QED
  BY <1>2 DEF handshark

(* The chain begins with the first read ... *)
LEMMA ChainBegins ==
    ASSUME NEW c \in Conns, NEW n \in Nat \ {0}, NEW a,
           \/ Run(c, 0, n, a)
           \/ \E x \in Cells : a = <<x>> /\ x.of = c /\ x.nr = 0
    PROVE  Chain(c, a, <<n>>, n)
<1>1. CASE Run(c, 0, n, a)
  <2>1. /\ DOMAIN a = 1..n /\ Len(a) = n /\ \A i \in 1..n : a[i].of = c /\ a[i].nr = i
        /\ a[1].nr # 0
    BY <1>1 DEF Run
  <2> QED
    BY <2>1 DEF Chain
<1>2. ASSUME NEW x \in Cells, a = <<x>>, x.of = c, x.nr = 0
      PROVE  Chain(c, a, <<n>>, n)
  <2>1. DOMAIN a = {1} /\ Len(a) = 1 /\ a[1] = x /\ a # <<>> /\ <<n>>[1] = n
    BY <1>2
  <2> DEFINE r == <<n>>
  <2>2. r[1] = n
    OBVIOUS
  <2> HIDE DEF r
  <2>3. Chain(c, a, r, n)
    BY <1>2, <2>1, <2>2 DEF Chain
  <2> QED
    BY <2>3 DEF r
<1> QED
  BY <1>1, <1>2

(* ... and each later read adds its units. *)
LEMMA ChainGrows ==
    ASSUME NEW c \in Conns, NEW e \in Seq(Cells), NEW r \in Seq(1..MaxSend), NEW k \in Nat,
           r # <<>>, Marked(r, k), Chain(c, e, r, k),
           NEW n \in Nat, NEW b, Run(c, k, n, b), NEW m
    PROVE  Chain(c, e \o b, Append(r, m), k + n)
<1> DEFINE a == e \o b
           q == Append(r, m)
           h == Len(e)
<1>1. /\ b \in Seq(Cells) /\ Len(b) = n /\ \A i \in 1..n : b[i].of = c /\ b[i].nr = k + i
      /\ h \in Nat /\ DOMAIN e = 1..h
      /\ r[1] \in 1..k
  BY DEF Run, Marked
<1>2. q[1] = r[1]
  <2>1. Len(r) \in Nat /\ Len(r) # 0
    BY EmptySeq
  <2> QED
    BY <2>1
<1>3. e # <<>> /\ h # 0
  <2>1. ASSUME e = <<>> PROVE FALSE
    <3>1. Len(e) = 0 /\ k = 0
      BY <2>1 DEF Chain
    <3> QED
      BY <1>1, <3>1
  <2> QED
    BY <2>1, EmptySeq
<1>4. /\ a \in Seq(Cells) /\ Len(a) = h + n
      /\ \A i \in 1..(h + n) : a[i] = IF i <= h THEN e[i] ELSE b[i - h]
  BY <1>1, ConcatProperties
<1> HIDE DEF a, q
<1>5. DOMAIN a = 1..(h + n) /\ a # <<>> /\ a[1] = e[1]
  BY <1>1, <1>3, <1>4, LenProperties, EmptySeq
<1> DEFINE first == IF a[1].nr = 0 THEN r[1] ELSE 0
           shift == IF first > 0 THEN first - 1 ELSE 0
<1>6. first \in Nat /\ shift \in Nat
  BY <1>1
<1>7. /\ h = k - shift
      /\ \A i \in 1..h : /\ e[i].of = c
                         /\ e[i].nr = IF i = 1 /\ first > 0 THEN 0 ELSE i + shift
  BY <1>1, <1>3, <1>5 DEF Chain
<1>8. (IF a # <<>> /\ a[1].nr = 0 THEN q[1] ELSE 0) = first
  BY <1>2, <1>5
<1> HIDE DEF first, shift
<1>9. Len(a) = (k + n) - shift
  BY <1>4, <1>6, <1>7
<1>10. ASSUME NEW i \in 1..(h + n)
       PROVE  /\ a[i].of = c
              /\ a[i].nr = IF i = 1 /\ first > 0 THEN 0 ELSE i + shift
  <2>1. CASE i <= h
    BY <1>1, <1>4, <1>7, <2>1
  <2>2. CASE i > h
    <3>1. a[i] = b[i - h] /\ i - h \in 1..n /\ k + (i - h) = i + shift /\ i # 1
      BY <1>1, <1>3, <1>4, <1>6, <1>7, <2>2
    <3> QED
      BY <1>1, <3>1
  <2> QED
    BY <1>1, <2>1, <2>2
<1>11. Chain(c, a, q, k + n)
  BY <1>5, <1>8, <1>9, <1>10 DEF Chain, shift
<1> QED
  BY <1>11 DEF a, q
-----------------------------------------------------------------------------
(* What a step leaves alone stays as it is.                                *)
LEMMA ConnKept ==
    ASSUME NEW c \in Conns, ConnInv(c),
           inbox'[c] = inbox[c], sent'[c] = sent[c],
           reads'[c] = reads[c], echoed'[c] = echoed[c],
           peer'[c] = "new" \/ c \in Unserved' => peer[c] = "new" \/ c \in Unserved
    PROVE  ConnInv(c)'
BY DEF ConnInv, ReadFrom, Marked

LEMMA FdKept ==
    ASSUME NEW f \in Fds, FdInv(f),
           open'[f] # NoConn =>
              /\ open[f] = open'[f] /\ ev'[f] = ev[f]
              /\ status_machine'[f] = status_machine[f]
              /\ reads'[open[f]] = reads[open[f]] /\ echoed'[open[f]] = echoed[open[f]]
              /\ sent'[open[f]] - Len(inbox'[open[f]]) = ReadFrom(open[f])
              /\ open[f] \in cut => open[f] \in cut'
    PROVE  FdInv(f)'
<1> SUFFICES ASSUME open'[f] # NoConn PROVE RequestOf(f)' /\ AnswerOf(f)'
  BY DEF FdInv
<1> DEFINE c == open[f]
<1>1. /\ c = open'[f] /\ reads'[c] = reads[c] /\ echoed'[c] = echoed[c]
      /\ Flight(f)' = Flight(f) /\ sent'[c] - Len(inbox'[c]) = ReadFrom(c)
      /\ RequestOf(f) /\ AnswerOf(f)
  BY DEF Flight, FdInv
<1>2. RequestOf(f)'
  BY <1>1 DEF RequestOf
<1>3. AnswerOf(f)'
  BY <1>1 DEF AnswerOf, ReadFrom
<1> QED
  BY <1>2, <1>3

LEMMA IdleKeeps ==
    ASSUME WsInv, Structure(Cells)', UNCHANGED <<netVars, ev, cut, status_machine, reads>>
    PROVE  WsInv'
<1>1. UNCHANGED <<peer, sent, inbox, echoed, backlog, open, ev, cut, status_machine, reads>>
  BY DEF netVars
<1>2. OnePlace' /\ MarksOK'
  BY <1>1 DEF WsInv, OnePlace, MarksOK
<1>3. ASSUME NEW c \in Conns PROVE ConnInv(c)'
  BY <1>1, ConnKept DEF WsInv, Unserved
<1>4. ASSUME NEW f \in Fds PROVE FdInv(f)'
  BY <1>1, FdKept DEF WsInv, ReadFrom
<1> QED
  BY <1>2, <1>3, <1>4 DEF WsInv

(* The next unit of a client has the next number. *)
LEMMA WsSendKeeps ==
    ASSUME WsInv, NEW c \in Conns, Send(c), UNCHANGED <<status_machine, reads>>
    PROVE  /\ \A d \in Conns : ConnInv(d)'
           /\ \A f \in Fds : FdInv(f)'
<1>1. /\ inbox \in [Conns -> Seq(Bytes)] /\ sent \in [Conns -> 0..MaxSend]
      /\ open \in [Fds -> Conns \cup {NoConn}]
  BY DEF WsInv, Structure, Shaped, Typed
<1> DEFINE u == inbox[c]
           x == <<c, sent[c] + 1>>
<1>2. /\ sent'[c] = sent[c] + 1 /\ inbox'[c] = Append(u, x)
      /\ \A d \in Conns : d # c => sent'[d] = sent[d] /\ inbox'[d] = inbox[d]
      /\ UNCHANGED <<peer, echoed, backlog, open, ev, cut>>
      /\ sent[c] \in Nat /\ u \in Seq(Bytes)
  BY <1>1, ReactorAssumption DEF Send, unchangedByPeers
<1>3. /\ Len(u) \in Nat /\ DOMAIN u = 1..Len(u) /\ Len(inbox'[c]) = Len(u) + 1
      /\ DOMAIN inbox'[c] = 1..(Len(u) + 1)
      /\ inbox'[c][Len(u) + 1] = x /\ \A i \in 1..Len(u) : inbox'[c][i] = u[i]
  <2> HIDE DEF u, x
  <2> QED
    BY <1>2
<1>4. /\ Len(u) <= sent[c] /\ \A i \in DOMAIN u : u[i] = <<c, ReadFrom(c) + i>>
      /\ ReadFrom(c) = sent[c] - Len(u)
  BY DEF WsInv, ConnInv, ReadFrom
<1>5. sent'[c] - Len(inbox'[c]) = ReadFrom(c) /\ Len(inbox'[c]) <= sent'[c]
  BY <1>2, <1>3, <1>4
<1>6. ConnInv(c)'
  <2>1. ReadFrom(c)' = ReadFrom(c)
    BY <1>5 DEF ReadFrom
  <2>2. \A i \in DOMAIN inbox'[c] : inbox'[c][i] = <<c, ReadFrom(c) + i>>
    <3>1. ReadFrom(c) + (Len(u) + 1) = sent[c] + 1
      BY <1>2, <1>3, <1>4
    <3> QED
      BY <1>3, <1>4, <3>1
  <2> QED
    BY <1>2, <1>5, <2>1, <2>2 DEF WsInv, ConnInv, Unserved
<1>7. ASSUME NEW d \in Conns, d # c PROVE ConnInv(d)'
  BY <1>2, <1>7, ConnKept DEF WsInv, Unserved
<1>8. ASSUME NEW f \in Fds PROVE FdInv(f)'
  <2>1. open[f] \in Conns => sent'[open[f]] - Len(inbox'[open[f]]) = ReadFrom(open[f])
    BY <1>2, <1>5 DEF ReadFrom
  <2>2. open[f] # NoConn => open[f] \in Conns
    BY <1>1
  <2> QED
    BY <1>2, <2>1, <2>2, FdKept DEF WsInv
<1> QED
  BY <1>6, <1>7, <1>8

LEMMA WsPeersKeeps == ASSUME WsInv, WsPeers PROVE WsInv'
<1>1. Peers /\ UNCHANGED <<status_machine, reads>>
  BY DEF WsPeers, WsSend, Peers
<1>2. Structure(Cells)' /\ OnePlace' /\ MarksOK'
  BY <1>1, PeersKeep, PeersPlaces DEF WsInv, MarksOK
<1>3. /\ peer \in [Conns -> {"new", "open", "fin", "reset", "broken"}]
      /\ backlog \in Seq(Conns)
  BY DEF WsInv, Structure, Shaped, Typed
<1>4. ASSUME NEW c \in Conns, Connect(c) \/ Hangup(c) \/ Drain(c)
      PROVE  /\ \A d \in Conns : ConnInv(d)'
             /\ \A f \in Fds : FdInv(f)'
  <2>1. UNCHANGED <<sent, inbox, echoed, open, ev, cut, status_machine, reads>>
    BY <1>1, <1>4 DEF Connect, Hangup, Drain, unchangedByPeers
  <2>2. ASSUME NEW d \in Conns, peer'[d] = "new" \/ d \in Unserved'
        PROVE  peer[d] = "new" \/ d \in Unserved
    <3>1. CASE Connect(c)
      <4>1. peer'[d] = "new" => peer[d] = "new"
        BY <1>3, <3>1 DEF Connect
      <4>2. Unserved' \subseteq Unserved \cup {c}
        BY <1>3, <3>1, AppendProperties DEF Connect, Unserved
      <4> QED
        BY <2>2, <3>1, <4>1, <4>2 DEF Connect
    <3>2. CASE Hangup(c)
      <4>1. peer'[d] = "new" => peer[d] = "new"
        BY <1>3, <3>2 DEF Hangup
      <4> QED
        BY <2>2, <3>2, <4>1 DEF Hangup, Unserved
    <3>3. CASE Drain(c)
      BY <2>2, <3>3 DEF Drain, Unserved
    <3> QED
      BY <1>4, <3>1, <3>2, <3>3
  <2>3. ASSUME NEW d \in Conns PROVE ConnInv(d)'
    BY <2>1, <2>2, ConnKept DEF WsInv
  <2>4. ASSUME NEW f \in Fds PROVE FdInv(f)'
    BY <2>1, FdKept DEF WsInv, ReadFrom
  <2> QED
    BY <2>3, <2>4
<1> QED
  BY <1>1, <1>2, <1>4, WsSendKeeps DEF Peers, WsInv

(* A connection that is accepted has not been read from, and its record,   *)
(* whatever it did before, begins with the request.                        *)
LEMMA WsAcceptKeeps ==
    ASSUME WsInv, NEW e \in batch, batch' = batch \ {e}, ws_accept_cb, UNCHANGED <<alive, cut>>
    PROVE  WsInv'
<1>1. Structure(Cells)' /\ OnePlace'
  BY AcceptKeeps, AcceptPlaces DEF WsInv, ws_accept_cb
<1>2. CASE UNCHANGED <<netVars, interest, ev, blkcnt>>
  <2>1. status_machine' = status_machine
    BY <1>2 DEF ws_accept_cb, netVars, WsInv, MarksOK
  <2> QED
    BY <1>1, <1>2, <2>1, IdleKeeps DEF ws_accept_cb
<1>3. ASSUME NEW f \in Fds \ {listener}, Accepts(f) PROVE WsInv'
  <2>0. PICK c \in Conns : c = open'[f]
    BY <1>3 DEF Accepts
  <2>1. /\ c # NoConn /\ c \in Unserved
        /\ \A g \in Fds \ {f} : open'[g] = open[g] /\ ev'[g] = ev[g] /\ open[g] # c
        /\ ev'[f].callback = "recv_cb" /\ Unserved' \subseteq Unserved
        /\ UNCHANGED <<peer, sent, inbox, echoed, reads, cut>>
    BY <1>3, <2>0, NoConnAssumption DEF Accepts, ws_accept_cb
  <2>2. /\ status_machine'[f] = WS_HANDSHARK
        /\ \A g \in Fds \ {f} : status_machine'[g] = status_machine[g]
        /\ MarksOK'
    <3>1. open'[f] # open[f]
      BY <1>3, <2>0, <2>1 DEF Accepts
    <3> QED
      BY <2>1, <3>1 DEF ws_accept_cb, Restarted, WsInv, MarksOK
  <2>3. ASSUME NEW d \in Conns PROVE ConnInv(d)'
    BY <2>1, ConnKept DEF WsInv
  <2>4. reads[c] = <<>> /\ echoed[c] = <<>> /\ ReadFrom(c) = 0
    BY <2>1 DEF WsInv, ConnInv, Marked
  <2>5. FdInv(f)'
    <3>1. Flight(f)' = <<>>
      BY <2>1 DEF Flight
    <3>2. Chain(c, <<>> \o <<>>, <<>>, 0)
      BY DEF Chain
    <3>3. ReadFrom(c)' = ReadFrom(c) /\ reads'[c] = <<>> /\ echoed'[c] = <<>>
      BY <2>1, <2>4 DEF ReadFrom
    <3>4. RequestOf(f)'
      BY <2>0, <2>2, <3>3 DEF RequestOf
    <3>5. AnswerOf(f)'
      <4>1. AnswerOf(f)' <=> /\ ev'[f].callback = "send_cb" => reads'[c] # <<>>
                             /\ c \notin cut' => Chain(c, echoed'[c] \o Flight(f)',
                                                       reads'[c], ReadFrom(c)')
        BY <2>0 DEF AnswerOf, ReadFrom
      <4> QED
        BY <2>1, <2>4, <3>1, <3>2, <3>3, <4>1
    <3> QED
      BY <3>4, <3>5 DEF FdInv
  <2>6. ASSUME NEW g \in Fds \ {f} PROVE FdInv(g)'
    BY <2>1, <2>2, FdKept DEF WsInv, ReadFrom
  <2> QED
    BY <1>1, <2>2, <2>3, <2>5, <2>6 DEF WsInv
<1> QED
  BY <1>2, <1>3, AcceptPlaces DEF WsInv, ws_accept_cb

(* The descriptor is gone, and the connection with it. *)
LEMMA WsCloseKeeps ==
    ASSUME WsInv, NEW e \in batch, batch' = batch \ {e}, e.fd # listener, CloseFd(e.fd),
           UNCHANGED <<peer, sent, inbox, echoed, backlog, full, blkcnt, alive, cut,
                       status_machine, reads>>
    PROVE  WsInv'
<1>1. /\ ev' \in [Fds -> Record(Cells)]
      /\ interest' \in [Fds -> {"none", "in", "out"}]
      /\ open' \in [Fds -> Conns \cup {NoConn}]
      /\ \A g \in Fds : open'[g] # NoConn => open[g] = open'[g] /\ ev[g] = ev'[g]
      /\ RecordsMatch' /\ EventsAreCurrent' /\ ListenerInv' /\ EventsAreOpen'
  BY CloseKeeps DEF WsInv
<1>2. Structure(Cells)'
  <2>1. batch' \subseteq [fd : Fds, mask : {"in", "out"}, of : Conns \cup {NoConn}]
    BY DEF WsInv, Structure, Shaped, Typed
  <2> QED
    BY <1>1, <2>1 DEF WsInv, Structure, Shaped, Typed, HaveRecords, Record
<1>3. OnePlace' /\ MarksOK'
  BY <1>1, PlacesKept, Queued DEF WsInv, Structure, Shaped, Typed, MarksOK
<1>4. ASSUME NEW c \in Conns PROVE ConnInv(c)'
  BY ConnKept DEF WsInv, Unserved
<1>5. ASSUME NEW f \in Fds PROVE FdInv(f)'
  BY <1>1, FdKept DEF WsInv, ReadFrom
<1> QED
  BY <1>2, <1>3, <1>4, <1>5 DEF WsInv

(* What recv_cb does with the data: the front of what has arrived becomes  *)
(* the answer in the buffer.                                               *)
Answers(f, c, n, a) ==
    LET b == Fresh(c, ReadFrom(c), n)
    IN /\ f \in Fds /\ c = open[f]
       /\ n \in 1..Len(inbox[c]) /\ ReadFrom(c) \in Nat /\ ReadFrom(c) + n <= MaxSend
       /\ Run(c, ReadFrom(c), n, b)
       /\ IF reads[c] = <<>> THEN a = handshark(b) ELSE a \in transmission(b)
       /\ a \in Seq(Cells)
       /\ Flight(f) = <<>> /\ ev'[f].callback = "send_cb" /\ ev'[f].buffer = a
       /\ \A g \in Fds \ {f} : ev'[g] = ev[g]
       /\ inbox'[c] = SubSeq(inbox[c], n + 1, Len(inbox[c]))
       /\ ReadFrom(c)' = ReadFrom(c) + n
       /\ reads'[c] = Append(reads[c], ReadFrom(c) + n)
       /\ \A d \in Conns \ {c} : inbox'[d] = inbox[d] /\ reads'[d] = reads[d]
       /\ status_machine' = [status_machine EXCEPT ![f] = WS_TRANMISSION]
       /\ UNCHANGED <<peer, sent, echoed, backlog, open, cut>>

LEMMA WsAnswers ==
    ASSUME WsInv, NEW e \in batch, batch' = batch \ {e}, e.fd # listener,
           ev[e.fd].callback = "recv_cb", inbox[open[e.fd]] # <<>>,
           ws_recv_cb(e.fd), UNCHANGED <<alive, cut>>
    PROVE  /\ Structure(Cells)' /\ MarksOK'
           /\ \E c \in Conns : \E n, a : Answers(e.fd, c, n, a)
<1>0. PICK c \in Conns : c = open[e.fd]
  BY DEF WsInv, Structure, Shaped, Typed, EventsAreOpen
<1> DEFINE f == e.fd
           u == inbox[c]
           k == ReadFrom(c)
           n == IF Len(u) < BUFFER_LENGTH THEN Len(u) ELSE BUFFER_LENGTH
           b == [i \in 1..Len(Received(c)) |-> Cell(u[i])]
<1>1. /\ f \in Fds /\ c # NoConn
      /\ inbox \in [Conns -> Seq(Bytes)] /\ sent \in [Conns -> 0..MaxSend]
      /\ batch' \subseteq [fd : Fds, mask : {"in", "out"}, of : Conns \cup {NoConn}]
      /\ status_machine \in [Fds -> {WS_HANDSHARK, WS_TRANMISSION}]
      /\ reads \in [Conns -> Seq(1..MaxSend)]
  BY NoConnAssumption DEF WsInv, Structure, Shaped, Typed, MarksOK
<1>2. /\ Len(u) \in Nat /\ u \in Seq(Bytes) /\ DOMAIN u = 1..Len(u) /\ Len(u) # 0
      /\ sent[c] \in Nat /\ sent[c] <= MaxSend
  <2>1. u \in Seq(Bytes) /\ u # <<>> /\ sent[c] \in 0..MaxSend
    BY <1>0, <1>1
  <2> HIDE DEF u
  <2> QED
    BY <2>1, EmptySeq, LenProperties, ReactorAssumption
<1>3. n \in 1..Len(u) /\ n \in 0..Len(u) /\ n \in Nat
  BY <1>2, ReactorAssumption
<1>4. /\ Len(u) <= sent[c] /\ k = sent[c] - Len(u)
      /\ \A i \in 1..Len(u) : u[i] = <<c, k + i>>
  BY <1>1, <1>2 DEF WsInv, ConnInv, ReadFrom
<1>5. k \in Nat /\ k + n <= MaxSend /\ MaxSend \in Nat
  BY <1>2, <1>3, <1>4, ReactorAssumption
<1>6. Received(c) = SubSeq(u, 1, n)
  BY DEF Received
<1> HIDE DEF n
<1>7. Len(Received(c)) = n
  BY <1>2, <1>3, <1>6, Cuts, LenProperties
<1>8. b = Fresh(c, k, n)
  <2>1. \A i \in 1..n : Cell(u[i]) = [of |-> c, nr |-> k + i, fate |-> "sent"]
    <3>1. \A i \in 1..n : u[i] = <<c, k + i>>
      BY <1>2, <1>3, <1>4
    <3> HIDE DEF u, k
    <3> QED
      BY <3>1 DEF Cell
  <2> QED
    BY <1>7, <2>1 DEF Fresh
<1>9. Run(c, k, n, b)
  BY <1>1, <1>3, <1>5, <1>8, FreshRuns
<1> HIDE DEF b
<1>10. PICK a \in websocket_request(f, b) :
          /\ TurnAround(f, [ev[f] EXCEPT !.buffer = a], "send_cb", "out")
          /\ status_machine' = [status_machine EXCEPT ![f] = WS_TRANMISSION]
          /\ inbox' = [inbox EXCEPT ![c] = SubSeq(u, n + 1, Len(u))]
          /\ reads' = [reads EXCEPT ![c] = Append(reads[c], u[n][2])]
          /\ UNCHANGED <<peer, sent, echoed, backlog, open, full, blkcnt>>
  BY <1>0, <1>7 DEF ws_recv_cb, StatusAfter, b
<1>11. IF reads[c] = <<>> THEN a = handshark(b) ELSE a \in transmission(b)
  <2>1. status_machine[f] = WS_HANDSHARK <=> reads[c] = <<>>
    BY <1>0, <1>1 DEF WsInv, FdInv, RequestOf
  <2> QED
    BY <1>10, <2>1 DEF websocket_request
<1>12. a \in Seq(Cells)
  <2>1. CASE reads[c] = <<>>
    <3>1. k = 0
      BY <1>1, <2>1 DEF WsInv, ConnInv, Marked
    <3>2. \/ handshark(b) = b
          \/ \E x \in Cells : handshark(b) = <<x>>
      BY <1>1, <1>3, <1>9, <3>1, HandsharkAnswers
    <3>3. b \in Seq(Cells) /\ \A x \in Cells : <<x>> \in Seq(Cells)
      BY <1>9 DEF Run
    <3> QED
      BY <1>11, <2>1, <3>2, <3>3
  <2>2. CASE reads[c] # <<>>
    <3>1. Run(c, k, n, a)
      BY <1>1, <1>3, <1>5, <1>9, <1>11, <2>2, TransmissionRuns
    <3> QED
      BY <3>1 DEF Run
  <2> QED
    BY <2>1, <2>2
<1>13. /\ ev' \in [Fds -> Record(Cells)]
       /\ interest' \in [Fds -> {"none", "in", "out"}]
       /\ RecordsMatch' /\ EventsAreCurrent' /\ ListenerInv' /\ EventsAreOpen'
       /\ ev'[f].callback = "send_cb" /\ ev'[f].buffer = a
       /\ \A g \in Fds : g # f => ev'[g] = ev[g]
  <2> DEFINE p == <<"out", "send_cb">>
  <2>1. p \in {<<"in", "recv_cb">>, <<"out", "send_cb">>} /\ p[2] = "send_cb"
    OBVIOUS
  <2>2. /\ TurnAround(e.fd, [ev[e.fd] EXCEPT !.buffer = a], p[2], p[1])
        /\ open' = open /\ blkcnt' = blkcnt
    BY <1>10
  <2>3. Structure(Cells)
    BY DEF WsInv
  <2> HIDE DEF u, k, p
  <2> QED
    BY <1>12, <2>1, <2>2, <2>3, TurnAroundKeeps
<1>14. u[n] = <<c, k + n>> /\ k + n \in 1..MaxSend
  BY <1>3, <1>4, <1>5
<1>15. /\ SubSeq(u, n + 1, Len(u)) \in Seq(Bytes)
       /\ Len(SubSeq(u, n + 1, Len(u))) = Len(u) - n
  BY <1>2, <1>3, Cuts, LenProperties
<1>16. /\ inbox' \in [Conns -> Seq(Bytes)] /\ inbox'[c] = SubSeq(u, n + 1, Len(u))
       /\ reads'[c] = Append(reads[c], k + n)
       /\ reads' \in [Conns -> Seq(1..MaxSend)]
       /\ \A d \in Conns \ {c} : inbox'[d] = inbox[d] /\ reads'[d] = reads[d]
  <2>1. u[n][2] = k + n
    BY <1>14
  <2>2. Append(reads[c], k + n) \in Seq(1..MaxSend)
    BY <1>1, <1>14
  <2> HIDE DEF u, k
  <2> QED
    BY <1>1, <1>10, <1>15, <2>1, <2>2
<1>17. Structure(Cells)'
  BY <1>1, <1>10, <1>13, <1>16 DEF WsInv, Structure, Shaped, Typed, HaveRecords, Record
<1>18. MarksOK'
  BY <1>1, <1>10, <1>16 DEF MarksOK
<1>19. ReadFrom(c)' = k + n
  BY <1>2, <1>3, <1>4, <1>10, <1>15, <1>16 DEF ReadFrom
<1>20. Answers(f, c, n, a)
  <2>1. Flight(f) = <<>>
    BY DEF Flight
  <2> QED
    BY <1>0, <1>1, <1>3, <1>5, <1>8, <1>9, <1>10, <1>11, <1>12, <1>13, <1>16, <1>19, <2>1 DEF Answers
<1> QED
  BY <1>17, <1>18, <1>20

(* The marks of one more read. *)
LEMMA MarkedOnce ==
    ASSUME NEW r \in Seq(1..MaxSend), NEW k \in Nat, Marked(r, k), NEW n \in Nat \ {0},
           k + n <= MaxSend
    PROVE  /\ Append(r, k + n) # <<>> /\ Marked(Append(r, k + n), k + n)
           /\ r = <<>> => k = 0 /\ Append(r, k + n) = <<k + n>>
<1> DEFINE q == Append(r, k + n)
           h == Len(r)
<1>1. k + n \in 1..MaxSend
  BY ReactorAssumption
<1>2. /\ h \in Nat /\ q \in Seq(1..MaxSend) /\ Len(q) = h + 1 /\ q[h + 1] = k + n
      /\ \A i \in 1..h : q[i] = r[i]
  BY <1>1, AppendProperties
<1>3. CASE r = <<>>
  <2>1. k = 0 /\ h = 0 /\ q = <<k + n>>
    BY <1>3 DEF Marked
  <2> QED
    BY <1>1, <1>2, <2>1 DEF Marked
<1>4. CASE r # <<>>
  <2>1. h # 0 /\ r[1] \in 1..k
    BY <1>4, EmptySeq DEF Marked
  <2> HIDE DEF q, h
  <2>2. q[1] = r[1] /\ q[1] \in 1..(k + n)
    BY <1>2, <2>1
  <2>3. q # <<>>
    BY <1>2, EmptySeq
  <2>4. Marked(q, k + n)
    BY <1>2, <2>2, <2>3 DEF Marked
  <2> QED
    BY <1>4, <2>3, <2>4 DEF q
<1> QED
  BY <1>3, <1>4

LEMMA WsRecvKeeps ==
    ASSUME WsInv, NEW e \in batch, batch' = batch \ {e}, e.fd # listener,
           ev[e.fd].callback = "recv_cb", ws_recv_cb(e.fd), UNCHANGED <<alive, cut>>
    PROVE  WsInv'
<1>1. CASE inbox[open[e.fd]] = <<>>
  BY <1>1, WsCloseKeeps DEF ws_recv_cb
<1>2. CASE inbox[open[e.fd]] # <<>>
  <2> DEFINE f == e.fd
  <2>0. PICK c \in Conns : \E n, a : Answers(f, c, n, a)
    BY <1>2, WsAnswers
  <2>1. PICK n, a : Answers(f, c, n, a)
    BY <2>0
  <2> DEFINE k == ReadFrom(c)
             u == inbox[c]
             r == reads[c]
             b == Fresh(c, k, n)
  <2>2. /\ f \in Fds /\ c = open[f] /\ c # NoConn
        /\ n \in 1..Len(u) /\ n \in Nat \ {0} /\ k \in Nat /\ k + n <= MaxSend
        /\ a \in Seq(Cells) /\ u \in Seq(Bytes) /\ r \in Seq(1..MaxSend)
        /\ echoed[c] \in Seq(Cells)
        /\ status_machine \in [Fds -> {WS_HANDSHARK, WS_TRANMISSION}]
        /\ UNCHANGED <<peer, sent, echoed, backlog, open, cut>>
    <3>1. /\ f \in Fds /\ c = open[f] /\ n \in 1..Len(u) /\ k \in Nat /\ k + n <= MaxSend
          /\ a \in Seq(Cells) /\ UNCHANGED <<peer, sent, echoed, backlog, open, cut>>
      BY <2>1 DEF Answers
    <3>2. /\ u \in Seq(Bytes) /\ r \in Seq(1..MaxSend) /\ echoed[c] \in Seq(Cells)
          /\ status_machine \in [Fds -> {WS_HANDSHARK, WS_TRANMISSION}] /\ c # NoConn
      BY NoConnAssumption DEF WsInv, Structure, Shaped, Typed, MarksOK
    <3> HIDE DEF u, k, f
    <3>3. n \in Nat \ {0}
      BY <3>1, <3>2
    <3> QED
      BY <3>1, <3>2, <3>3
  <2>3. ConnInv(c) /\ FdInv(f) /\ RequestOf(f) /\ AnswerOf(f) /\ Marked(r, k)
    BY <2>2 DEF WsInv, FdInv, ConnInv
  <2>4. /\ reads'[c] = Append(r, k + n) /\ reads'[c] # <<>> /\ Marked(reads'[c], k + n)
        /\ r = <<>> => k = 0 /\ reads'[c] = <<k + n>>
    <3>1. reads'[c] = Append(r, k + n)
      BY <2>1 DEF Answers
    <3> HIDE DEF r, k
    <3> QED
      BY <2>2, <2>3, <3>1, MarkedOnce
  <2>5. /\ inbox'[c] = SubSeq(u, n + 1, Len(u))
        /\ ReadFrom(c)' = k + n
        /\ \A d \in Conns \ {c} : inbox'[d] = inbox[d] /\ reads'[d] = reads[d]
    BY <2>1 DEF Answers
  <2>6. OnePlace'
    BY <2>2 DEF WsInv, OnePlace
  <2>7. ConnInv(c)'
    <3>1. /\ Len(inbox'[c]) = Len(u) - n /\ DOMAIN inbox'[c] = 1..(Len(u) - n)
          /\ \A i \in 1..(Len(u) - n) : n + i \in DOMAIN u /\ inbox'[c][i] = u[n + i]
      <4> DEFINE v == SubSeq(u, n + 1, Len(u))
      <4>1. u \in Seq(Bytes) /\ n \in 0..Len(u) /\ inbox'[c] = v
        BY <2>2, <2>5
      <4> HIDE DEF u
      <4>2. /\ v \in Seq(Bytes) /\ DOMAIN v = 1..(Len(u) - n) /\ Len(u) - n \in Nat
            /\ \A i \in 1..(Len(u) - n) : n + i \in DOMAIN u /\ v[i] = u[n + i]
        BY <4>1, Cuts
      <4> HIDE DEF v
      <4>3. Len(v) = Len(u) - n
        BY <4>2, LenProperties
      <4> QED
        BY <4>1, <4>2, <4>3
    <3>2. /\ Len(u) <= sent[c] /\ sent[c] \in Nat /\ Len(u) \in Nat
          /\ \A i \in DOMAIN u : u[i] = <<c, k + i>>
      BY <2>2, <2>3, ReactorAssumption DEF ConnInv, WsInv, Structure, Shaped, Typed
    <3>3. Len(inbox'[c]) <= sent'[c]
      BY <2>2, <3>1, <3>2
    <3>4. \A i \in DOMAIN inbox'[c] : inbox'[c][i] = <<c, (k + n) + i>>
      <4>1. \A i \in 1..(Len(u) - n) : k + (n + i) = (k + n) + i
        BY <2>2, <3>2
      <4> QED
        BY <3>1, <3>2, <4>1
    <3>5. peer'[c] # "new" /\ c \notin Unserved'
      BY <2>2 DEF WsInv, OnePlace, Unserved
    <3> QED
      BY <2>4, <2>5, <3>3, <3>4, <3>5 DEF ConnInv
  <2>8. ASSUME NEW d \in Conns \ {c} PROVE ConnInv(d)'
    BY <2>2, <2>5, ConnKept DEF WsInv, Unserved
  <2>9. Chain(c, echoed[c], r, k) => Chain(c, echoed[c] \o a, reads'[c], k + n)
    <3> SUFFICES ASSUME Chain(c, echoed[c], r, k)
                 PROVE  Chain(c, echoed[c] \o a, reads'[c], k + n)
      OBVIOUS
    <3>1. Run(c, k, n, b) /\ IF r = <<>> THEN a = handshark(b) ELSE a \in transmission(b)
      BY <2>1 DEF Answers
    <3> HIDE DEF b, k, r
    <3>2. CASE r = <<>>
      <4>1. k = 0 /\ reads'[c] = <<n>> /\ k + n = n
        BY <2>2, <2>4, <3>2
      <4>2. echoed[c] = <<>> /\ echoed[c] \o a = a
        BY <2>2, <2>3, <3>2, ConcatEmptySeq DEF ConnInv, r
      <4>3. a = b \/ \E x \in Cells : a = <<x>> /\ x.of = c /\ x.nr = 0
        BY <2>2, <3>1, <3>2, <4>1, HandsharkAnswers
      <4>4. Chain(c, a, <<n>>, n)
        BY <2>2, <3>1, <4>1, <4>3, ChainBegins
      <4> QED
        BY <4>1, <4>2, <4>4
    <3>3. CASE r # <<>>
      <4>1. Run(c, k, n, a)
        BY <2>2, <3>1, <3>3, TransmissionRuns
      <4> QED
        BY <2>2, <2>3, <2>4, <3>3, <4>1, ChainGrows
    <3> QED
      BY <3>2, <3>3
  <2>10. FdInv(f)'
    <3>1. /\ status_machine'[f] = WS_TRANMISSION /\ Flight(f) = <<>>
          /\ Flight(f)' = a
      BY <2>1, <2>2 DEF Answers, Flight
    <3>2. RequestOf(f)'
      BY <2>2, <2>4, <3>1 DEF RequestOf, WS_HANDSHARK, WS_TRANMISSION
    <3>3. c \notin cut => Chain(c, echoed[c], r, k)
      BY <2>2, <2>3, <3>1, ConcatEmptySeq DEF AnswerOf
    <3>4. AnswerOf(f)'
      <4>1. c \notin cut' => Chain(c, echoed'[c] \o Flight(f)', reads'[c], ReadFrom(c)')
        BY <2>2, <2>5, <2>9, <3>1, <3>3
      <4> QED
        BY <2>2, <2>4, <4>1 DEF AnswerOf, ReadFrom
    <3> QED
      BY <3>2, <3>4 DEF FdInv
  <2>11. ASSUME NEW g \in Fds \ {f} PROVE FdInv(g)'
    <3>1. /\ ev'[g] = ev[g] /\ status_machine'[g] = status_machine[g]
      BY <2>1 DEF Answers
    <3>2. open[g] # NoConn => open[g] \in Conns \ {c}
      BY <2>2 DEF WsInv, OnePlace, Structure, Shaped, Typed
    <3> QED
      BY <2>2, <2>5, <3>1, <3>2, FdKept DEF WsInv, ReadFrom
  <2> QED
    BY <1>2, <2>6, <2>7, <2>8, <2>10, <2>11, WsAnswers DEF WsInv
<1> QED
  BY <1>1, <1>2

(* What send() has taken is with the client, and what it has not is gone,  *)
(* but then the connection is one of those that were cut.                  *)
LEMMA WsSendCbKeeps ==
    ASSUME WsInv, NEW e \in batch, batch' = batch \ {e}, e.fd # listener,
           ev[e.fd].callback = "send_cb", ws_send_cb(e.fd)
    PROVE  WsInv'
<1>0. PICK c \in Conns : c = open[e.fd]
  BY DEF WsInv, Structure, Shaped, Typed, EventsAreOpen
<1> DEFINE f == e.fd
           b == ev[f].buffer
<1>1. /\ f \in Fds /\ c = open[f] /\ c # NoConn /\ cut \subseteq Conns
      /\ echoed \in [Conns -> Seq(Cells)] /\ ev[f] \in Record(Cells) /\ b \in Seq(Cells)
  BY <1>0, NoConnAssumption DEF WsInv, Structure, Shaped, Typed, Record
<1>2. Structure(Cells)'
  BY SendKeeps DEF WsInv, ws_send_cb
<1>3. UNCHANGED <<status_machine, reads>> /\ MarksOK'
  BY DEF ws_send_cb, WsInv, MarksOK
<1>4. CASE CloseFd(f) /\ UNCHANGED <<peer, sent, inbox, echoed, backlog, full, blkcnt, alive, cut>>
  BY <1>3, <1>4, WsCloseKeeps
<1>5. CASE UNCHANGED <<netVars, interest, ev, blkcnt, cut>>
  BY <1>2, <1>3, <1>5, IdleKeeps
<1>6. ASSUME NEW s \in Taken(b), echoed' = [echoed EXCEPT ![c] = echoed[c] \o s],
             cut' = IF s = b THEN cut ELSE cut \cup {c},
             full' = full \/ full' = full \cup {c},
             ReceiveNext(f), UNCHANGED <<peer, sent, inbox, backlog, open, blkcnt>>
      PROVE  WsInv'
  <2>1. /\ ev'[f].callback = "recv_cb" /\ \A g \in Fds : g # f => ev'[g] = ev[g]
    <3> DEFINE p == <<"in", "recv_cb">>
    <3>1. p \in {<<"in", "recv_cb">>, <<"out", "send_cb">>} /\ p[2] = "recv_cb"
      OBVIOUS
    <3>2. /\ TurnAround(e.fd, [ev[e.fd] EXCEPT !.buffer = b], p[2], p[1])
          /\ open' = open /\ blkcnt' = blkcnt
      <4>1. ev[f] = [ev[f] EXCEPT !.buffer = b]
        BY <1>1 DEF Record
      <4> QED
        BY <1>6, <4>1 DEF ReceiveNext
    <3>3. b \in Seq(Cells) /\ Structure(Cells)
      BY <1>1 DEF WsInv
    <3> HIDE DEF b, p
    <3> QED
      BY <3>1, <3>2, <3>3, TurnAroundKeeps
  <2>2. /\ echoed'[c] = echoed[c] \o s
        /\ \A d \in Conns \ {c} : echoed'[d] = echoed[d]
        /\ Flight(f) = b /\ Flight(f)' = <<>>
    BY <1>1, <1>6, <2>1 DEF Flight
  <2>3. FdInv(f) /\ AnswerOf(f) /\ reads[c] # <<>> /\ ConnInv(c)
    BY <1>1 DEF WsInv, FdInv, AnswerOf
  <2>4. OnePlace'
    BY <1>6 DEF WsInv, OnePlace
  <2>5. ConnInv(c)'
    <3>1. peer[c] # "new" /\ c \notin Unserved
      BY <1>1 DEF WsInv, OnePlace, Unserved
    <3> QED
      BY <1>3, <1>6, <2>3, <3>1 DEF ConnInv, ReadFrom, Marked, Unserved
  <2>6. ASSUME NEW d \in Conns \ {c} PROVE ConnInv(d)'
    BY <1>3, <1>6, <2>2, ConnKept DEF WsInv, Unserved
  <2>7. FdInv(f)'
    <3>1. RequestOf(f)'
      BY <1>1, <1>3, <1>6, <2>3 DEF RequestOf, FdInv
    <3>2. AnswerOf(f)'
      <4>1. ASSUME c \notin cut'
            PROVE  Chain(c, echoed'[c] \o Flight(f)', reads[c], ReadFrom(c))
        <5>1. s = b /\ c \notin cut
          BY <1>6, <4>1
        <5>2. Chain(c, echoed[c] \o b, reads[c], ReadFrom(c))
          BY <1>1, <2>2, <2>3, <5>1 DEF AnswerOf
        <5>3. echoed'[c] \o Flight(f)' = echoed[c] \o b
          BY <1>1, <2>2, <5>1, ConcatProperties, ConcatEmptySeq
        <5> QED
          BY <5>2, <5>3
      <4> QED
        BY <1>1, <1>3, <1>6, <2>3, <4>1 DEF AnswerOf, ReadFrom
    <3> QED
      BY <3>1, <3>2 DEF FdInv
  <2>8. ASSUME NEW g \in Fds \ {f} PROVE FdInv(g)'
    <3>1. open[g] # NoConn => open[g] \in Conns \ {c}
      BY <1>1 DEF WsInv, OnePlace, Structure, Shaped, Typed
    <3> QED
      BY <1>3, <1>6, <2>1, <2>2, <3>1, FdKept DEF WsInv, ReadFrom
  <2> QED
    BY <1>2, <1>3, <2>4, <2>5, <2>6, <2>7, <2>8 DEF WsInv
<1> QED
  BY <1>0, <1>4, <1>5, <1>6 DEF ws_send_cb, send_cb

LEMMA WsDispatchKeeps == ASSUME WsInv, WsDispatch PROVE WsInv'
<1>1. PICK e \in batch :
         /\ batch' = batch \ {e}
         /\ \/ UNCHANGED <<netVars, interest, ev, blkcnt, alive, cut, status_machine, reads>>
            \/ ws_accept_cb /\ UNCHANGED <<alive, cut>>
            \/ ev[e.fd].callback = "recv_cb" /\ ws_recv_cb(e.fd) /\ UNCHANGED <<alive, cut>>
            \/ ev[e.fd].callback = "send_cb" /\ ws_send_cb(e.fd)
  BY DEF WsDispatch, Advanced
<1>2. CASE UNCHANGED <<netVars, interest, ev, blkcnt, alive, cut, status_machine, reads>>
  <2>1. Structure(Cells)'
    BY <1>1, <1>2 DEF WsInv, Structure, Shaped, Typed, HaveRecords, RecordsMatch,
       EventsAreCurrent, ListenerInv, EventsAreOpen, netVars
  <2> QED
    BY <1>2, <2>1, IdleKeeps
<1>3. ev[e.fd].callback \in {"recv_cb", "send_cb"} => e.fd # listener
  BY DEF WsInv, Structure, ListenerInv
<1> QED
  BY <1>1, <1>2, <1>3, WsAcceptKeeps, WsRecvKeeps, WsSendCbKeeps

LEMMA WsInitInv == ASSUME WsInit PROVE WsInv
<1>1. Structure(Cells) /\ Init
  BY InitInv DEF WsInit
<1>2. OnePlace /\ MarksOK
  <2>1. <<>> \in Seq(1..MaxSend)
    OBVIOUS
  <2> QED
    BY <1>1, <2>1 DEF WsInit, Init, OnePlace, MarksOK
<1>3. ASSUME NEW c \in Conns PROVE ConnInv(c)
  BY <1>1 DEF WsInit, Init, ConnInv, ReadFrom, Marked
<1>4. ASSUME NEW f \in Fds PROVE FdInv(f)
  BY <1>1 DEF Init, FdInv
<1> QED
  BY <1>1, <1>2, <1>3, <1>4 DEF WsInv

LEMMA WsInvariance == WsSpec => []WsInv
<1>1. WsInit => WsInv
  BY WsInitInv
<1>2. WsInv /\ [WsNext]_wsVars => WsInv'
  <2> SUFFICES ASSUME WsInv, [WsNext]_wsVars PROVE WsInv'
    OBVIOUS
  <2>1. CASE WsWait
    <3>1. Structure(Cells)' /\ UNCHANGED <<netVars, ev, cut, status_machine, reads>>
      BY <2>1, EpollWaitKeeps DEF WsWait, EpollWait, WsInv
    <3> QED
      BY <3>1, IdleKeeps
  <2>2. CASE UNCHANGED wsVars
    <3>1. UNCHANGED vars /\ UNCHANGED <<netVars, ev, cut, status_machine, reads>>
      BY <2>2 DEF wsVars, vars
    <3>2. Structure(Cells)'
      BY <3>1, StutterKeeps DEF WsInv
    <3> QED
      BY <3>1, <3>2, IdleKeeps
  <2> QED
    BY <2>1, <2>2, WsPeersKeeps, WsDispatchKeeps DEF WsNext
<1> QED
  BY <1>1, <1>2, PTL DEF WsSpec

(* What is in the buffer for a connection is in the record of its          *)
(* descriptor.                                                             *)
LEMMA BufferIsFlight ==
    ASSUME OnePlace, NEW f \in Fds, open[f] # NoConn
    PROVE  InBuffer(open[f]) = Flight(f)
<1> DEFINE c == open[f]
           F == {g \in Fds : open[g] = c /\ ev[g].callback = "send_cb"}
<1>1. \A g \in F : g = f
  BY DEF OnePlace
<1>2. CASE ev[f].callback = "send_cb"
  <2>1. F = {f}
    BY <1>1, <1>2
  <2>2. F # {} /\ (CHOOSE g \in F : TRUE) = f
    BY <2>1
  <2> QED
    BY <1>2, <2>2 DEF InBuffer, Flight
<1>3. CASE ev[f].callback # "send_cb"
  <2>1. F = {}
    BY <1>1, <1>3
  <2> QED
    BY <1>3, <2>1 DEF InBuffer, Flight
<1> QED
  BY <1>2, <1>3

(* The types of what the WebSocket server adds to Reactor.                 *)
THEOREM WsTypesHold == WsSpec => []WsTypeOK
<1>1. WsInv => WsTypeOK
  BY DEF WsInv, Structure, Shaped, Typed, Record, MarksOK, WsTypeOK
<1> QED
  BY <1>1, WsInvariance, PTL

(* What WatchedAsRecorded and EventsAreCurrent say of the reactor holds of *)
(* this server, which has the same functions.                              *)
THEOREM WsWatched == WsSpec => [](WatchedAsRecorded /\ EventsAreCurrent)
<1>1. WsInv => WatchedAsRecorded /\ EventsAreCurrent
  BY DEF WsInv, Structure, Shaped, WatchedAsRecorded
<1> QED
  BY <1>1, WsInvariance, PTL

(* The first read of a connection, and no other, is taken for its request. *)
THEOREM OneRequest == WsSpec => []OneRequestEach
<1>1. WsInv => OneRequestEach
  BY DEF WsInv, FdInv, RequestOf, OneRequestEach
<1> QED
  BY <1>1, WsInvariance, PTL

(* The answer, and after it all units of the reads, in order.              *)
THEOREM AnswerThenAllBytes == WsSpec => []AnswerThenBytes
<1>1. WsInv => AnswerThenBytes
  <2> SUFFICES ASSUME WsInv, NEW c \in Intact
               PROVE  Chain(c, Answered(c), reads[c], ReadFrom(c))
    BY DEF AnswerThenBytes, Chain
  <2>1. PICK f \in Fds : open[f] = c /\ c # NoConn /\ c \notin cut
    BY DEF Intact, Served
  <2>2. InBuffer(c) = Flight(f)
    BY <2>1, BufferIsFlight DEF WsInv
  <2> QED
    BY <2>1, <2>2 DEF WsInv, FdInv, AnswerOf, Answered
<1> QED
  BY <1>1, WsInvariance, PTL
-----------------------------------------------------------------------------
(* To reads that were a message each the server answers as it is meant to. *)
Meant(c, x) ==
    x.fate = IF x.nr = 0 THEN IF c \in ZeroDigest THEN "wrong" ELSE "accept"
             ELSE IF Masked(c, x.nr) THEN "clear" ELSE "sent"

Whole(c, r) ==
    \A k \in DOMAIN r :
        LET from == IF k = 1 THEN 1 ELSE r[k - 1] + 1 IN
        /\ Begins(c, from) /\ Ends(c, r[k])
        /\ \A n \in (from + 1)..r[k] : ~ Begins(c, n)

(* Before the first read there is no frame. *)
FramesLater(c) ==
    /\ sent[c] <= Len(Stream[c])
    /\ \A n \in 1..sent[c] : Stream[c][n].kind \in {"frame", "pay"} => reads[c] # <<>>

MeantOf(f) ==
    open[f] # NoConn /\ open[f] \notin cut /\ Whole(open[f], reads[open[f]]) =>
        LET a == echoed[open[f]] \o Flight(f) IN \A i \in DOMAIN a : Meant(open[f], a[i])

MsgInv == /\ \A c \in Conns : FramesLater(c)
          /\ \A f \in Fds : MeantOf(f)

LEMMA Streamed ==
    ASSUME NEW c \in Conns
    PROVE  /\ Stream[c] \in Seq(Units) /\ Len(Stream[c]) \in Nat
           /\ DOMAIN Stream[c] = 1..Len(Stream[c])
           /\ \A n \in DOMAIN Stream[c] : Stream[c][n] \in Units /\ Stream[c][n].len \in Nat
<1>1. Stream[c] \in Seq(Units)
  BY StreamAssumption
<1>2. \A u \in Units : u.len \in Nat
  BY DEF Units
<1> QED
  BY <1>1, <1>2

(* The last read of a sequence of whole messages is one, too. *)
LEMMA WholeLast ==
    ASSUME NEW c \in Conns, NEW r \in Seq(1..MaxSend), NEW k \in Nat, Marked(r, k),
           NEW m \in 1..MaxSend, Whole(c, Append(r, m))
    PROVE  /\ Whole(c, r)
           /\ Begins(c, k + 1) /\ Ends(c, m) /\ \A n \in (k + 2)..m : ~ Begins(c, n)
<1> DEFINE q == Append(r, m)
           h == Len(r)
<1>1. /\ h \in Nat /\ DOMAIN r = 1..h /\ DOMAIN q = 1..(h + 1) /\ q[h + 1] = m
      /\ \A i \in 1..h : q[i] = r[i]
  <2>1. /\ q \in Seq(1..MaxSend) /\ Len(q) = h + 1 /\ q[h + 1] = m
        /\ \A i \in 1..h : q[i] = r[i]
    BY AppendProperties
  <2> HIDE DEF q
  <2>2. DOMAIN q = 1..Len(q)
    BY <2>1, LenProperties
  <2> QED
    BY <2>1, <2>2
<1> HIDE DEF q, h
<1>2. Whole(c, q)
  BY DEF q
<1>3. Whole(c, r)
  <2> SUFFICES ASSUME NEW i \in DOMAIN r
               PROVE  LET from == IF i = 1 THEN 1 ELSE r[i - 1] + 1 IN
                      /\ Begins(c, from) /\ Ends(c, r[i])
                      /\ \A n \in (from + 1)..r[i] : ~ Begins(c, n)
    BY DEF Whole
  <2>1. i \in DOMAIN q /\ q[i] = r[i] /\ (i # 1 => q[i - 1] = r[i - 1])
    BY <1>1
  <2> QED
    BY <1>2, <2>1 DEF Whole
<1>4. /\ h + 1 = 1 => k = 0
      /\ h + 1 # 1 => q[(h + 1) - 1] = k
  <2>1. h = 0 => r = <<>>
    BY EmptySeq DEF h
  <2>2. h # 0 => r # <<>> /\ q[h] = r[h]
    BY <1>1, EmptySeq DEF h
  <2> QED
    BY <1>1, <2>1, <2>2 DEF Marked, h
<1>5. (IF h + 1 = 1 THEN 1 ELSE q[(h + 1) - 1] + 1) = k + 1
  BY <1>1, <1>4
<1>6. h + 1 \in DOMAIN q
  BY <1>1
<1>7. /\ Begins(c, k + 1) /\ Ends(c, q[h + 1])
      /\ \A n \in ((k + 1) + 1)..q[h + 1] : ~ Begins(c, n)
  BY <1>2, <1>5, <1>6 DEF Whole
<1>8. (k + 1) + 1 = k + 2
  OBVIOUS
<1> QED
  BY <1>1, <1>3, <1>7, <1>8

(* A whole request has the whole key. *)
LEMMA FirstMeant ==
    ASSUME NEW c \in Conns, NEW n \in 1..Len(Stream[c]),
           \A m \in 1..n : Stream[c][m].kind \notin {"frame", "pay"}, Ends(c, n),
           NEW b, b = Fresh(c, 0, n), NEW a, a = handshark(b)
    PROVE  \A i \in DOMAIN a : Meant(c, a[i])
<1>1. /\ n \in Nat /\ DOMAIN b = 1..n /\ DOMAIN Stream[c] = 1..Len(Stream[c])
      /\ \A i \in 1..n : /\ b[i].of = c /\ b[i].nr = i /\ b[i].fate = "sent"
                         /\ UnitOf(b[i]) = Stream[c][i]
  BY Streamed DEF Fresh, UnitOf
<1>2. CASE KeyLine(b) = {}
  <2>1. a = b
    BY <1>2 DEF handshark
  <2>2. \A i \in 1..n : ~ Masked(c, i)
    BY <1>1 DEF Masked
  <2> QED
    BY <1>1, <2>1, <2>2 DEF Meant
<1>3. CASE KeyLine(b) # {}
  <2>1. PICK i \in 1..n : i = Min(KeyLine(b)) /\ i \in KeyLine(b)
    BY <1>1, <1>3, KeyFound
  <2>2. Stream[c][i].kind = "name"
    BY <1>1, <2>1 DEF KeyLine
  <2>3. i \in DOMAIN Stream[c]
    BY <1>1, <2>1, Streamed
  <2>4. i + 1 \in DOMAIN Stream[c] /\ Stream[c][i + 1].kind = "key"
    BY <2>2, <2>3, WellMadeAssumption
  <2>5. i # n
    BY <1>1, <2>1, <2>4, Streamed DEF Ends
  <2>6. i + 1 \in 1..n
    BY <1>1, <2>1, <2>5
  <2>7. i + 1 \in DOMAIN b /\ UnitOf(b[i + 1]).kind = "key" /\ b[i].of = c
    BY <1>1, <2>1, <2>4, <2>6
  <2>8. /\ Accept(b, i).nr = 0
        /\ Accept(b, i).fate = IF c \notin ZeroDigest THEN "accept" ELSE "wrong"
    BY <2>7 DEF Accept
  <2>9. Meant(c, Accept(b, i))
    BY <2>8 DEF Meant
  <2>10. a = <<Accept(b, i)>>
    BY <1>3, <2>1 DEF handshark
  <2>11. \A x : DOMAIN <<x>> = {1} /\ <<x>>[1] = x
    OBVIOUS
  <2> QED
    BY <2>9, <2>10, <2>11
<1> QED
  BY <1>2, <1>3

(* A whole frame is unmasked as far as it goes, and no further. *)
LEMMA LaterMeant ==
    ASSUME NEW c \in Conns, NEW k \in Nat, NEW n \in Nat \ {0}, k + n <= Len(Stream[c]),
           Stream[c][k + 1].kind = "frame",
           \A m \in (k + 2)..(k + n) : Stream[c][m].kind # "frame",
           NEW b, b = Fresh(c, k, n), NEW a \in transmission(b)
    PROVE  \A i \in DOMAIN a : Meant(c, a[i])
<1> DEFINE h == Stream[c][k + 1]
<1>1. /\ DOMAIN b = 1..n /\ Len(Stream[c]) \in Nat
      /\ \A i \in 1..n : b[i] = [of |-> c, nr |-> k + i, fate |-> "sent"]
  BY Streamed DEF Fresh
<1>2. UnitOf(b[1]) = h /\ h.len \in Nat
  <2>1. k + 1 \in DOMAIN Stream[c]
    BY <1>1, Streamed
  <2>2. b[1] = [of |-> c, nr |-> k + 1, fate |-> "sent"]
    BY <1>1
  <2> QED
    BY <2>1, <2>2, Streamed DEF UnitOf
<1>3. ASSUME NEW i \in 1..n
      PROVE  Masked(c, k + i) <=> h.mask /\ h.len < 126 /\ i \in 2..(h.len + 1)
  <2>1. ASSUME NEW g \in 1..((k + i) - 1), Stream[c][g].kind = "frame",
               Stream[c][g].len < 126, k + i <= g + Stream[c][g].len
        PROVE  g = k + 1
    <3>1. g \in 1..(k + n) /\ k + n \in Nat
      BY <1>1
    <3>2. g \in DOMAIN Stream[c] /\ Stream[c][g].len \in Nat
      BY <1>1, <3>1, Streamed
    <3>3. g \notin (k + 2)..(k + n)
      BY <2>1
    <3>4. ASSUME g < k + 1 PROVE FALSE
      <4>1. k + 1 \in (g + 1)..(g + Stream[c][g].len)
        BY <2>1, <3>1, <3>2, <3>4
      <4>2. k + 1 \in DOMAIN Stream[c]
        BY <1>1, Streamed
      <4>3. Stream[c][k + 1].kind = "pay"
        BY <2>1, <3>2, <4>1, <4>2, WellMadeAssumption
      <4> QED
        BY <4>3
    <3> QED
      BY <3>1, <3>3, <3>4
  <2>2. ASSUME Masked(c, k + i) PROVE h.mask /\ h.len < 126 /\ i \in 2..(h.len + 1)
    <3>1. PICK g \in 1..((k + i) - 1) : /\ Stream[c][g].kind = "frame" /\ Stream[c][g].mask
                                        /\ Stream[c][g].len < 126
                                        /\ k + i <= g + Stream[c][g].len
      BY <2>2 DEF Masked
    <3>2. g = k + 1
      BY <2>1, <3>1
    <3>3. h.mask /\ h.len < 126 /\ k + i <= (k + 1) + h.len /\ k + 1 <= (k + i) - 1
      BY <3>1, <3>2
    <3> DEFINE l == h.len
    <3>4. l \in Nat /\ k + i <= (k + 1) + l
      BY <1>2, <3>3
    <3> HIDE DEF h, l
    <3>5. i \in 2..(l + 1)
      BY <3>3, <3>4
    <3> QED
      BY <3>3, <3>5 DEF l
  <2>3. ASSUME h.mask, h.len < 126, i \in 2..(h.len + 1) PROVE Masked(c, k + i)
    <3> DEFINE l == h.len
    <3>1. l \in Nat /\ i \in 2..(l + 1)
      BY <1>2, <2>3
    <3> HIDE DEF h, l
    <3>2. k + 1 \in 1..((k + i) - 1) /\ k + i <= (k + 1) + l
      BY <3>1
    <3> USE DEF h, l
    <3> QED
      BY <2>3, <3>2 DEF Masked
  <2> QED
    BY <2>2, <2>3
<1>4. a = IF h.mask /\ h.len < 126 THEN umask(b, h.len) ELSE b
  BY <1>2 DEF transmission
<1>5. ASSUME NEW i \in 1..n
      PROVE  /\ [b[i] EXCEPT !.fate = "clear"].nr = k + i
             /\ [b[i] EXCEPT !.fate = "clear"].fate = "clear"
             /\ b[i].nr = k + i /\ b[i].fate = "sent" /\ k + i # 0
  BY <1>1
<1>6. CASE h.mask /\ h.len < 126
  <2>1. /\ DOMAIN a = 1..n
        /\ \A i \in 1..n : a[i] = IF i \in 2..(h.len + 1) THEN [b[i] EXCEPT !.fate = "clear"]
                                  ELSE b[i]
    BY <1>1, <1>4, <1>6 DEF umask, Changed
  <2> HIDE DEF h
  <2>2. ASSUME NEW i \in 1..n PROVE Meant(c, a[i])
    <3>1. a[i].nr = k + i /\ k + i # 0
      BY <1>5, <2>1
    <3>2. a[i].fate = IF i \in 2..(h.len + 1) THEN "clear" ELSE "sent"
      BY <1>5, <2>1
    <3>3. Masked(c, k + i) <=> i \in 2..(h.len + 1)
      BY <1>3, <1>6
    <3> QED
      BY <3>1, <3>2, <3>3 DEF Meant
  <2> QED
    BY <2>1, <2>2
<1>7. CASE ~(h.mask /\ h.len < 126)
  BY <1>1, <1>3, <1>4, <1>5, <1>7 DEF Meant
<1> QED
  BY <1>6, <1>7

LEMMA FramesKept ==
    ASSUME NEW c \in Conns, FramesLater(c), sent'[c] = sent[c],
           reads[c] # <<>> => reads'[c] # <<>>
    PROVE  FramesLater(c)'
BY DEF FramesLater

LEMMA MeantKept ==
    ASSUME NEW f \in Fds, MeantOf(f),
           open'[f] # NoConn =>
              /\ open[f] = open'[f] /\ ev'[f] = ev[f]
              /\ reads'[open[f]] = reads[open[f]] /\ echoed'[open[f]] = echoed[open[f]]
              /\ open[f] \in cut => open[f] \in cut'
    PROVE  MeantOf(f)'
<1> SUFFICES ASSUME open'[f] # NoConn, open'[f] \notin cut', Whole(open'[f], reads'[open'[f]])
             PROVE  LET a == echoed'[open'[f]] \o Flight(f)'
                    IN  \A i \in DOMAIN a : Meant(open'[f], a[i])
  BY DEF MeantOf
<1> DEFINE c == open[f]
<1>1. /\ c = open'[f] /\ c # NoConn /\ c \notin cut /\ Whole(c, reads[c])
      /\ echoed'[c] = echoed[c] /\ Flight(f)' = Flight(f)
  BY DEF Flight
<1>2. LET a == echoed[c] \o Flight(f) IN \A i \in DOMAIN a : Meant(c, a[i])
  BY <1>1 DEF MeantOf
<1> HIDE DEF c
<1> QED
  BY <1>1, <1>2

LEMMA MsgIdle ==
    ASSUME MsgInv, UNCHANGED <<sent, echoed, open, ev, cut, reads>>
    PROVE  MsgInv'
<1>1. ASSUME NEW c \in Conns PROVE FramesLater(c)'
  BY FramesKept DEF MsgInv
<1>2. ASSUME NEW f \in Fds PROVE MeantOf(f)'
  BY MeantKept DEF MsgInv
<1> QED
  BY <1>1, <1>2 DEF MsgInv

(* A client sends no frame before it has an answer. *)
LEMMA MsgPeers == ASSUME WsInv, MsgInv, WsPeers PROVE MsgInv'
<1>1. ASSUME NEW c \in Conns, Connect(c) \/ Hangup(c) \/ Drain(c), UNCHANGED <<status_machine, reads>>
      PROVE  MsgInv'
  BY <1>1, MsgIdle DEF Connect, Hangup, Drain, unchangedByPeers
<1>2. ASSUME NEW c \in Conns, WsSend(c), UNCHANGED <<status_machine, reads>>
      PROVE  MsgInv'
  <2>1. /\ UNCHANGED <<echoed, open, ev, cut, reads>>
        /\ sent[c] \in Nat /\ sent'[c] = sent[c] + 1
        /\ \A d \in Conns \ {c} : sent'[d] = sent[d]
    BY <1>2, ReactorAssumption DEF WsSend, Send, unchangedByPeers, WsInv, Structure, Shaped, Typed
  <2>2. FramesLater(c)'
    <3>1. FramesLater(c) /\ Len(Stream[c]) \in Nat /\ sent[c] < Len(Stream[c])
      BY <1>2, Streamed DEF MsgInv, WsSend
    <3>2. Stream[c][sent[c] + 1].kind \in {"frame", "pay"} => reads[c] # <<>>
      <4>1. Accepted(c) => echoed[c] # <<>>
        BY DEF Accepted
      <4> QED
        BY <1>2, <4>1 DEF WsSend, WsInv, ConnInv
    <3>3. \A n \in 1..(sent[c] + 1) : n \in 1..sent[c] \/ n = sent[c] + 1
      BY <2>1
    <3> QED
      BY <2>1, <3>1, <3>2, <3>3 DEF FramesLater
  <2>3. ASSUME NEW d \in Conns \ {c} PROVE FramesLater(d)'
    BY <2>1, FramesKept DEF MsgInv
  <2>4. ASSUME NEW f \in Fds PROVE MeantOf(f)'
    BY <2>1, MeantKept DEF MsgInv
  <2> QED
    BY <2>2, <2>3, <2>4 DEF MsgInv
<1> QED
  BY <1>1, <1>2 DEF WsPeers

LEMMA MsgAccept ==
    ASSUME WsInv, MsgInv, NEW e \in batch, ws_accept_cb, UNCHANGED <<alive, cut>>
    PROVE  MsgInv'
<1>1. UNCHANGED reads
  BY DEF ws_accept_cb
<1>2. CASE UNCHANGED <<netVars, interest, ev, blkcnt>>
  BY <1>1, <1>2, MsgIdle DEF netVars
<1>3. ASSUME NEW f \in Fds \ {listener}, Accepts(f) PROVE MsgInv'
  <2>0. PICK c \in Conns : c = open'[f]
    BY <1>3 DEF Accepts
  <2>1. /\ c \in Unserved /\ ev'[f].callback = "recv_cb"
        /\ \A g \in Fds \ {f} : open'[g] = open[g] /\ ev'[g] = ev[g]
        /\ UNCHANGED <<sent, echoed>>
    BY <1>3, <2>0 DEF Accepts
  <2>2. echoed[c] = <<>>
    BY <2>1 DEF WsInv, ConnInv
  <2>3. ASSUME NEW d \in Conns PROVE FramesLater(d)'
    BY <1>1, <2>1, FramesKept DEF MsgInv
  <2>4. MeantOf(f)'
    <3>1. Flight(f)' = <<>> /\ echoed'[c] = <<>>
      BY <2>1, <2>2 DEF Flight
    <3>2. echoed'[open'[f]] \o Flight(f)' = <<>>
      BY <2>0, <3>1
    <3>3. DOMAIN <<>> = {}
      OBVIOUS
    <3> QED
      BY <3>2, <3>3 DEF MeantOf
  <2>5. ASSUME NEW g \in Fds \ {f} PROVE MeantOf(g)'
    BY <1>1, <2>1, MeantKept DEF MsgInv
  <2> QED
    BY <2>3, <2>4, <2>5 DEF MsgInv
<1> QED
  BY <1>2, <1>3, AcceptPlaces DEF WsInv, ws_accept_cb

LEMMA MsgClose ==
    ASSUME WsInv, MsgInv, NEW e \in batch, batch' = batch \ {e}, e.fd # listener,
           CloseFd(e.fd), UNCHANGED <<sent, echoed, blkcnt, cut, reads>>
    PROVE  MsgInv'
<1>1. \A g \in Fds : open'[g] # NoConn => open[g] = open'[g] /\ ev[g] = ev'[g]
  BY CloseKeeps DEF WsInv
<1>2. ASSUME NEW c \in Conns PROVE FramesLater(c)'
  BY FramesKept DEF MsgInv
<1>3. ASSUME NEW f \in Fds PROVE MeantOf(f)'
  BY <1>1, MeantKept DEF MsgInv
<1> QED
  BY <1>2, <1>3 DEF MsgInv

LEMMA MsgRecv ==
    ASSUME WsInv, MsgInv, NEW e \in batch, batch' = batch \ {e}, e.fd # listener,
           ev[e.fd].callback = "recv_cb", ws_recv_cb(e.fd), UNCHANGED <<alive, cut>>
    PROVE  MsgInv'
<1>1. CASE inbox[open[e.fd]] = <<>>
  BY <1>1, MsgClose DEF ws_recv_cb
<1>2. CASE inbox[open[e.fd]] # <<>>
  <2> DEFINE f == e.fd
  <2>0. PICK c \in Conns : \E n, a : Answers(f, c, n, a)
    BY <1>2, WsAnswers
  <2>1. PICK n, a : Answers(f, c, n, a)
    BY <2>0
  <2> DEFINE k == ReadFrom(c)
             u == inbox[c]
             r == reads[c]
             b == Fresh(c, k, n)
  <2>2. /\ f \in Fds /\ c = open[f] /\ c # NoConn
        /\ n \in 1..Len(u) /\ n \in Nat \ {0} /\ k \in Nat /\ k + n <= MaxSend
        /\ a \in Seq(Cells) /\ u \in Seq(Bytes) /\ r \in Seq(1..MaxSend)
        /\ echoed[c] \in Seq(Cells) /\ Len(u) \in Nat /\ sent[c] \in Nat
        /\ UNCHANGED <<sent, echoed, open, cut>>
    <3>1. /\ f \in Fds /\ c = open[f] /\ n \in 1..Len(u) /\ k \in Nat /\ k + n <= MaxSend
          /\ a \in Seq(Cells) /\ UNCHANGED <<sent, echoed, open, cut>>
      BY <2>1 DEF Answers
    <3>2. /\ u \in Seq(Bytes) /\ r \in Seq(1..MaxSend) /\ echoed[c] \in Seq(Cells)
          /\ sent[c] \in 0..MaxSend /\ c # NoConn
      BY NoConnAssumption DEF WsInv, Structure, Shaped, Typed, MarksOK
    <3> HIDE DEF u, k, f
    <3>3. Len(u) \in Nat /\ n \in Nat \ {0} /\ sent[c] \in Nat
      BY <3>1, <3>2, ReactorAssumption
    <3> QED
      BY <3>1, <3>2, <3>3
  <2>3. /\ Marked(r, k) /\ k + n <= sent[c]
        /\ r = <<>> => echoed[c] = <<>>
    <3>1. ConnInv(c) /\ k = sent[c] - Len(u)
      BY DEF WsInv, ReadFrom
    <3>2. k + n <= sent[c]
      <4> HIDE DEF k, u
      <4> QED
        BY <2>2, <3>1
    <3>3. Marked(r, k) /\ (echoed[c] # <<>> => r # <<>>)
      BY <3>1 DEF ConnInv
    <3> QED
      BY <3>2, <3>3
  <2>4. /\ reads'[c] = Append(r, k + n) /\ reads'[c] # <<>>
        /\ \A d \in Conns \ {c} : reads'[d] = reads[d]
    <3>1. /\ reads'[c] = Append(r, k + n)
          /\ \A d \in Conns \ {c} : reads'[d] = reads[d]
      BY <2>1 DEF Answers
    <3> HIDE DEF r, k
    <3>2. Append(r, k + n) # <<>>
      BY <2>2, <2>3, MarkedOnce
    <3> QED
      BY <3>1, <3>2
  <2>5. FramesLater(c) /\ FramesLater(c)'
    BY <2>2, <2>4, FramesKept DEF MsgInv
  <2>6. ASSUME NEW d \in Conns \ {c} PROVE FramesLater(d)'
    BY <2>2, <2>4, FramesKept DEF MsgInv
  <2>7. ASSUME c \notin cut, Whole(c, Append(r, k + n))
        PROVE  \A i \in DOMAIN (echoed[c] \o a) : Meant(c, (echoed[c] \o a)[i])
    <3>1. k + n \in 1..MaxSend
      BY <2>2, ReactorAssumption
    <3>2. /\ Whole(c, r) /\ Begins(c, k + 1) /\ Ends(c, k + n)
          /\ \A m \in (k + 2)..(k + n) : ~ Begins(c, m)
      BY <2>2, <2>3, <2>7, <3>1, WholeLast
    <3>3. IF r = <<>> THEN a = handshark(b) ELSE a \in transmission(b)
      BY <2>1 DEF Answers
    <3>4. k + n <= Len(Stream[c]) /\ Len(Stream[c]) \in Nat
      BY <2>2, <2>3, <2>5, Streamed DEF FramesLater
    <3>5. \A i \in DOMAIN a : Meant(c, a[i])
      <4>1. CASE r = <<>>
        <5>1. k = 0
          BY <2>3, <4>1 DEF Marked
        <5>2. n \in 1..Len(Stream[c]) /\ Ends(c, n)
          BY <2>2, <3>2, <3>4, <5>1
        <5>3. \A m \in 1..n : Stream[c][m].kind \notin {"frame", "pay"}
          BY <2>2, <2>3, <2>5, <4>1, <5>1 DEF FramesLater
        <5>4. b = Fresh(c, 0, n) /\ a = handshark(b)
          BY <3>3, <4>1, <5>1
        <5> HIDE DEF b, k, r
        <5> QED
          BY <5>2, <5>3, <5>4, FirstMeant
      <4>2. CASE r # <<>>
        <5>1. k # 0
          BY <2>2, <2>3, <4>2 DEF Marked
        <5>2. /\ Stream[c][k + 1].kind = "frame"
              /\ \A m \in (k + 2)..(k + n) : Stream[c][m].kind # "frame"
          <6> HIDE DEF k, r
          <6>1. k + 1 # 1 /\ \A m \in (k + 2)..(k + n) : m # 1
            BY <2>2, <5>1
          <6> QED
            BY <3>2, <6>1 DEF Begins
        <5>3. a \in transmission(b)
          BY <3>3, <4>2
        <5> HIDE DEF k, r
        <5> QED
          BY <2>2, <3>4, <5>2, <5>3, LaterMeant
      <4> QED
        BY <4>1, <4>2
    <3>6. \A i \in DOMAIN echoed[c] : Meant(c, echoed[c][i])
      <4>1. Flight(f) = <<>>
        BY <2>1 DEF Answers
      <4>2. echoed[c] \o Flight(f) = echoed[c]
        BY <2>2, <4>1, ConcatEmptySeq
      <4>3. MeantOf(f)
        BY <2>2 DEF MsgInv
      <4> QED
        BY <2>2, <2>7, <3>2, <4>2, <4>3 DEF MeantOf
    <3> DEFINE s == echoed[c]
               h == Len(s)
               w == s \o a
    <3>7. /\ h \in Nat /\ DOMAIN s = 1..h /\ Len(a) \in Nat /\ DOMAIN a = 1..Len(a)
          /\ DOMAIN w = 1..(h + Len(a))
          /\ \A i \in 1..(h + Len(a)) : w[i] = IF i <= h THEN s[i] ELSE a[i - h]
      BY <2>2, ConcatProperties
    <3> HIDE DEF s, h, w
    <3>8. ASSUME NEW i \in DOMAIN w PROVE Meant(c, w[i])
      <4>1. CASE i <= h
        BY <3>6, <3>7, <4>1 DEF s
      <4>2. CASE ~(i <= h)
        BY <3>5, <3>7, <4>2
      <4> QED
        BY <4>1, <4>2
    <3> QED
      BY <3>8 DEF w, s
  <2>8. MeantOf(f)'
    <3>1. Flight(f)' = a
      BY <2>1 DEF Answers, Flight
    <3>2. echoed'[open'[f]] \o Flight(f)' = echoed[c] \o a
      BY <2>2, <3>1
    <3>3. /\ open'[f] = c /\ cut' = cut
          /\ reads'[open'[f]] = Append(r, k + n)
      BY <2>2, <2>4
    <3> HIDE DEF f, r, k
    <3> QED
      BY <2>7, <3>2, <3>3 DEF MeantOf
  <2>9. ASSUME NEW g \in Fds \ {f} PROVE MeantOf(g)'
    <3>1. ev'[g] = ev[g]
      BY <2>1 DEF Answers
    <3>2. open[g] # NoConn => open[g] \in Conns \ {c}
      BY <2>2 DEF WsInv, OnePlace, Structure, Shaped, Typed
    <3> QED
      BY <2>2, <2>4, <3>1, <3>2, MeantKept DEF MsgInv
  <2> QED
    BY <2>5, <2>6, <2>8, <2>9 DEF MsgInv
<1> QED
  BY <1>1, <1>2

LEMMA MsgSendCb ==
    ASSUME WsInv, MsgInv, NEW e \in batch, batch' = batch \ {e}, e.fd # listener,
           ev[e.fd].callback = "send_cb", ws_send_cb(e.fd)
    PROVE  MsgInv'
<1>0. PICK c \in Conns : c = open[e.fd]
  BY DEF WsInv, Structure, Shaped, Typed, EventsAreOpen
<1> DEFINE f == e.fd
           b == ev[f].buffer
<1>1. /\ f \in Fds /\ c = open[f] /\ c # NoConn /\ cut \subseteq Conns
      /\ echoed \in [Conns -> Seq(Cells)] /\ ev[f] \in Record(Cells) /\ b \in Seq(Cells)
  BY <1>0, NoConnAssumption DEF WsInv, Structure, Shaped, Typed, Record
<1>2. UNCHANGED <<status_machine, reads>>
  BY DEF ws_send_cb
<1>3. CASE CloseFd(f) /\ UNCHANGED <<peer, sent, inbox, echoed, backlog, full, blkcnt, alive, cut>>
  BY <1>2, <1>3, MsgClose
<1>4. CASE UNCHANGED <<netVars, interest, ev, blkcnt, cut>>
  BY <1>2, <1>4, MsgIdle DEF netVars
<1>5. ASSUME NEW s \in Taken(b), echoed' = [echoed EXCEPT ![c] = echoed[c] \o s],
             cut' = IF s = b THEN cut ELSE cut \cup {c},
             full' = full \/ full' = full \cup {c},
             ReceiveNext(f), UNCHANGED <<peer, sent, inbox, backlog, open, blkcnt>>
      PROVE  MsgInv'
  <2>1. /\ ev'[f].callback = "recv_cb" /\ \A g \in Fds : g # f => ev'[g] = ev[g]
    <3> DEFINE p == <<"in", "recv_cb">>
    <3>1. p \in {<<"in", "recv_cb">>, <<"out", "send_cb">>} /\ p[2] = "recv_cb"
      OBVIOUS
    <3>2. /\ TurnAround(e.fd, [ev[e.fd] EXCEPT !.buffer = b], p[2], p[1])
          /\ open' = open /\ blkcnt' = blkcnt
      <4>1. ev[f] = [ev[f] EXCEPT !.buffer = b]
        BY <1>1 DEF Record
      <4> QED
        BY <1>5, <4>1 DEF ReceiveNext
    <3>3. b \in Seq(Cells) /\ Structure(Cells)
      BY <1>1 DEF WsInv
    <3> HIDE DEF b, p
    <3> QED
      BY <3>1, <3>2, <3>3, TurnAroundKeeps
  <2>2. /\ echoed'[c] = echoed[c] \o s
        /\ \A d \in Conns \ {c} : echoed'[d] = echoed[d]
        /\ Flight(f) = b /\ Flight(f)' = <<>>
    BY <1>1, <1>5, <2>1 DEF Flight
  <2>3. ASSUME NEW d \in Conns PROVE FramesLater(d)'
    BY <1>2, <1>5, FramesKept DEF MsgInv
  <2>4. MeantOf(f)'
    <3>1. ASSUME c \notin cut', Whole(c, reads[c])
          PROVE  LET a == echoed'[c] \o Flight(f)' IN \A i \in DOMAIN a : Meant(c, a[i])
      <4>1. s = b /\ c \notin cut
        BY <1>5, <3>1
      <4>2. echoed'[c] \o Flight(f)' = echoed[c] \o Flight(f)
        BY <1>1, <2>2, <4>1, ConcatProperties, ConcatEmptySeq
      <4>3. MeantOf(f)
        BY <1>1 DEF MsgInv
      <4>4. LET a == echoed[c] \o Flight(f) IN \A i \in DOMAIN a : Meant(c, a[i])
        BY <1>1, <3>1, <4>1, <4>3 DEF MeantOf
      <4> QED
        BY <4>2, <4>4
    <3>2. /\ open'[f] = c /\ reads'[c] = reads[c]
      BY <1>1, <1>2, <1>5
    <3> QED
      BY <3>1, <3>2 DEF MeantOf
  <2>5. ASSUME NEW g \in Fds \ {f} PROVE MeantOf(g)'
    <3>1. open[g] # NoConn => open[g] \in Conns \ {c}
      BY <1>1 DEF WsInv, OnePlace, Structure, Shaped, Typed
    <3> QED
      BY <1>2, <1>5, <2>1, <2>2, <3>1, MeantKept DEF MsgInv
  <2> QED
    BY <2>3, <2>4, <2>5 DEF MsgInv
<1> QED
  BY <1>0, <1>3, <1>4, <1>5 DEF ws_send_cb, send_cb

LEMMA MsgDispatch == ASSUME WsInv, MsgInv, WsDispatch PROVE MsgInv'
<1>1. PICK e \in batch :
         /\ batch' = batch \ {e}
         /\ \/ UNCHANGED <<netVars, interest, ev, blkcnt, alive, cut, status_machine, reads>>
            \/ ws_accept_cb /\ UNCHANGED <<alive, cut>>
            \/ ev[e.fd].callback = "recv_cb" /\ ws_recv_cb(e.fd) /\ UNCHANGED <<alive, cut>>
            \/ ev[e.fd].callback = "send_cb" /\ ws_send_cb(e.fd)
  BY DEF WsDispatch, Advanced
<1>2. CASE UNCHANGED <<netVars, interest, ev, blkcnt, alive, cut, status_machine, reads>>
  BY <1>2, MsgIdle DEF netVars
<1>3. ev[e.fd].callback \in {"recv_cb", "send_cb"} => e.fd # listener
  BY DEF WsInv, Structure, ListenerInv
<1> QED
  BY <1>1, <1>2, <1>3, MsgAccept, MsgRecv, MsgSendCb

(* Reads that are a message each are answered as they are meant to be.     *)
THEOREM WholeMessagesAreAnswered == WsSpec => []MessagesAreAnswered
<1>1. WsInit => MsgInv
  <2> SUFFICES ASSUME WsInit PROVE MsgInv
    OBVIOUS
  <2>1. ASSUME NEW c \in Conns PROVE FramesLater(c)
    BY Streamed DEF WsInit, Init, FramesLater
  <2>2. ASSUME NEW f \in Fds PROVE MeantOf(f)
    BY DEF WsInit, Init, MeantOf
  <2> QED
    BY <2>1, <2>2 DEF MsgInv
<1>2. WsInv /\ MsgInv /\ [WsNext]_wsVars => MsgInv'
  <2> SUFFICES ASSUME WsInv, MsgInv, [WsNext]_wsVars PROVE MsgInv'
    OBVIOUS
  <2>1. WsWait \/ UNCHANGED wsVars => UNCHANGED <<sent, echoed, open, ev, cut, reads>>
    BY DEF WsWait, EpollWait, wsVars, vars, netVars
  <2> QED
    BY <2>1, MsgIdle, MsgPeers, MsgDispatch DEF WsNext
<1>3. WsInv /\ MsgInv => MessagesAreAnswered
  <2> SUFFICES ASSUME WsInv, MsgInv, NEW c \in Intact, WholeMessages(c)
               PROVE  \A i \in DOMAIN Answered(c) : Meant(c, Answered(c)[i])
    BY DEF MessagesAreAnswered, Meant
  <2>1. PICK f \in Fds : open[f] = c /\ c # NoConn /\ c \notin cut
    BY DEF Intact, Served
  <2>2. InBuffer(c) = Flight(f)
    BY <2>1, BufferIsFlight DEF WsInv
  <2>3. Whole(c, reads[c])
    BY DEF WholeMessages, Whole
  <2> QED
    BY <2>1, <2>2, <2>3 DEF MsgInv, MeantOf, Answered
<1> QED
  BY <1>1, <1>2, <1>3, WsInvariance, PTL DEF WsSpec
-----------------------------------------------------------------------------
(***************************************************************************)
(* The road-side unit session: two threads over one wsi and one buffer.    *)
(***************************************************************************)
Places == {"idle", "reply", "test", "load", "write"}
Messages == [number : Nat, len : 0..MaxLen, control : BOOLEAN]

RsuTypes ==
    /\ live \subseteq Lws /\ wsi \in live \cup {NULL}
    /\ sendbuffer \in [1..MaxLen -> Nat] /\ sendnlen \in 0..MaxLen
    /\ at \in [Workers -> Places]
    /\ at["service"] \in {"idle", "reply"} /\ at["app"] # "reply"
    /\ message \in [Workers -> Messages] /\ count \in Nat
    /\ spoiled \subseteq Workers
    /\ crowded \in BOOLEAN /\ gone \in BOOLEAN

(* One connection at a time, and the registration under way is its own. *)
OneUnit == ~crowded => /\ live = {wsi} \ {NULL}
                       /\ answered.to = answered.asker
                       /\ at["service"] = "reply" => asker = wsi

(* A message that is under way and that nobody has copied over is the      *)
(* front of the buffer, to its end; every number there has been given out. *)
Holds(p) == \A i \in 1..MaxLen : sendbuffer[i] = message[p].number <=> i <= message[p].len
Buffered == /\ \A i \in 1..MaxLen : sendbuffer[i] <= count
            /\ \A p \in Workers : at[p] # "idle" /\ p \notin spoiled => Holds(p)

(* The lengths that are sent: each sender's own, but for control messages. *)
Lengths == /\ at["service"] = "reply" => message["service"].len = ReplyLen
           /\ at["app"] # "idle" /\ ~message["app"].control => sendnlen = message["app"].len

(* What the application thread has tested and loaded can only be lost if a *)
(* connection closes.                                                      *)
InTheGap == /\ at["app"] = "load" => wsi \in live \/ gone
            /\ at["app"] = "write" => target \in live \/ gone

SessionInv == /\ RsuTypes /\ OneUnit /\ Buffered /\ Lengths /\ InTheGap
              /\ FramesAreMessages /\ DiesOnlyInTheGap

LEMMA CopyKeeps ==
    ASSUME SessionInv, NEW p \in Workers, NEW len \in 0..MaxLen, NEW control \in BOOLEAN,
           Copy(p, len, control), NEW place \in Places, Goes(p, place)
    PROVE  /\ sendbuffer' \in [1..MaxLen -> Nat]
           /\ message' \in [Workers -> Messages] /\ count' \in Nat
           /\ spoiled' \subseteq Workers /\ Buffered'
           /\ message'[p].len = len /\ message'[p].control = control
           /\ \A q \in Workers \ {p} : message'[q] = message[q] /\ at'[q] = at[q]
<1> DEFINE m == [number |-> count + 1, len |-> len, control |-> control]
<1>1. /\ sendbuffer \in [1..MaxLen -> Nat] /\ count \in Nat /\ at \in [Workers -> Places]
      /\ message \in [Workers -> Messages] /\ spoiled \subseteq Workers
      /\ \A i \in 1..MaxLen : sendbuffer[i] <= count
  BY DEF SessionInv, RsuTypes, Buffered
<1>2. /\ count' = count + 1 /\ message' = [message EXCEPT ![p] = m]
      /\ sendbuffer' = [i \in 1..MaxLen |-> IF i <= len THEN count + 1 ELSE sendbuffer[i]]
      /\ spoiled' = (spoiled \ {p}) \cup {q \in Workers \ {p} : at[q] # "idle"}
      /\ at' = [at EXCEPT ![p] = place]
  BY DEF Copy, Goes
<1>3. m \in Messages /\ m.number = count + 1 /\ m.len = len /\ m.control = control
  BY <1>1 DEF Messages
<1> HIDE DEF m
<1>4. /\ message'[p] = m /\ message' \in [Workers -> Messages]
      /\ \A q \in Workers \ {p} : message'[q] = message[q] /\ at'[q] = at[q]
  BY <1>1, <1>2, <1>3
<1>5. /\ sendbuffer' \in [1..MaxLen -> Nat] /\ count' \in Nat
      /\ \A i \in 1..MaxLen : sendbuffer'[i] = IF i <= len THEN count + 1 ELSE sendbuffer[i]
  BY <1>1, <1>2
<1>6. \A i \in 1..MaxLen : sendbuffer'[i] <= count' /\ (sendbuffer'[i] = count + 1 <=> i <= len)
  BY <1>1, <1>2, <1>5
<1>7. Holds(p)'
  BY <1>3, <1>4, <1>6 DEF Holds
<1>8. \A q \in Workers : at'[q] # "idle" /\ q \notin spoiled' => q = p
  BY <1>1, <1>2, <1>4
<1>9. Buffered'
  BY <1>6, <1>7, <1>8 DEF Buffered
<1> QED
  BY <1>1, <1>2, <1>3, <1>4, <1>5, <1>9

(* What is sent from the front of the buffer. *)
LEMMA WriteIsMessage ==
    ASSUME SessionInv, NEW p \in Workers, at[p] # "idle", NEW n \in 0..MaxLen,
           ~message[p].control => n = message[p].len, Write(p, n)
    PROVE  FramesAreMessages'
<1> DEFINE s == SubSeq(sendbuffer, 1, n)
<1>1. /\ frame'.bytes = s /\ frame'.message = message[p] /\ frame'.sound = (p \notin spoiled)
  BY DEF Write
<1>2. MaxLen \in Nat /\ n \in Nat /\ n <= MaxLen /\ sendbuffer \in [1..MaxLen -> Nat]
  BY ReplyFits DEF SessionInv, RsuTypes
<1>3. Len(s) = n /\ DOMAIN s = 1..n /\ \A i \in 1..n : s[i] = sendbuffer[i]
  <2>1. sendbuffer \in Seq(Nat)
    BY <1>2
  <2>2. \A i \in 1..n : sendbuffer[i] \in Nat
    BY <1>2
  <2>3. s \in Seq(Nat) /\ Len(s) = n /\ \A i \in 1..n : s[i] = sendbuffer[i]
    BY <1>2, <2>2, SubSeqProperties
  <2> HIDE DEF s
  <2> QED
    BY <2>3, LenProperties
<1> HIDE DEF s
<1>4. p \notin spoiled => \A i \in 1..n : s[i] = message[p].number <=> i <= message[p].len
  BY <1>2, <1>3 DEF SessionInv, Buffered, Holds
<1> QED
  BY <1>1, <1>3, <1>4 DEF FramesAreMessages

LEMMA ConnectionKeeps ==
    ASSUME SessionInv, NEW c \in Lws, Established(c) \/ ConnectionClosed(c)
    PROVE  SessionInv'
<1>1. /\ UNCHANGED <<sendbuffer, sendnlen, at, asker, target, copies, frame, answered, died>>
      /\ UNCHANGED <<message, count, spoiled>>
      /\ at["service"] = "idle"
  BY DEF Established, ConnectionClosed, copies
<1>2. RsuTypes' /\ OneUnit'
  <2>1. CASE Established(c)
    <3>1. live' = live \cup {c} /\ wsi' = c /\ gone' = gone /\ (~crowded' => ~crowded /\ live = {})
          /\ crowded' \in BOOLEAN
      BY <2>1 DEF Established, SessionInv, RsuTypes
    <3>2. c # NULL
      BY NullIsNone
    <3> QED
      BY <1>1, <3>1, <3>2 DEF SessionInv, RsuTypes, OneUnit
  <2>2. CASE ConnectionClosed(c)
    <3>1. /\ live' = live \ {c} /\ c \in live /\ wsi' = NULL /\ crowded' = crowded
          /\ gone' \in BOOLEAN
      BY <2>2 DEF ConnectionClosed, Cleared, SessionInv, RsuTypes
    <3>2. RsuTypes'
      BY <1>1, <3>1 DEF SessionInv, RsuTypes
    <3>3. ~crowded => live' = {}
      BY <3>1 DEF SessionInv, OneUnit
    <3> QED
      BY <1>1, <3>1, <3>2, <3>3 DEF SessionInv, OneUnit
  <2> QED
    BY <2>1, <2>2
<1>3. Buffered' /\ Lengths'
  BY <1>1 DEF SessionInv, Buffered, Holds, Lengths
<1>4. InTheGap' /\ DiesOnlyInTheGap'
  <2>1. CASE Established(c)
    BY <1>1, <2>1 DEF Established, SessionInv, InTheGap, DiesOnlyInTheGap
  <2>2. CASE ConnectionClosed(c)
    <3>1. gone => gone'
      BY <2>2 DEF ConnectionClosed
    <3>2. at["app"] \in {"load", "write"} => gone'
      BY <2>2 DEF ConnectionClosed
    <3> QED
      BY <1>1, <3>1, <3>2 DEF SessionInv, InTheGap, DiesOnlyInTheGap
  <2> QED
    BY <2>1, <2>2
<1>5. FramesAreMessages'
  BY <1>1 DEF SessionInv, FramesAreMessages
<1> QED
  BY <1>2, <1>3, <1>4, <1>5 DEF SessionInv

LEMMA RegisterKeeps == ASSUME SessionInv, NEW c \in Lws, Register(c) PROVE SessionInv'
<1>1. /\ Copy("service", ReplyLen, FALSE) /\ Goes("service", "reply")
      /\ c \in live /\ asker' = c
      /\ UNCHANGED <<live, wsi, sendnlen, target, frame, answered, crowded, gone, died>>
  BY DEF Register
<1>2. "service" \in Workers /\ "app" \in Workers /\ "reply" \in Places /\ ReplyLen \in 0..MaxLen
  BY ReplyFits DEF Workers, Places
<1>3. /\ sendbuffer' \in [1..MaxLen -> Nat]
      /\ message' \in [Workers -> Messages] /\ count' \in Nat
      /\ spoiled' \subseteq Workers /\ Buffered'
      /\ message'["service"].len = ReplyLen
      /\ message'["app"] = message["app"] /\ at'["app"] = at["app"]
  BY <1>1, <1>2, CopyKeeps
<1>4. at'["service"] = "reply" /\ at' \in [Workers -> Places]
  BY <1>1, <1>2 DEF Goes, SessionInv, RsuTypes
<1>5. RsuTypes'
  BY <1>1, <1>3, <1>4 DEF SessionInv, RsuTypes
<1>6. OneUnit'
  BY <1>1 DEF SessionInv, OneUnit
<1>7. Lengths' /\ InTheGap'
  BY <1>1, <1>3, <1>4 DEF SessionInv, Lengths, InTheGap
<1>8. FramesAreMessages' /\ DiesOnlyInTheGap'
  BY <1>1 DEF SessionInv, FramesAreMessages, DiesOnlyInTheGap
<1> QED
  BY <1>3, <1>5, <1>6, <1>7, <1>8 DEF SessionInv

LEMMA SenderKeeps ==
    ASSUME SessionInv, NEW len \in 1..MaxLen, NEW control \in BOOLEAN, Sender(len, control)
    PROVE  SessionInv'
<1>1. /\ Copy("app", len, control) /\ Goes("app", "test")
      /\ sendnlen' = IF control THEN sendnlen ELSE len
      /\ UNCHANGED <<live, wsi, asker, target, frame, answered, crowded, gone, died>>
  BY DEF Sender
<1>2. "service" \in Workers /\ "app" \in Workers /\ "test" \in Places /\ len \in 0..MaxLen
  BY DEF Workers, Places
<1>3. /\ sendbuffer' \in [1..MaxLen -> Nat]
      /\ message' \in [Workers -> Messages] /\ count' \in Nat
      /\ spoiled' \subseteq Workers /\ Buffered'
      /\ message'["app"].len = len /\ message'["app"].control = control
      /\ message'["service"] = message["service"] /\ at'["service"] = at["service"]
  BY <1>1, <1>2, CopyKeeps
<1>4. at'["app"] = "test" /\ at' \in [Workers -> Places] /\ sendnlen' \in 0..MaxLen
  BY <1>1, <1>2 DEF Goes, SessionInv, RsuTypes
<1>5. RsuTypes'
  BY <1>1, <1>3, <1>4 DEF SessionInv, RsuTypes
<1>6. OneUnit'
  BY <1>1, <1>3 DEF SessionInv, OneUnit
<1>7. Lengths' /\ InTheGap'
  BY <1>1, <1>3, <1>4 DEF SessionInv, Lengths, InTheGap
<1>8. FramesAreMessages' /\ DiesOnlyInTheGap'
  BY <1>1 DEF SessionInv, FramesAreMessages, DiesOnlyInTheGap
<1> QED
  BY <1>3, <1>5, <1>6, <1>7, <1>8 DEF SessionInv

(* A thread goes on without copying a message. *)
LEMMA StepKeeps ==
    ASSUME SessionInv, NEW p \in Workers, NEW place \in Places, Goes(p, place),
           p = "service" => place = "idle", p = "app" => place # "reply",
           at[p] # "idle", UNCHANGED <<live, shared, copies, crowded, gone>>
    PROVE  /\ RsuTypes' /\ Buffered' /\ Lengths'
           /\ at'[p] = place /\ \A q \in Workers \ {p} : at'[q] = at[q]
           /\ UNCHANGED <<wsi, sendbuffer, sendnlen, message, count, spoiled>>
<1>1. UNCHANGED <<wsi, sendbuffer, sendnlen, message, count, spoiled>>
  BY DEF shared, copies
<1>2. /\ at' \in [Workers -> Places] /\ at'[p] = place
      /\ \A q \in Workers \ {p} : at'[q] = at[q]
      /\ p \in {"service", "app"} /\ {"service", "app"} \subseteq Workers
  BY DEF SessionInv, RsuTypes, Goes, Workers
<1>3. RsuTypes'
  BY <1>1, <1>2 DEF SessionInv, RsuTypes
<1>4. Buffered'
  <2>1. \A q \in Workers : at'[q] # "idle" => at[q] # "idle"
    BY <1>2
  <2> QED
    BY <1>1, <2>1 DEF SessionInv, Buffered, Holds
<1>5. Lengths'
  BY <1>1, <1>2 DEF SessionInv, Lengths
<1> QED
  BY <1>1, <1>2, <1>3, <1>4, <1>5

LEMMA ReplyKeeps == ASSUME SessionInv, Reply PROVE SessionInv'
<1>1. /\ at["service"] = "reply" /\ Goes("service", "idle")
      /\ UNCHANGED <<live, shared, target, copies, crowded, gone>>
      /\ answered' = [asker |-> asker, to |-> wsi] /\ died' \in {"no", "heap"}
      /\ frame' = frame \/ Write("service", ReplyLen)
  BY DEF Reply, DeleteAgain, AnswerLength
<1>2. "service" \in Workers /\ "app" \in Workers /\ "idle" \in Places
  BY DEF Workers, Places
<1>3. /\ RsuTypes' /\ Buffered' /\ Lengths'
      /\ at'["service"] = "idle" /\ at'["app"] = at["app"]
      /\ UNCHANGED <<wsi, message>>
  BY <1>1, <1>2, StepKeeps
<1>4. OneUnit' /\ InTheGap' /\ DiesOnlyInTheGap'
  BY <1>1, <1>3 DEF SessionInv, OneUnit, InTheGap, DiesOnlyInTheGap
<1>5. FramesAreMessages'
  <2>1. CASE frame' = frame
    BY <2>1 DEF SessionInv, FramesAreMessages
  <2>2. CASE Write("service", ReplyLen)
    <3>1. ReplyLen \in 0..MaxLen /\ message["service"].len = ReplyLen
      BY <1>1, ReplyFits DEF SessionInv, Lengths
    <3> QED
      BY <1>1, <1>2, <2>2, <3>1, WriteIsMessage
  <2> QED
    BY <1>1, <2>1, <2>2
<1> QED
  BY <1>3, <1>4, <1>5 DEF SessionInv

LEMMA AppKeeps == ASSUME SessionInv, Test \/ Load \/ SendToRsu PROVE SessionInv'
<1>1. /\ "app" \in Workers /\ "service" \in Workers
      /\ UNCHANGED <<live, shared, asker, copies, answered, crowded, gone>>
      /\ at["app"] \in {"test", "load", "write"}
  BY DEF Workers, Test, Load, SendToRsu
<1>2. PICK place \in {"idle", "load", "write"} : Goes("app", place)
  BY DEF Test, Load, SendToRsu
<1>3. /\ RsuTypes' /\ Buffered' /\ Lengths'
      /\ at'["app"] = place /\ at'["service"] = at["service"]
      /\ UNCHANGED <<wsi, sendbuffer, sendnlen, message, count, spoiled>>
  BY <1>1, <1>2, StepKeeps DEF Places
<1>4. OneUnit'
  BY <1>1, <1>3 DEF SessionInv, OneUnit
<1>5. CASE Test
  <2>1. /\ UNCHANGED <<target, frame, died>>
        /\ at'["app"] = IF wsi # NULL THEN "load" ELSE "idle"
    BY <1>5, <1>1 DEF Test, IsConnected, Goes, SessionInv, RsuTypes
  <2>2. InTheGap' /\ FramesAreMessages' /\ DiesOnlyInTheGap'
    BY <1>1, <1>3, <2>1 DEF SessionInv, RsuTypes, InTheGap, FramesAreMessages, DiesOnlyInTheGap
  <2> QED
    BY <1>3, <1>4, <2>2 DEF SessionInv
<1>6. CASE Load
  <2>1. /\ UNCHANGED <<frame, died>> /\ target' = wsi /\ at["app"] = "load"
        /\ at'["app"] = "write"
    BY <1>1, <1>6 DEF Load, Goes, SessionInv, RsuTypes
  <2>2. InTheGap' /\ FramesAreMessages' /\ DiesOnlyInTheGap'
    BY <1>1, <1>3, <2>1 DEF SessionInv, InTheGap, FramesAreMessages, DiesOnlyInTheGap
  <2> QED
    BY <1>3, <1>4, <2>2 DEF SessionInv
<1>7. CASE SendToRsu
  <2>1. /\ at["app"] = "write" /\ at'["app"] = "idle"
        /\ \/ target \in live /\ Write("app", sendnlen) /\ UNCHANGED died
           \/ target \notin live /\ died' = "wsi" /\ UNCHANGED frame
           \/ UNCHANGED <<frame, died>>
    BY <1>1, <1>7 DEF SendToRsu, Goes, SessionInv, RsuTypes
  <2>2. InTheGap' /\ DiesOnlyInTheGap'
    BY <1>1, <1>3, <2>1 DEF SessionInv, InTheGap, DiesOnlyInTheGap
  <2>3. FramesAreMessages'
    <3>1. CASE Write("app", sendnlen)
      BY <1>1, <2>1, <3>1, WriteIsMessage DEF SessionInv, RsuTypes, Lengths
    <3>2. CASE UNCHANGED frame
      BY <3>2 DEF SessionInv, FramesAreMessages
    <3> QED
      BY <2>1, <3>1, <3>2
  <2> QED
    BY <1>3, <1>4, <2>2, <2>3 DEF SessionInv
<1> QED
  BY <1>5, <1>6, <1>7

LEMMA SessionInvariance == RsuSpec => []SessionInv
<1>1. RsuInit => SessionInv
  <2> SUFFICES ASSUME RsuInit PROVE SessionInv
    OBVIOUS
  <2>1. MaxLen \in Nat /\ 0 \in 0..MaxLen
    BY ReplyFits
  <2>2. RsuTypes
    BY <2>1 DEF RsuInit, RsuTypes, NoMessage, Messages, Places, Workers
  <2>3. OneUnit /\ Buffered /\ Lengths /\ InTheGap /\ FramesAreMessages /\ DiesOnlyInTheGap
    BY <2>1 DEF RsuInit, OneUnit, Buffered, Lengths, InTheGap, FramesAreMessages,
       DiesOnlyInTheGap, Workers
  <2> QED
    BY <2>2, <2>3 DEF SessionInv
<1>2. SessionInv /\ [RsuNext]_rsuVars => SessionInv'
  <2> SUFFICES ASSUME SessionInv, [RsuNext]_rsuVars PROVE SessionInv'
    OBVIOUS
  <2>1. CASE UNCHANGED rsuVars
    BY <2>1 DEF rsuVars, shared, copies, SessionInv, RsuTypes, OneUnit, Buffered, Holds, Lengths,
       InTheGap, FramesAreMessages, DiesOnlyInTheGap
  <2>2. ASSUME NEW c \in Lws, BadBSM(c) PROVE SessionInv'
    <3>1. /\ UNCHANGED <<live, shared, at, asker, target, copies, frame, answered, crowded, gone>>
          /\ died' \in {"no", "heap"}
      BY <2>2 DEF BadBSM, DeleteAgain
    <3> QED
      BY <3>1 DEF shared, copies, SessionInv, RsuTypes, OneUnit, Buffered, Holds, Lengths,
         InTheGap, FramesAreMessages, DiesOnlyInTheGap
  <2> QED
    BY <2>1, <2>2, ConnectionKeeps, RegisterKeeps, ReplyKeeps, SenderKeeps, AppKeeps
    DEF RsuNext, Service, App
<1> QED
  BY <1>1, <1>2, PTL DEF RsuSpec

(* wsi names the unit, and only the unit that asked is answered.           *)
THEOREM TheUnitIsAnswered == RsuSpec => []WsiIsTheUnit
<1>1. SessionInv => WsiIsTheUnit
  BY DEF SessionInv, RsuTypes, OneUnit, WsiIsTheUnit
<1> QED
  BY <1>1, SessionInvariance, PTL

(* A frame that nobody copied over is its message, to the end.             *)
THEOREM SoundFramesAreMessages == RsuSpec => []FramesAreMessages
<1>1. SessionInv => FramesAreMessages
  BY DEF SessionInv
<1> QED
  BY <1>1, SessionInvariance, PTL

(* The application thread dies only of a connection that closed while it   *)
(* was between its test and its use.                                       *)
THEOREM OnlyTheGapKills == RsuSpec => []DiesOnlyInTheGap
<1>1. SessionInv => DiesOnlyInTheGap
  BY DEF SessionInv
<1> QED
  BY <1>1, SessionInvariance, PTL
=============================================================================
