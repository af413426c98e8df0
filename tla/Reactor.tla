------------------------------ MODULE Reactor ------------------------------
(***************************************************************************)
(* The echo server of reactor_singlecb_server.c: one thread, one epoll     *)
(* set, and an event record per descriptor whose callback alternates       *)
(* between recv_cb and send_cb.  The records live in blocks of             *)
(* MAX_EPOLL_EVENTS, and outlive the descriptors: the next connection with *)
(* the same number finds the record as the last one left it.               *)
(*                                                                         *)
(* The callbacks run to their end without interruption, so one callback is *)
(* one step.  Clients and the network go on between any two of them, also  *)
(* between the callbacks of one epoll_wait.  The kernel is modelled as the *)
(* code uses it: accept gives the lowest free descriptor, close removes a  *)
(* descriptor from the epoll set, and epoll is level-triggered.            *)
(*                                                                         *)
(* Descriptor 0 stands for the listening sockets.                          *)
(***************************************************************************)
EXTENDS Naturals, Sequences, FiniteSets

CONSTANTS Conns, NoConn,        \* the clients' connections
          MaxFd,                \* the descriptor limit of the process
          MAX_EPOLL_EVENTS,     \* records in a block, events in a batch
          BUFFER_LENGTH,
          MaxSend               \* bound: the bytes a client sends

ASSUME ReactorAssumption == /\ MaxFd \in Nat
                            /\ MaxSend \in Nat
                            /\ MAX_EPOLL_EVENTS \in Nat \ {0}
                            /\ BUFFER_LENGTH \in Nat \ {0}
ASSUME NoConnAssumption == NoConn \notin Conns

Fds == 0..MaxFd
listener == 0
Bytes == Conns \X (1..MaxSend)     \* whose byte, and its number

VARIABLES
    \* the clients and the kernel
    peer,      \* "new", "open", "fin" (has closed), "reset", "broken" (both)
    sent,      \* how many bytes each client has sent
    inbox,     \* the bytes that have arrived and are not received
    echoed,    \* the bytes each client has got back
    backlog,   \* connections to be accepted
    open,      \* the connection behind each open descriptor
    full,      \* the connections whose socket has no room: the client does not read
    interest,  \* the epoll set: "none", "in" or "out"
    \* the process
    ev,        \* the event records
    blkcnt,    \* blocks of records allocated
    batch,     \* what epoll_wait returned and the loop has not got to
    alive,     \* FALSE once SIGPIPE has ended the process
    cut        \* history: the connections with a send() that took a part only

netVars == <<peer, sent, inbox, echoed, backlog, open, full>>
vars == <<netVars, interest, ev, blkcnt, batch, alive, cut>>

(* memset: status 0, no callback. *)
ZeroRecord == [events |-> "none", callback |-> "null", status |-> 0, buffer |-> <<>>]

(* main: the listener has its record and is in the epoll set. *)
Init == /\ peer = [c \in Conns |-> "new"]
        /\ sent = [c \in Conns |-> 0]
        /\ inbox = [c \in Conns |-> <<>>]
        /\ echoed = [c \in Conns |-> <<>>]
        /\ backlog = <<>>
        /\ open = [f \in Fds |-> NoConn]
        /\ full = {}
        /\ interest = [f \in Fds |-> IF f = listener THEN "in" ELSE "none"]
        /\ ev = [f \in Fds |-> IF f = listener
                    THEN [ZeroRecord EXCEPT !.events = "in", !.callback = "accept_cb",
                                            !.status = 1]
                    ELSE ZeroRecord]
        /\ blkcnt = 1
        /\ batch = {}
        /\ alive = TRUE
        /\ cut = {}
-----------------------------------------------------------------------------
(* The clients and the network. *)
Unserved == {backlog[i] : i \in DOMAIN backlog}
Served == {open[f] : f \in Fds} \ {NoConn}
unchangedByPeers == <<open, interest, ev, blkcnt, batch, alive, cut>>

Connect(c) == /\ peer[c] = "new"
              /\ peer' = [peer EXCEPT ![c] = "open"]
              /\ backlog' = Append(backlog, c)
              /\ UNCHANGED <<sent, inbox, echoed, full, unchangedByPeers>>

Send(c) == /\ peer[c] = "open" /\ c \in Unserved \cup Served
           /\ sent[c] < MaxSend
           /\ sent' = [sent EXCEPT ![c] = @ + 1]
           /\ inbox' = [inbox EXCEPT ![c] = Append(@, <<c, sent[c] + 1>>)]
           /\ UNCHANGED <<peer, echoed, backlog, full, unchangedByPeers>>

(* The client closes its side, or the connection is reset, or both. *)
Hangup(c) == /\ \/ peer[c] = "open" /\ \E p \in {"fin", "reset"} : peer' = [peer EXCEPT ![c] = p]
                \/ peer[c] = "fin" /\ peer' = [peer EXCEPT ![c] = "broken"]
             /\ UNCHANGED <<sent, inbox, echoed, backlog, full, unchangedByPeers>>

(* The client reads what has come back, which makes room for more. *)
Drain(c) == /\ c \in full
            /\ full' = full \ {c}
            /\ UNCHANGED <<peer, sent, inbox, echoed, backlog, unchangedByPeers>>

Peers == \E c \in Conns : Connect(c) \/ Send(c) \/ Hangup(c) \/ Drain(c)
-----------------------------------------------------------------------------
(* Level-triggered readiness: data or the end of it to read; room, or a    *)
(* reset, to write.                                                        *)
Writable(c) == c \notin full \/ peer[c] \in {"reset", "broken"}

Ready(f) ==
    \/ interest[f] = "in" /\ IF f = listener
                               THEN backlog # <<>>
                               ELSE inbox[open[f]] # <<>> \/ peer[open[f]] # "open"
    \/ interest[f] = "out" /\ Writable(open[f])

(* ntyreactor_run: epoll_wait, when the last batch is used up.  of is a    *)
(* history: the connection the event is about.                             *)
EpollWait ==
    /\ alive /\ batch = {}
    /\ LET R == {f \in Fds : Ready(f)} IN
       \E S \in SUBSET R :
          /\ S # {}
          /\ Cardinality(S) = MAX_EPOLL_EVENTS \/ S = R
          /\ Cardinality(S) <= MAX_EPOLL_EVENTS
          /\ batch' = {[fd |-> f, mask |-> interest[f], of |-> open[f]] : f \in S}
    /\ UNCHANGED <<netVars, interest, ev, blkcnt, alive, cut>>
-----------------------------------------------------------------------------
(* The event functions, on a record r and what epoll knows of its fd.      *)
nty_event_set(r, cb) == [r EXCEPT !.callback = cb, !.events = "none"]

(* EPOLL_CTL_MOD if status is 1, EPOLL_CTL_ADD otherwise; the one fails    *)
(* for a descriptor that is not in the set, the other for one that is.     *)
(* The mutant modifies always.                                             *)
nty_event_add(r, mask) == [r EXCEPT !.events = mask, !.status = 1]
AlwaysMod(r, known, mask) == IF known # "none" THEN mask ELSE known
AfterAdd(r, known, mask) == IF (r.status = 1) = (known # "none") THEN mask ELSE known

(* The mutant forgets that the record is out of the set. *)
DelForgets(r) == r
nty_event_del(r) == [r EXCEPT !.status = 0]
AfterDel(r, known) == IF r.status = 1 THEN "none" ELSE known

(* ntyreactor_idx: blocks are added until there is a record for fd.        *)
BlocksFor(f) == IF f \div MAX_EPOLL_EVENTS >= blkcnt THEN f \div MAX_EPOLL_EVENTS + 1
                ELSE blkcnt

(* del, set and add: how recv_cb and send_cb turn the record around. *)
TurnAround(f, r, cb, mask) ==
    LET removed == nty_event_del(r)
        known == AfterDel(r, interest[f])
    IN /\ ev' = [ev EXCEPT ![f] = nty_event_add(nty_event_set(removed, cb), mask)]
       /\ interest' = [interest EXCEPT ![f] = AfterAdd(removed, known, mask)]

(* del and close, in either order; the mutant does not close. *)
LeftOpen(f) == open
Closed(f) == [open EXCEPT ![f] = NoConn]

CloseFd(f) ==
    /\ ev' = [ev EXCEPT ![f] = nty_event_del(@)]
    /\ open' = Closed(f)
    /\ interest' = [interest EXCEPT ![f] = "none"]
-----------------------------------------------------------------------------
FreeFds == {f \in Fds \ {listener} : open[f] = NoConn}

(* accept_cb; without a free descriptor accept fails. *)
accept_cb ==
    \/ /\ FreeFds = {}
       /\ UNCHANGED <<netVars, interest, ev, blkcnt>>
    \/ \E f \in FreeFds :
          LET r == nty_event_set(ev[f], "recv_cb") IN
          /\ backlog # <<>>
          /\ \A g \in FreeFds : f <= g
          /\ open' = [open EXCEPT ![f] = Head(backlog)]
          /\ backlog' = Tail(backlog)
          /\ ev' = [ev EXCEPT ![f] = nty_event_add(r, "in")]
          /\ interest' = [interest EXCEPT ![f] = AfterAdd(r, "none", "in")]
          /\ blkcnt' = BlocksFor(f)
          /\ UNCHANGED <<peer, sent, inbox, echoed, full>>

Received(c) == SubSeq(inbox[c], 1, IF Len(inbox[c]) < BUFFER_LENGTH THEN Len(inbox[c])
                                   ELSE BUFFER_LENGTH)

(* recv_cb: data to be sent back; or the end of the stream or an error. *)
recv_cb(f) ==
    LET c == open[f] IN
    \/ /\ inbox[c] # <<>>
       /\ TurnAround(f, [ev[f] EXCEPT !.buffer = Received(c)], "send_cb", "out")
       /\ inbox' = [inbox EXCEPT ![c] = SubSeq(@, Len(Received(c)) + 1, Len(@))]
       /\ UNCHANGED <<peer, sent, echoed, backlog, open, full, blkcnt>>
    \/ /\ inbox[c] = <<>>
       /\ CloseFd(f)
       /\ UNCHANGED <<peer, sent, inbox, echoed, backlog, full, blkcnt>>

(* What send() may take of the buffer; the mutant starts anywhere in it. *)
FromMiddle(b) == {SubSeq(b, n, Len(b)) : n \in 1..Len(b)}
Taken(b) == {SubSeq(b, 1, n) : n \in 1..Len(b)}

(* Whatever send() took, the record goes back to receiving; the mutant     *)
(* sends the buffer again.                                                 *)
SendAgain(f) == TurnAround(f, ev[f], "send_cb", "out")
ReceiveNext(f) == TurnAround(f, ev[f], "recv_cb", "in")

(* send_cb: the bytes go out, and the socket may be full then; it is after *)
(* a part only.  Or the connection was reset.  A peer that closed first    *)
(* and then reset makes send raise SIGPIPE, which nothing catches.         *)
send_cb(f) ==
    LET c == open[f] IN
    \/ /\ peer[c] \in {"open", "fin"}
       /\ \E s \in Taken(ev[f].buffer) :
             /\ echoed' = [echoed EXCEPT ![c] = @ \o s]
             /\ cut' = IF s = ev[f].buffer THEN cut ELSE cut \cup {c}
             /\ \/ full' = full \cup {c}
                \/ full' = full /\ s = ev[f].buffer
       /\ ReceiveNext(f)
       /\ UNCHANGED <<peer, sent, inbox, backlog, open, blkcnt, alive>>
    \/ /\ peer[c] = "reset"
       /\ CloseFd(f)
       /\ UNCHANGED <<peer, sent, inbox, echoed, backlog, full, blkcnt, alive, cut>>
    \/ /\ peer[c] = "broken"
       /\ alive' = FALSE
       /\ UNCHANGED <<netVars, interest, ev, blkcnt, cut>>

(* The loop goes on to the next event; the mutant sees a connection's again. *)
NotAdvanced(e) == IF e.fd = listener THEN batch \ {e} ELSE batch
Advanced(e) == batch \ {e}

(* One turn of ntyreactor_run's inner loop: the callback, if the record    *)
(* still waits for this kind of event.                                     *)
Dispatch ==
    /\ alive
    /\ \E e \in batch :
          LET r == ev[e.fd] IN
          /\ batch' = Advanced(e)
          /\ \/ /\ r.events # e.mask
                /\ UNCHANGED <<netVars, interest, ev, blkcnt, alive, cut>>
             \/ /\ r.events = e.mask /\ r.callback = "accept_cb"
                /\ accept_cb /\ UNCHANGED <<alive, cut>>
             \/ /\ r.events = e.mask /\ r.callback = "recv_cb"
                /\ recv_cb(e.fd) /\ UNCHANGED <<alive, cut>>
             \/ /\ r.events = e.mask /\ r.callback = "send_cb"
                /\ send_cb(e.fd)

Next == Peers \/ EpollWait \/ Dispatch

Spec == Init /\ [][Next]_vars

(* The loop goes on, and epoll_wait, which goes round the ready            *)
(* descriptors, does not pass over one of them for ever.                   *)
Fairness == /\ WF_vars(EpollWait)
            /\ WF_vars(Dispatch)
            /\ \A f \in Fds : SF_vars(EpollWait /\ \E e \in batch' : e.fd = f)

FairSpec == Spec /\ Fairness
-----------------------------------------------------------------------------
(* Every variable has its type, and a record is only used in a block that  *)
(* exists.                                                                 *)
TypeOK ==
    /\ peer \in [Conns -> {"new", "open", "fin", "reset", "broken"}]
    /\ sent \in [Conns -> 0..MaxSend]
    /\ inbox \in [Conns -> Seq(Bytes)]
    /\ echoed \in [Conns -> Seq(Bytes)]
    /\ backlog \in Seq(Conns)
    /\ open \in [Fds -> Conns \cup {NoConn}]
    /\ interest \in [Fds -> {"none", "in", "out"}]
    /\ ev \in [Fds -> [events : {"none", "in", "out"}, status : {0, 1}, buffer : Seq(Bytes),
                       callback : {"null", "accept_cb", "recv_cb", "send_cb"}]]
    /\ blkcnt \in Nat
    /\ batch \subseteq [fd : Fds, mask : {"in", "out"}, of : Conns \cup {NoConn}]
    /\ alive \in BOOLEAN
    /\ cut \subseteq Conns
    /\ full \subseteq Conns

(* Every open descriptor's record is in a block that has been allocated.   *)
HaveRecords == \A f \in Fds : open[f] # NoConn => f \div MAX_EPOLL_EVENTS < blkcnt

RecordsMatch ==
    \A f \in Fds \ {listener} :
       IF open[f] = NoConn
         THEN interest[f] = "none" /\ ev[f].status = 0
         ELSE /\ ev[f].status = 1
              /\ interest[f] = ev[f].events
              /\ <<ev[f].events, ev[f].callback>> \in {<<"in", "recv_cb">>, <<"out", "send_cb">>}

(* Every open connection has a record, is in the epoll set for the event   *)
(* that its record and its callback are ready for, and no closed           *)
(* descriptor's record believes that it is in the set.  Otherwise the next *)
(* connection with the number would be "modified" in a set it is not in,   *)
(* and never be heard.                                                     *)
WatchedAsRecorded == HaveRecords /\ RecordsMatch

(* An event the loop has yet to get to is about the connection that has    *)
(* the descriptor now: accept, earlier in the same batch, never gives the  *)
(* number away.                                                            *)
EventsAreCurrent ==
    \A e \in batch : /\ open[e.fd] = e.of
                     /\ ev[e.fd].events = e.mask
                     /\ \A d \in batch : d.fd = e.fd => d = e

(* The bytes received for connection c and not yet sent back. *)
InBuffer(c) ==
    LET F == {f \in Fds : open[f] = c /\ ev[f].callback = "send_cb"} IN
    IF F = {} THEN <<>> ELSE ev[CHOOSE f \in F : TRUE].buffer

Current(c) == c \in Unserved \cup Served

Echo == INSTANCE EchoChannel WITH
            owed <- [c \in Conns |-> IF Current(c) THEN InBuffer(c) \o inbox[c] ELSE <<>>]

(* Each client gets back its own bytes although records and their buffers  *)
(* pass from one connection to the next; and it gets all of them up to now *)
(* as long as no send() took a part of the buffer only, for the rest of    *)
(* the buffer is lost then.                                                *)
ImplementsEcho == Echo!Spec

(* Cut short or not, no client ever gets a byte twice or out of order.     *)
OwnBytesInOrder ==
    \A c \in Conns : \A i, j \in DOMAIN echoed[c] :
        i < j => echoed[c][i][2] < echoed[c][j][2]

(* What has arrived is taken and answered, or the connection ends, if the  *)
(* client of this connection goes on reading, whatever the others do, and  *)
(* as long as SIGPIPE does not end the server.                             *)
EveryByteAnswered ==
    \A c \in Conns :
       []<>Writable(c) =>
          ((c \in Served /\ InBuffer(c) \o inbox[c] # <<>>)
             ~> (~alive \/ c \notin Served \/ InBuffer(c) \o inbox[c] = <<>>))

(* A connection whose client has gone is closed here, too, unless a client *)
(* that closed its own side only does not read, which nothing times out.   *)
DescriptorsAreFreed ==
    \A c \in Conns :
       []<>Writable(c) => ((c \in Served /\ peer[c] # "open") ~> (~alive \/ c \notin Served))
=============================================================================
