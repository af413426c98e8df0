----------------------------- MODULE WebSocket -----------------------------
(***************************************************************************)
(* The WebSocket server of websocket_server.c: the event loop of Reactor   *)
(* (the same functions, to the letter, but for the two callbacks below)    *)
(* with a status per record.  The first read of a connection is taken for  *)
(* the whole request of the handshake, every later one for one frame,      *)
(* whose payload is unmasked in place; what is in the buffer then is sent. *)
(*                                                                         *)
(* A client's bytes come in units, and reads end between units.  Its       *)
(* stream is a request, of header lines, perhaps one with a key, which is  *)
(* two units ("name" up to somewhere in the key, "key" for the rest), and  *)
(* a blank line; then frames, a header ("frame", which knows how many      *)
(* units of payload follow) and its payload.  BUFFER_LENGTH is in units.   *)
(***************************************************************************)
EXTENDS Reactor, FiniteSetsExt

CONSTANTS Stream,        \* what each client is going to send
          ZeroDigest     \* the clients whose key has a digest with a zero byte

Kinds == {"line", "name", "key", "blank", "frame", "pay"}
Units == [kind : Kinds, len : Nat, mask : BOOLEAN]
ASSUME StreamAssumption ==
    /\ Stream \in [Conns -> Seq(Units)]
    /\ \A c \in Conns : Len(Stream[c]) <= MaxSend
    /\ ZeroDigest \subseteq Conns

(* The rest of the key comes behind its beginning, and behind the header   *)
(* of a short frame comes as much payload as it says, or nothing more.     *)
ASSUME WellMadeAssumption ==
    \A c \in Conns : \A n \in DOMAIN Stream[c] :
        LET u == Stream[c][n] IN
        /\ u.kind = "name" => n + 1 \in DOMAIN Stream[c] /\ Stream[c][n + 1].kind = "key"
        /\ u.kind = "frame" /\ u.len < 126 =>
              \A m \in (n + 1)..(n + u.len) \cap DOMAIN Stream[c] : Stream[c][m].kind = "pay"

VARIABLES
    status_machine,  \* of each event record
    reads            \* history: how many units each connection's reads ended at

wsVars == <<vars, status_machine, reads>>

WS_HANDSHARK == 0
WS_TRANMISSION == 1

(* A cell of a buffer: a unit of a client, or (number 0) the answer to its *)
(* handshake, and what has become of it.                                   *)
Fates == {"sent", "clear", "garbled", "accept", "wrong"}
Cells == [of : Conns, nr : 0..MaxSend, fate : Fates]
Cell(b) == [of |-> b[1], nr |-> b[2], fate |-> "sent"]
UnitOf(cell) == Stream[cell.of][cell.nr]

WsInit == /\ Init
          /\ status_machine = [f \in Fds |-> WS_HANDSHARK]
          /\ reads = [c \in Conns |-> <<>>]
-----------------------------------------------------------------------------
(* A client sends its stream; frames when it has been accepted.            *)
Accepted(c) == \E i \in DOMAIN echoed[c] : echoed[c][i].fate = "accept"

WsSend(c) == /\ Send(c)
             /\ sent[c] < Len(Stream[c])
             /\ Stream[c][sent[c] + 1].kind \in {"frame", "pay"} => Accepted(c)

WsPeers == /\ \E c \in Conns : Connect(c) \/ WsSend(c) \/ Hangup(c) \/ Drain(c)
           /\ UNCHANGED <<status_machine, reads>>
-----------------------------------------------------------------------------
(* readline's result in the loop of handshark: the line with the key, if   *)
(* it comes before the blank line or the end of the buffer.                *)
KeyLine(b) == {i \in DOMAIN b : /\ UnitOf(b[i]).kind = "name"
                                /\ \A j \in 1..i : UnitOf(b[j]).kind # "blank"}

(* Of the digest, what is before the first zero byte is encoded; of the    *)
(* key, what has been read is digested.                                    *)
Accept(b, i) ==
    LET right == /\ i + 1 \in DOMAIN b /\ UnitOf(b[i + 1]).kind = "key"
                 /\ b[i].of \notin ZeroDigest
    IN [of |-> b[i].of, nr |-> 0, fate |-> IF right THEN "accept" ELSE "wrong"]

(* The answer replaces the request; without a key the request stays, and   *)
(* is sent back.  The mutant leaves what is behind the answer.             *)
Overwrite(b) == IF KeyLine(b) = {} THEN b ELSE <<Accept(b, Min(KeyLine(b)))>> \o Tail(b)
handshark(b) == IF KeyLine(b) = {} THEN b ELSE <<Accept(b, Min(KeyLine(b)))>>

(* What is done to the bytes of a frame, in place: those at S change. *)
Changed(b, S, fate) ==
    [i \in DOMAIN b |-> IF i \in S THEN [b[i] EXCEPT !.fate = fate] ELSE b[i]]

(* The mutant stops before the last byte. *)
OneLess(b, n) == Changed(b, 2..n, "clear")
umask(b, n) == Changed(b, 2..(n + 1), "clear")

(* What the buffer may be after transmission.  A short masked frame is     *)
(* unmasked (a length of 126 and more stands for the two longer formats,   *)
(* which are left alone); if the read does not begin with a frame, its     *)
(* first bytes are taken for a header all the same, and any run of the     *)
(* bytes read may be changed.                                              *)
transmission(b) ==
    LET h == UnitOf(b[1]) IN
    IF h.kind = "frame"
      THEN {IF h.mask /\ h.len < 126 THEN umask(b, h.len) ELSE b}
      ELSE {Changed(b, m..n, "garbled") : m \in 1..Len(b), n \in 0..Len(b)}

websocket_request(f, b) ==
    IF status_machine[f] = WS_HANDSHARK THEN {handshark(b)} ELSE transmission(b)

(* The status after a read. *)
StatusAfter(f) == WS_TRANMISSION
-----------------------------------------------------------------------------
(* recv_cb: data to be answered; or the end of the stream or an error. *)
ws_recv_cb(f) ==
    LET c == open[f]
        n == Len(Received(c))
        b == [i \in 1..n |-> Cell(inbox[c][i])]
    IN
    \/ /\ inbox[c] # <<>>
       /\ \E answer \in websocket_request(f, b) :
             TurnAround(f, [ev[f] EXCEPT !.buffer = answer], "send_cb", "out")
       /\ status_machine' = [status_machine EXCEPT ![f] = StatusAfter(f)]
       /\ inbox' = [inbox EXCEPT ![c] = SubSeq(@, n + 1, Len(@))]
       /\ reads' = [reads EXCEPT ![c] = Append(@, inbox[c][n][2])]
       /\ UNCHANGED <<peer, sent, echoed, backlog, open, full, blkcnt>>
    \/ /\ inbox[c] = <<>>
       /\ CloseFd(f)
       /\ UNCHANGED <<peer, sent, inbox, echoed, backlog, full, blkcnt, status_machine, reads>>

ws_send_cb(f) == send_cb(f) /\ UNCHANGED <<status_machine, reads>>

(* accept_cb gives the record its status back; the mutant does not. *)
NotRestarted(f) == status_machine[f]
Restarted(f) == WS_HANDSHARK

ws_accept_cb ==
    /\ accept_cb
    /\ status_machine' = [f \in Fds |-> IF open'[f] # open[f] THEN Restarted(f)
                                        ELSE status_machine[f]]
    /\ UNCHANGED reads

(* One turn of the inner loop of ntyreactor_run. *)
WsDispatch ==
    /\ alive
    /\ \E e \in batch :
          LET r == ev[e.fd] IN
          /\ batch' = Advanced(e)
          /\ \/ /\ r.events # e.mask
                /\ UNCHANGED <<netVars, interest, ev, blkcnt, alive, cut, status_machine, reads>>
             \/ /\ r.events = e.mask /\ r.callback = "accept_cb"
                /\ ws_accept_cb /\ UNCHANGED <<alive, cut>>
             \/ /\ r.events = e.mask /\ r.callback = "recv_cb"
                /\ ws_recv_cb(e.fd) /\ UNCHANGED <<alive, cut>>
             \/ /\ r.events = e.mask /\ r.callback = "send_cb"
                /\ ws_send_cb(e.fd)

WsWait == EpollWait /\ UNCHANGED <<status_machine, reads>>

WsNext == WsPeers \/ WsWait \/ WsDispatch

WsSpec == WsInit /\ [][WsNext]_wsVars
-----------------------------------------------------------------------------
(* The two fields of the program that Reactor does not have, and the cells *)
(* its buffers hold here, have their types.                                *)
WsTypeOK ==
    /\ status_machine \in [Fds -> {WS_HANDSHARK, WS_TRANMISSION}]
    /\ \A f \in Fds : ev[f].buffer \in Seq(Cells)
    /\ \A c \in Conns : echoed[c] \in Seq(Cells) /\ reads[c] \in Seq(1..MaxSend)

(* A connection's first read, and no other, is taken for its request, also *)
(* when its record has served other connections before.                    *)
OneRequestEach ==
    \A f \in Fds \ {listener} : open[f] # NoConn =>
        (status_machine[f] = WS_HANDSHARK <=> reads[open[f]] = <<>>)

(* What the server has made of what it read from c.                        *)
Answered(c) == echoed[c] \o InBuffer(c)
ReadFrom(c) == sent[c] - Len(inbox[c])
Intact == Served \ cut

(* However the stream is cut into reads, nothing is lost, repeated or put  *)
(* out of order by the server: after the answer, if there is one, which    *)
(* stands for the whole first read, come all units of the reads.           *)
AnswerThenBytes ==
    \A c \in Intact :
        LET a == Answered(c)
            first == IF a # <<>> /\ a[1].nr = 0 THEN reads[c][1] ELSE 0
            shift == IF first > 0 THEN first - 1 ELSE 0
        IN /\ Len(a) = ReadFrom(c) - shift
           /\ \A i \in DOMAIN a : /\ a[i].of = c
                                  /\ a[i].nr = IF i = 1 /\ first > 0 THEN 0 ELSE i + shift

(* A message ends before a frame and at the end of the stream. *)
Begins(c, n) == n = 1 \/ Stream[c][n].kind = "frame"
Ends(c, n) == n = Len(Stream[c]) \/ Stream[c][n + 1].kind = "frame"
WholeMessages(c) ==
    \A k \in DOMAIN reads[c] :
        LET from == IF k = 1 THEN 1 ELSE reads[c][k - 1] + 1 IN
        /\ Begins(c, from) /\ Ends(c, reads[c][k])
        /\ \A n \in (from + 1)..reads[c][k] : ~ Begins(c, n)

(* Whether unit n is in the payload of a masked short frame. *)
Masked(c, n) ==
    \E h \in 1..(n - 1) : LET u == Stream[c][h] IN
        u.kind = "frame" /\ u.mask /\ u.len < 126 /\ n <= h + u.len

(* To a client whose reads were a message each the server answers as it is *)
(* meant to: with the accept that belongs to its own key, if it has sent   *)
(* one, and with each frame's payload unmasked, the rest as it came.  The  *)
(* digest that has a zero byte is the exception the code makes.            *)
MessagesAreAnswered ==
    \A c \in Intact : WholeMessages(c) =>
        \A i \in DOMAIN Answered(c) :
            LET a == Answered(c)[i] IN
            a.fate = IF a.nr = 0 THEN IF c \in ZeroDigest THEN "wrong" ELSE "accept"
                     ELSE IF Masked(c, a.nr) THEN "clear" ELSE "sent"
=============================================================================
