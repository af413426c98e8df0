----------------------------- MODULE RsuSession -----------------------------
(***************************************************************************)
(* The road-side unit server, websocketserver/Protocal_Demo: the thread    *)
(* that runs libwebsockets' callbacks and the application thread that      *)
(* sends to the unit share one lws_mes_t without a lock: the connection    *)
(* wsi, the buffer sendbuffer and the length sendnlen.                     *)
(*                                                                         *)
(* A memcpy, a test of wsi, a load of wsi and an lws_write are a step      *)
(* each.  A message is its length and a number of its own; the buffer says *)
(* of each of its places which message's byte is there, and messages fit   *)
(* into it.  What the callbacks store and nobody reads (session_data,      *)
(* inforsu, bsm) and the numbers in the messages (rsctl) are left out.     *)
(*                                                                         *)
(* The application thread does what main's commented-out calls say: it     *)
(* calls one sender after another.  rsu2plantcontrol is not among them: it *)
(* fails whatever it is given, and changes nothing.                        *)
(***************************************************************************)
EXTENDS Naturals, Sequences

CONSTANTS Lws,          \* addresses of libwebsockets' connections
          NULL,
          MaxLen,       \* bound: bytes of a message and of sendbuffer
          ReplyLen,     \* strlen of the answer to a registration
          MaxMessages   \* bound: messages copied into sendbuffer

ASSUME ReplyFits == MaxLen \in Nat /\ ReplyLen \in 1..MaxLen
ASSUME NullIsNone == NULL \notin Lws

VARIABLES live,         \* connections that are open
          wsi, sendbuffer, sendnlen,
          at,           \* where each thread is
          asker,        \* the connection that the service thread serves
          target,       \* the wsi that the application thread has loaded
          message,      \* the message each thread has copied
          count,        \* messages copied so far, which numbers them
          frame,        \* history: the last frame, the message it was to be,
                        \* and whether that was still in the buffer
          answered,     \* history: who has registered last and who got the answer
          crowded,      \* history: two connections have been open at once
          spoiled,      \* history: threads whose message was copied over
          gone,         \* history: a connection has closed under the application
          died          \* what has ended the program, or "no"

shared == <<wsi, sendbuffer, sendnlen>>
copies == <<message, count, spoiled>>
rsuVars == <<live, shared, at, asker, target, copies, frame, answered, crowded, gone, died>>

Workers == {"service", "app"}
NoMessage == [number |-> 0, len |-> 0, control |-> FALSE]

(* Static memory is zero: no message has the number 0. *)
RsuInit == /\ live = {}
           /\ wsi = NULL
           /\ sendbuffer = [i \in 1..MaxLen |-> 0]
           /\ sendnlen = 0
           /\ at = [p \in Workers |-> "idle"]
           /\ asker = NULL
           /\ target = NULL
           /\ message = [p \in Workers |-> NoMessage]
           /\ count = 0
           /\ frame = [bytes |-> <<>>, message |-> NoMessage, sound |-> FALSE]
           /\ answered = [asker |-> NULL, to |-> NULL]
           /\ crowded = FALSE
           /\ spoiled = {}
           /\ gone = FALSE
           /\ died = "no"

Goes(p, place) == at' = [at EXCEPT ![p] = place]

(* memcpy of a new message over the front of the buffer. *)
Copy(p, len, control) ==
    /\ count < MaxMessages
    /\ count' = count + 1
    /\ message' = [message EXCEPT ![p] = [number |-> count', len |-> len, control |-> control]]
    /\ sendbuffer' = [i \in 1..MaxLen |-> IF i <= len THEN count' ELSE sendbuffer[i]]
    /\ spoiled' = (spoiled \ {p}) \cup {q \in Workers \ {p} : at[q] # "idle"}

(* lws_write of the first n bytes of the buffer. *)
Write(p, n) == frame' = [bytes |-> SubSeq(sendbuffer, 1, n), message |-> message[p],
                         sound |-> p \notin spoiled]
-----------------------------------------------------------------------------
(* LWS_CALLBACK_ESTABLISHED *)
Established(c) ==
    /\ at["service"] = "idle" /\ c \notin live
    /\ live' = live \cup {c}
    /\ wsi' = c
    /\ crowded' = (crowded \/ live # {})
    /\ UNCHANGED <<sendbuffer, sendnlen, at, asker, target, copies, frame, answered, gone, died>>

(* LWS_CALLBACK_CLOSED: wsi is cleared whichever connection has ended; the *)
(* mutant forgets to.                                                      *)
Kept == wsi
Cleared == NULL

ConnectionClosed(c) ==
    /\ at["service"] = "idle" /\ c \in live
    /\ live' = live \ {c}
    /\ wsi' = Cleared
    /\ gone' = (gone \/ at["app"] \in {"load", "write"})
    /\ UNCHANGED <<sendbuffer, sendnlen, at, asker, target, copies, frame, answered, crowded, died>>

(* LWS_CALLBACK_RECEIVE of a registration: lws_callback_recv,              *)
(* parse_register and response_register up to the memcpy.                  *)
Register(c) ==
    /\ at["service"] = "idle" /\ c \in live
    /\ Copy("service", ReplyLen, FALSE)
    /\ Goes("service", "reply")
    /\ asker' = c
    /\ UNCHANGED <<live, wsi, sendnlen, target, frame, answered, crowded, gone, died>>

(* lws_callback_recv deletes a tree that its parser has deleted already;   *)
(* the heap may or may not notice.                                         *)
DeleteAgain == died' \in {"no", "heap"}

(* The rest of response_register sends strlen(str1) bytes; the mutant uses *)
(* the shared length.                                                      *)
SharedLength == sendnlen
AnswerLength == ReplyLen

Reply ==
    /\ at["service"] = "reply"
    /\ IF wsi = NULL THEN UNCHANGED frame ELSE Write("service", AnswerLength)
    /\ answered' = [asker |-> asker, to |-> wsi]
    /\ Goes("service", "idle")
    /\ asker' = NULL
    /\ DeleteAgain
    /\ UNCHANGED <<live, shared, target, copies, crowded, gone>>

(* A BSM with a field missing.  Complete ones, acknowledgements and frames *)
(* that are no JSON change nothing that is modelled.                       *)
BadBSM(c) ==
    /\ at["service"] = "idle" /\ c \in live
    /\ DeleteAgain
    /\ UNCHANGED <<live, shared, at, asker, target, copies, frame, answered, crowded, gone>>
-----------------------------------------------------------------------------
(* mec2rsu_rsirte, mec2rsu_rsirts and mec2rsu_rsm set the length first;    *)
(* platcontrol2rsu leaves it as it is.                                     *)
Sender(len, control) ==
    /\ at["app"] = "idle"
    /\ sendnlen' = IF control THEN sendnlen ELSE len
    /\ Copy("app", len, control)
    /\ Goes("app", "test")
    /\ UNCHANGED <<live, wsi, asker, target, frame, answered, crowded, gone, died>>

(* The test of send2rsu; the mutant does without. *)
NoTest == TRUE
IsConnected == wsi # NULL

Test ==
    /\ at["app"] = "test"
    /\ Goes("app", IF IsConnected THEN "load" ELSE "idle")
    /\ UNCHANGED <<live, shared, asker, target, copies, frame, answered, crowded, gone, died>>

(* The call of lws_write reads wsi again. *)
Load ==
    /\ at["app"] = "load"
    /\ target' = wsi
    /\ Goes("app", "write")
    /\ UNCHANGED <<live, shared, asker, copies, frame, answered, crowded, gone, died>>

(* NULL kills lws_write; a connection that was freed may or may not.       *)
SendToRsu ==
    /\ at["app"] = "write"
    /\ \/ target \in live /\ Write("app", sendnlen) /\ UNCHANGED died
       \/ target \notin live /\ died' = "wsi" /\ UNCHANGED frame
       \/ target \notin live \cup {NULL} /\ UNCHANGED <<frame, died>>
    /\ Goes("app", "idle")
    /\ target' = NULL
    /\ UNCHANGED <<live, shared, asker, copies, answered, crowded, gone>>

Service == \/ \E c \in Lws : Established(c) \/ ConnectionClosed(c) \/ Register(c) \/ BadBSM(c)
           \/ Reply

App == \/ \E len \in 1..MaxLen, control \in BOOLEAN : Sender(len, control)
       \/ Test \/ Load \/ SendToRsu

RsuNext == died = "no" /\ (Service \/ App)

RsuSpec == RsuInit /\ [][RsuNext]_rsuVars
-----------------------------------------------------------------------------
(* wsi never names a connection that has closed.  As long as units connect *)
(* one at a time it names the connection there is, and every registration  *)
(* is answered where it came from; once two have been open together, the   *)
(* end of one may leave the other without messages and without an answer.  *)
WsiIsTheUnit ==
    /\ wsi \in live \cup {NULL}
    /\ ~crowded => /\ live = {wsi} \ {NULL}
                   /\ answered.to = answered.asker

(* A frame whose message no other thread has copied over before it went    *)
(* out carries that message to its end and nothing of another, whatever    *)
(* lengths were sent before; only a control message, for which nobody sets *)
(* the length, is cut short or followed by what older ones have left.      *)
FramesAreMessages ==
    frame.sound =>
        /\ ~frame.message.control => Len(frame.bytes) = frame.message.len
        /\ \A i \in DOMAIN frame.bytes : frame.bytes[i] = frame.message.number <=> i <= frame.message.len

(* The application thread dies in lws_write only if a connection has       *)
(* closed between its test of wsi and its use: there is no other way that  *)
(* it gets NULL or a closed connection.                                    *)
DiesOnlyInTheGap == died = "wsi" => gone
=============================================================================
