---------------------------- MODULE MCWebSocket ----------------------------
(* Small instances of WebSocket for TLC. *)
EXTENDS WebSocket, TLC

CONSTANTS c1, c2

Part(kind) == [kind |-> kind, len |-> 0, mask |-> FALSE]
Frame(len, mask) == [kind |-> "frame", len |-> len, mask |-> mask]

(* A client that sends a short masked frame and a long one, and one whose  *)
(* key has a digest with a zero byte.                                      *)
MCStream == (c1 :> <<Part("name"), Part("key"), Part("blank"), Frame(1, TRUE), Part("pay"),
                     Frame(126, TRUE)>>)
            @@ (c2 :> <<Part("line"), Part("name"), Part("key")>>)
=============================================================================
