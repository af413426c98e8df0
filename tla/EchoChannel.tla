---------------------------- MODULE EchoChannel ----------------------------
(***************************************************************************)
(* What an echo service promises each of its clients: the bytes it sends   *)
(* come back once, in order and nobody else's among them, until the        *)
(* connection ends.  Bytes are lost only if the service says so: the       *)
(* connection is cut from then on.  No descriptors, no events, no buffers. *)
(***************************************************************************)
EXTENDS Naturals, Sequences

CONSTANTS Conns, MaxSend

VARIABLES owed,     \* per connection, the bytes not yet answered, in order
          echoed,   \* per connection, the bytes the client has got back
          cut       \* the connections that have lost some

chanVars == <<owed, echoed, cut>>

Init == /\ owed = [c \in Conns |-> <<>>]
        /\ echoed = [c \in Conns |-> <<>>]
        /\ cut = {}

(* The client sends one more byte of its own. *)
Offer(c) == /\ \E k \in 1..MaxSend : owed' = [owed EXCEPT ![c] = Append(@, <<c, k>>)]
            /\ UNCHANGED <<echoed, cut>>

(* The oldest n bytes owed are dealt with: m of them are sent back, and if *)
(* that is not all the connection is cut.                                  *)
Echo(c) == \E n \in 1..Len(owed[c]) : \E m \in 1..n :
              /\ echoed' = [echoed EXCEPT ![c] = @ \o SubSeq(owed[c], 1, m)]
              /\ owed' = [owed EXCEPT ![c] = SubSeq(@, n + 1, Len(@))]
              /\ cut' = IF m = n THEN cut ELSE cut \cup {c}

(* The connection ends, and whatever is owed with it. *)
Finish(c) == /\ owed' = [owed EXCEPT ![c] = <<>>]
             /\ UNCHANGED <<echoed, cut>>

Next == \E c \in Conns : Offer(c) \/ Echo(c) \/ Finish(c)

Spec == Init /\ [][Next]_chanVars
=============================================================================
