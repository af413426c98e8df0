------------------------------- MODULE DBConn -------------------------------
(***************************************************************************)
(* The connections of the pool at work: the statements that class CDBConn  *)
(* of connectpool/mysql_pool/DBPool.cpp sends, and the transactions that   *)
(* the threads which borrow connections make of them.                      *)
(*                                                                         *)
(* What a statement does to its session and when libmysqlclient makes a    *)
(* new session (MYSQL_OPT_RECONNECT) is external.  Every statement begins  *)
(* with mysql_ping, whose answer the code ignores: a session that was lost *)
(* is replaced there or by the query, and the caller is not told.  So a    *)
(* lost session and the fresh one that takes its place are one state.      *)
(*                                                                         *)
(* Threads use the connection they hold, end a transaction they believe    *)
(* open before they release it, and open none inside another.              *)
(***************************************************************************)
EXTENDS DBPool

CONSTANT MaxWrites   \* bound: calls of ExecuteUpdate

VARIABLES session,   \* what each connection's session has open: [txn, pend]
          db,        \* the writes that are in the database for good
          believes,  \* threads told that a transaction of theirs is open
          intact,    \* history: ... and whose session is still the same
          mine,      \* history: what each has written in its intact transaction
          written,   \* calls of ExecuteUpdate so far, which name the writes
          fates      \* history: what became of the writes of each transaction

sessVars == <<session, db, believes, intact, mine, written, fates>>
allVars == <<vars, sessVars>>

SessInit == /\ Init
            /\ session = [c \in Conns |-> [txn |-> FALSE, pend |-> {}]]
            /\ db = {}
            /\ believes = {}
            /\ intact = {}
            /\ mine = [t \in Threads |-> {}]
            /\ written = 0
            /\ fates = {}
-----------------------------------------------------------------------------
(* A session and the database, and what a statement turns them into. *)
Now(c) == [txn |-> session[c].txn, pend |-> session[c].pend, data |-> db]
Committed(s) == [txn |-> FALSE, pend |-> {}, data |-> s.data \cup s.pend]
Undone(s) == [txn |-> FALSE, pend |-> {}, data |-> s.data]
Started(s) == [txn |-> TRUE, pend |-> {}, data |-> s.data \cup s.pend]
Updated(s, w) == IF s.txn THEN [txn |-> TRUE, pend |-> s.pend \cup {w}, data |-> s.data]
                          ELSE [txn |-> FALSE, pend |-> s.pend, data |-> s.data \cup {w}]

Becomes(c, s) == /\ session' = [session EXCEPT ![c] = [txn |-> s.txn, pend |-> s.pend]]
                 /\ db' = s.data

(* mysql_ping and mysql_real_query: the statement is done, or the server   *)
(* refuses it, or the session is lost, or its transaction ended by the     *)
(* server, before the statement has run or before its answer arrives.      *)
Query(c, ran, outcome) ==
    \/ outcome = "done" /\ Becomes(c, ran)
    \/ outcome = "refused" /\ Becomes(c, Now(c))
    \/ outcome = "lost" /\ \E s \in {Now(c), ran} : Becomes(c, Undone(s))

Outcomes == {"done", "refused", "lost"}

(* What every method returns; the mutant ignores mysql_real_query's answer.*)
AlwaysTrue(outcome) == TRUE
Returned(outcome) == outcome = "done"

InUse(t) == pc[t] = "holding"

(* t's transaction is over, or lost without t's knowledge. *)
Ends(t, fate) ==
    /\ intact' = intact \ {t}
    /\ mine' = [mine EXCEPT ![t] = {}]
    /\ fates' = IF t \in intact THEN fates \cup {[writes |-> mine[t], fate |-> fate]} ELSE fates

Continues == UNCHANGED <<intact, mine, fates>>
-----------------------------------------------------------------------------
StartTransaction(t) ==
    /\ InUse(t) /\ t \notin believes
    /\ \E o \in Outcomes :
          /\ Query(conn[t], Started(Now(conn[t])), o)
          /\ IF Returned(o)
             THEN believes' = believes \cup {t} /\ intact' = intact \cup {t}
             ELSE UNCHANGED <<believes, intact>>
    /\ UNCHANGED <<mine, written, fates>>

(* An update that changes no row is none of these: it leaves everything as *)
(* it is, whatever care_affected_rows makes the call return.               *)
ExecuteUpdate(t) ==
    /\ InUse(t) /\ written < MaxWrites
    /\ written' = written + 1
    /\ \E o \in Outcomes :
          /\ Query(conn[t], Updated(Now(conn[t]), written'), o)
          /\ IF o = "lost" THEN Ends(t, "undone")
             ELSE /\ mine' = IF Returned(o) /\ t \in intact
                             THEN [mine EXCEPT ![t] = @ \cup {written'}] ELSE mine
                  /\ fates' = IF Returned(o) /\ t \notin believes
                              THEN fates \cup {[writes |-> {written'}, fate |-> "kept"]} ELSE fates
                  /\ UNCHANGED intact
    /\ UNCHANGED believes

Commit(t) ==
    /\ InUse(t) /\ t \in believes
    /\ \E o \in Outcomes :
          /\ Query(conn[t], Committed(Now(conn[t])), o)
          /\ believes' = IF Returned(o) THEN believes \ {t} ELSE believes
          /\ IF Returned(o) THEN Ends(t, "kept")
             ELSE IF o = "lost" THEN Ends(t, "unknown") ELSE Continues
    /\ UNCHANGED written

Rollback(t) ==
    /\ InUse(t) /\ t \in believes
    /\ \E o \in Outcomes :
          /\ Query(conn[t], Undone(Now(conn[t])), o)
          /\ believes' = IF Returned(o) THEN believes \ {t} ELSE believes
          /\ IF Returned(o) \/ o = "lost" THEN Ends(t, "undone") ELSE Continues
    /\ UNCHANGED written

(* ExecuteCreate, ExecuteDrop: the server commits what is open first. *)
ExecuteDefinition(t) ==
    /\ InUse(t)
    /\ \E o \in Outcomes :
          /\ Query(conn[t], Committed(Now(conn[t])), o)
          /\ IF Returned(o) THEN Ends(t, "kept")
             ELSE IF o = "lost" THEN Ends(t, "unknown") ELSE Continues
    /\ UNCHANGED <<believes, written>>

(* ExecuteQuery changes nothing unless the session is lost. *)
ExecuteQuery(t) ==
    /\ InUse(t)
    /\ \E o \in Outcomes : /\ Query(conn[t], Now(conn[t]), o)
                           /\ IF o = "lost" THEN Ends(t, "undone") ELSE Continues
    /\ UNCHANGED <<believes, written>>

(* The link breaks or the server closes an idle session between two calls. *)
SessionLost(t) ==
    /\ InUse(t)
    /\ Becomes(conn[t], Undone(Now(conn[t])))
    /\ Ends(t, "undone")
    /\ UNCHANGED <<believes, written>>

Works(t) == \/ StartTransaction(t) \/ ExecuteUpdate(t) \/ Commit(t) \/ Rollback(t)
            \/ ExecuteDefinition(t) \/ ExecuteQuery(t) \/ SessionLost(t)

(* A step of the pool, in which no thread in a transaction lets go. *)
PoolStep == /\ Next
            /\ \A t \in believes : InUse(t)'
            /\ UNCHANGED sessVars

SessNext == \/ PoolStep
            \/ (\E t \in Threads : Works(t)) /\ UNCHANGED vars

SessSpec == SessInit /\ [][SessNext]_allVars
-----------------------------------------------------------------------------
(* A thread whose session was not lost under it finds on its connection    *)
(* the transaction it opened, with its own writes and no others, none of   *)
(* them in the database yet; and a connection without such a thread, idle, *)
(* lent or forgotten by RelDBConn, has no transaction for its next         *)
(* borrower to inherit, whichever statements failed in between.            *)
SessionsAreTheirs ==
    /\ \A t \in intact : /\ session[conn[t]] = [txn |-> TRUE, pend |-> mine[t]]
                         /\ mine[t] \cap db = {}
    /\ \A c \in Conns : (\A t \in intact : conn[t] # c)
                            => session[c] = [txn |-> FALSE, pend |-> {}]

(* The writes of a transaction that no session loss has cut in two are in  *)
(* the database if Commit returned true, are not there if it was rolled    *)
(* back, and are there all or not at all when the answer of Commit never   *)
(* came: no other borrower's statements end up in the same session.        *)
TransactionsAreKept ==
    \A f \in fates : /\ f.fate # "undone" /\ f.writes \cap db # {} => f.writes \subseteq db
                     /\ f.fate = "kept" => f.writes \subseteq db
                     /\ f.fate = "undone" => f.writes \cap db = {}
=============================================================================
