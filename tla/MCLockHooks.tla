---------------------------- MODULE MCLockHooks ----------------------------
(* Small instances of LockHooks for TLC. *)
EXTENDS LockHooks, TLC

(* Fresh memory is zero; memory used before is anything, and may be only a *)
(* part of the table.                                                      *)
Fresh == [id |-> Nobody, lock_id |-> NoLock, degress |-> 0]
Old == [id |-> Nobody, lock_id |-> Nobody, degress |-> 7]

MCJunk == {[i \in 1..MAX |-> Fresh], [i \in 1..MAX |-> Old],
           [i \in 1..MAX |-> IF i = 2 THEN Old ELSE Fresh]}

(* Threads and mutexes are interchangeable: no step compares them. *)
Symmetry == Permutations(Ids) \cup Permutations(Mutexes)
=============================================================================
