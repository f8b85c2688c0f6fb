------------------------------- MODULE RowLocks -------------------------------
(* PostgreSQL's row locks, as the request handlers meet them: a transaction    *)
(* waits for the one that wrote the row, and a cycle of waits ends with one of *)
(* them aborted.                                                               *)
EXTENDS Optional

\* wait[r] is the transaction r waits for, None if it does not wait.
Deadlocked(r, wait) == \E Q \in SUBSET DOMAIN wait : r \in Q /\ {wait[q] : q \in Q} = Q
=============================================================================
