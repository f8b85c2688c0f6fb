--------------------------- MODULE MCAuthSessions ---------------------------
(* Instances of AuthSessions for TLC. *)
EXTENDS AuthSessions, TLC

CONSTANTS u1, u2

OneKey == [k \in ResetKeys |-> u1]

\* Coroutines and token ids are interchangeable; the users are not (u1 has the key).
Symmetry == Permutations(Tokens) \cup Permutations(Requests)
=============================================================================
