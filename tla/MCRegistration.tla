---------------------------- MODULE MCRegistration ----------------------------
(* The instances of Registration that TLC checks: one process, and so one      *)
(* worker, unless a configuration says otherwise.                              *)
EXTENDS Registration, TLC
=============================================================================
