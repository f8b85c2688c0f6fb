--------------------------- MODULE MCBackgroundJobs ---------------------------
(* Instances of BackgroundJobs for TLC. *)
EXTENDS BackgroundJobs, TLC

Symmetry == Permutations(Jobs) \cup Permutations(Threads) \cup Permutations(Workers)
=============================================================================
