------------------------------ MODULE JobContract ------------------------------
(***************************************************************************)
(* What becomes of the jobs that are enqueued, with no queue, worker,      *)
(* thread or event loop in it: each is accepted once, is run by one worker *)
(* at a time and at most MaxAttempts times, and ends once: done after a    *)
(* run, failed after the last run, or dropped with what held it.           *)
(***************************************************************************)
EXTENDS Naturals

CONSTANTS Jobs, MaxAttempts

VARIABLES
  state,    \* "new", "waiting", and at the end "done", "failed" or "dropped"
  running,  \* the jobs under way
  runs      \* how often each was begun

Init == /\ state = [j \in Jobs |-> "new"] /\ running = {}
        /\ runs = [j \in Jobs |-> 0]

Waiting    == {j \in Jobs : state[j] = "waiting"}
Without(D) == [j \in Jobs |-> IF j \in D THEN "dropped" ELSE state[j]]

\* What held the jobs D is gone, and nothing more becomes of them.
Drop(D) ==
  /\ D \subseteq Waiting
  /\ state' = Without(D) /\ running' = running \ D /\ UNCHANGED runs

\* A job is accepted, by a queue that may take the place of one with the jobs D.
Accept(j, D) ==
  /\ state[j] = "new" /\ D \subseteq Waiting \ running
  /\ state' = [Without(D) EXCEPT ![j] = "waiting"]
  /\ UNCHANGED <<running, runs>>

Run(j) ==
  /\ j \in Waiting \ running /\ runs[j] < MaxAttempts
  /\ running' = running \cup {j} /\ runs' = [runs EXCEPT ![j] = @ + 1]
  /\ UNCHANGED state

\* A run ends, well or not, and the job with it unless a run is left.
Succeed(j) ==
  /\ j \in running /\ running' = running \ {j}
  /\ state' = [state EXCEPT ![j] = "done"] /\ UNCHANGED runs
Raise(j) ==
  /\ j \in running /\ running' = running \ {j}
  /\ IF runs[j] < MaxAttempts THEN UNCHANGED state
                              ELSE state' = [state EXCEPT ![j] = "failed"]
  /\ UNCHANGED runs

Next == \/ \E D \in SUBSET Jobs : Drop(D) \/ \E j \in Jobs : Accept(j, D)
        \/ \E j \in Jobs : Run(j) \/ Succeed(j) \/ Raise(j)

Spec == Init /\ [][Next]_<<state, running, runs>>
=============================================================================
