---------------------------- MODULE BackgroundJobs ----------------------------
(***************************************************************************)
(* BackgroundJobManager and its QueueBackend: an in-process job queue with *)
(* one worker task on the event loop, retries, a dead-letter list and an   *)
(* idle event that other threads wait on.                                  *)
(*                                                                         *)
(* Code on the loop runs from one await to the next; enqueue, called by a  *)
(* coroutine, is one step.  A thread with no running loop may call enqueue *)
(* too, and its three statements interleave with the loop.  asyncio.run    *)
(* may end one loop, cancelling its tasks, and begin another.              *)
(***************************************************************************)
EXTENDS Integers, Sequences, FiniteSets, Functions, Optional

CONSTANTS Jobs, Threads, Workers,
          MaxAttempts,      \* retry_async: retries + 1
          DeadLetterLimit,
          MaxLoops,         \* bound: event loops in the life of the process
          Resets            \* is reset() called?  Only the test suite does.

ASSUME JobsAssumption ==
  /\ MaxAttempts \in Nat \ {0} /\ DeadLetterLimit \in Nat \ {0} /\ MaxLoops \in Nat \ {0}
  /\ Resets \in BOOLEAN
  /\ None \notin Jobs \cup Workers

VARIABLES
  loop,      \* the running event loop
  qloop,     \* QueueBackend._loop, 0 before there is one
  queue,     \* QueueBackend._queue, which belongs to qloop
  pending,   \* QueueBackend._pending_jobs
  mloop,     \* BackgroundJobManager._loop
  task,      \* BackgroundJobManager._task: a worker
  wpc,       \* each worker's await: "get", "run", "sleep"; or "done"
  hand,      \* the job it runs
  cancelled, \* workers on which cancel() was called
  stopping,  \* the worker a stop() or reset() is gathering
  resetting, \* it is a reset()
  active,    \* _active_jobs
  count,     \* _pending_job_count
  idle,      \* _idle_event
  dead,      \* _dead_letter
  tpc,       \* a thread in enqueue: about to "count", then to "append"
  tjob,      \* the job it enqueues
  tries,     \* how often each job was run
  out,       \* history: what became of each job
  failures   \* history: the jobs that failed for good, in order

backend == <<qloop, queue, pending>>
worker  == <<wpc, hand, cancelled>>
manager == <<loop, mloop, task, stopping, resetting>>
counts  == <<active, count, idle>>
thread  == <<tpc, tjob>>
ledger  == <<tries, out, failures, dead>>
vars    == <<backend, worker, manager, counts, thread, ledger>>

Live(w)  == wpc[w] # "done"
Serving  == task # None /\ Live(task) /\ mloop = loop

Init ==
  /\ loop = 1 /\ qloop = 0 /\ queue = <<>> /\ pending = <<>> /\ mloop = 0
  /\ task = None /\ stopping = None /\ resetting = FALSE
  /\ wpc = [w \in Workers |-> "done"]
  /\ hand = [w \in Workers |-> None]
  /\ cancelled = {}
  /\ active = 0 /\ count = 0 /\ idle = TRUE
  /\ dead = <<>> /\ failures = <<>>
  /\ tpc = [t \in Threads |-> "idle"]
  /\ tjob = [t \in Threads |-> None]
  /\ tries = [j \in Jobs |-> 0]
  /\ out = [j \in Jobs |-> "new"]

-----------------------------------------------------------------------------
\* _ensure_queue, then a put of the jobs s: on a new loop the old queue is
\* forgotten with what it held, and the jobs of threads move to the new one.
Put(s) ==
  /\ qloop' = loop
  /\ queue' = (IF qloop = loop THEN queue ELSE pending) \o s
  /\ pending' = IF qloop = loop THEN pending ELSE <<>>

\* What Put(s) makes of the jobs.
PutOut(s) ==
  out' = [j \in Jobs |-> CASE j \in Range(s) -> "waiting"
                           [] qloop # loop /\ j \in Range(queue) -> "dropped"
                           [] OTHER -> out[j]]

\* Mutant of Spawn: every new worker is taken for one of a new loop.
SpawnNumbersLoops(w) ==
  /\ ~Live(w) /\ w # stopping
  /\ mloop' = mloop + 1 /\ task' = w
  /\ wpc' = [wpc EXCEPT ![w] = "get"]
  /\ UNCHANGED <<hand, cancelled>>

\* create_task(self._run())
Spawn(w) ==
  /\ ~Live(w) /\ w # stopping
  /\ mloop' = loop /\ task' = w
  /\ wpc' = [wpc EXCEPT ![w] = "get"]
  /\ UNCHANGED <<hand, cancelled>>

\* enqueue, called on the loop.
Enqueue(j) ==
  /\ out[j] = "new" /\ \A t \in Threads : tjob[t] # j
  /\ idle' = FALSE /\ count' = count + 1
  /\ Put(<<j>>) /\ PutOut(<<j>>)
  /\ \/ Serving /\ UNCHANGED <<mloop, task, worker>>
     \/ ~Serving /\ \E w \in Workers : Spawn(w)
  /\ UNCHANGED <<loop, stopping, resetting, active, thread, tries, failures, dead>>

\* start: the lifespan of the app, or the worker script.
Start ==
  /\ ~Serving /\ \E w \in Workers : Spawn(w)
  /\ Put(<<>>) /\ PutOut(<<>>)
  /\ UNCHANGED <<loop, stopping, resetting, counts, thread, tries, failures, dead>>

\* enqueue in a thread with no running loop: clear the event ...
ThreadClear(t, j) ==
  /\ tpc[t] = "idle" /\ out[j] = "new" /\ \A u \in Threads : tjob[u] # j
  /\ idle' = FALSE
  /\ tpc' = [tpc EXCEPT ![t] = "count"]
  /\ tjob' = [tjob EXCEPT ![t] = j]
  /\ UNCHANGED <<backend, worker, manager, active, count, ledger>>

\* ... count the job under the lock ...
ThreadCount(t) ==
  /\ tpc[t] = "count"
  /\ count' = count + 1
  /\ tpc' = [tpc EXCEPT ![t] = "append"]
  /\ UNCHANGED <<backend, worker, manager, active, idle, tjob, ledger>>

\* ... and leave it in _pending_jobs.
ThreadAppend(t) ==
  /\ tpc[t] = "append"
  /\ pending' = Append(pending, tjob[t])
  /\ out' = [out EXCEPT ![tjob[t]] = "waiting"]
  /\ tpc' = [tpc EXCEPT ![t] = "idle"]
  /\ tjob' = [tjob EXCEPT ![t] = None]
  /\ UNCHANGED <<qloop, queue, worker, manager, counts, tries, failures, dead>>

-----------------------------------------------------------------------------
\* Mutant of Take: the job stays in the queue while it runs.
TakePeeks(w) ==
  /\ wpc[w] = "get" /\ w \notin cancelled /\ queue # <<>>
  /\ hand' = [hand EXCEPT ![w] = Head(queue)]
  /\ wpc' = [wpc EXCEPT ![w] = "run"]
  /\ count' = count - 1 /\ active' = active + 1
  /\ tries' = [tries EXCEPT ![Head(queue)] = @ + 1]
  /\ UNCHANGED <<backend, cancelled, manager, idle, thread, out, failures, dead>>

\* get returns a job; it counts as active before its first attempt.
Take(w) ==
  /\ wpc[w] = "get" /\ w \notin cancelled /\ queue # <<>>
  /\ hand' = [hand EXCEPT ![w] = Head(queue)]
  /\ queue' = Tail(queue)
  /\ wpc' = [wpc EXCEPT ![w] = "run"]
  /\ count' = count - 1 /\ active' = active + 1
  /\ tries' = [tries EXCEPT ![Head(queue)] = @ + 1]
  /\ UNCHANGED <<qloop, pending, cancelled, manager, idle, thread, out, failures, dead>>

\* Mutant of Settle: the event is set although jobs are still queued.
SettleIgnoresQueue(w) ==
  /\ wpc' = [wpc EXCEPT ![w] = "get"]
  /\ hand' = [hand EXCEPT ![w] = None]
  /\ active' = active - 1
  /\ idle' = (idle \/ active' = 0)
  /\ UNCHANGED <<backend, cancelled, manager, count, thread, tries>>

\* The finally block: the job is over, the event is set when it was the last.
Settle(w) ==
  /\ wpc' = [wpc EXCEPT ![w] = "get"]
  /\ hand' = [hand EXCEPT ![w] = None]
  /\ active' = active - 1
  /\ idle' = (idle \/ (active' = 0 /\ count = 0))
  /\ UNCHANGED <<backend, cancelled, manager, count, thread, tries>>

Succeed(w) ==
  /\ wpc[w] = "run" /\ w \notin cancelled
  /\ out' = [out EXCEPT ![hand[w]] = "done"]
  /\ Settle(w)
  /\ UNCHANGED <<failures, dead>>

\* Mutant of Raise: one attempt too many.
RaiseOnceMore(w) ==
  /\ wpc[w] = "run" /\ w \notin cancelled /\ tries[hand[w]] <= MaxAttempts
  /\ wpc' = [wpc EXCEPT ![w] = "sleep"]
  /\ UNCHANGED <<backend, hand, cancelled, manager, counts, thread, ledger>>

\* An attempt raises, and another one is left.
Raise(w) ==
  /\ wpc[w] = "run" /\ w \notin cancelled /\ tries[hand[w]] < MaxAttempts
  /\ wpc' = [wpc EXCEPT ![w] = "sleep"]
  /\ UNCHANGED <<backend, hand, cancelled, manager, counts, thread, ledger>>

Retry(w) ==
  /\ wpc[w] = "sleep" /\ w \notin cancelled
  /\ wpc' = [wpc EXCEPT ![w] = "run"]
  /\ tries' = [tries EXCEPT ![hand[w]] = @ + 1]
  /\ UNCHANGED <<backend, hand, cancelled, manager, counts, thread, out, failures, dead>>

\* Mutant of GiveUp: a full dead-letter list keeps the oldest failures.
GiveUpKeepsOldest(w) ==
  /\ wpc[w] = "run" /\ w \notin cancelled /\ tries[hand[w]] >= MaxAttempts
  /\ out' = [out EXCEPT ![hand[w]] = "failed"]
  /\ failures' = Append(failures, hand[w])
  /\ dead' = IF Len(dead) < DeadLetterLimit THEN Append(dead, hand[w]) ELSE dead
  /\ Settle(w)

\* The last attempt raises: the dead-letter list keeps the latest failures.
GiveUp(w) ==
  /\ wpc[w] = "run" /\ w \notin cancelled /\ tries[hand[w]] >= MaxAttempts
  /\ out' = [out EXCEPT ![hand[w]] = "failed"]
  /\ failures' = Append(failures, hand[w])
  /\ LET all == Append(dead, hand[w]) IN
       dead' = IF Len(all) > DeadLetterLimit THEN Tail(all) ELSE all
  /\ Settle(w)

-----------------------------------------------------------------------------
\* Workers W get CancelledError at their await: a job in hand is dropped, and
\* the finally block does not see it.
Cancel(W) ==
  /\ wpc' = [w \in Workers |-> IF w \in W THEN "done" ELSE wpc[w]]
  /\ hand' = [w \in Workers |-> IF w \in W THEN None ELSE hand[w]]
  /\ out' = [j \in Jobs |-> IF \E w \in W : hand[w] = j THEN "dropped" ELSE out[j]]
  /\ cancelled' = cancelled \ W
  /\ UNCHANGED <<backend, counts, thread, tries, failures, dead>>

Die(w) == Live(w) /\ w \in cancelled /\ Cancel({w}) /\ UNCHANGED manager

\* stop, or the stop that reset begins with: cancel the task, gather it.
Stop ==
  /\ stopping = None /\ task # None /\ mloop = loop
  /\ cancelled' = cancelled \cup {w \in {task} : Live(w)}
  /\ stopping' = task /\ resetting' \in {FALSE, Resets}
  /\ UNCHANGED <<backend, wpc, hand, loop, mloop, task, counts, thread, ledger>>

\* gather returns: the manager has no task, and is idle if nothing is left.
Stopped ==
  /\ stopping # None /\ ~Live(stopping) /\ ~resetting
  /\ task' = None /\ stopping' = None
  /\ idle' = (idle \/ (count = 0 /\ active = 0))
  /\ UNCHANGED <<backend, worker, loop, mloop, resetting, active, count, thread, ledger>>

\* reset goes on: a new backend, an empty dead-letter list, new counters.
Reset ==
  /\ \/ stopping # None /\ ~Live(stopping) /\ resetting
     \/ Resets /\ stopping = None /\ task = None
  /\ task' = None /\ stopping' = None /\ resetting' = FALSE
  /\ qloop' = 0 /\ queue' = <<>> /\ pending' = <<>> /\ mloop' = 0
  /\ active' = 0 /\ count' = 0 /\ idle' = TRUE
  /\ dead' = <<>> /\ failures' = <<>>
  /\ out' = [j \in Jobs |-> IF j \in Range(queue \o pending) THEN "dropped" ELSE out[j]]
  /\ UNCHANGED <<worker, loop, thread, tries>>

\* asyncio.run ends this loop, cancelling every task on it, and a new one begins.
NewLoop ==
  /\ loop < MaxLoops
  /\ loop' = loop + 1
  /\ Cancel(Workers)
  /\ stopping' = None /\ resetting' = FALSE
  /\ UNCHANGED <<mloop, task>>

-----------------------------------------------------------------------------
Work(w) == Take(w) \/ Succeed(w) \/ Raise(w) \/ Retry(w) \/ GiveUp(w) \/ Die(w)

Next ==
  \/ \E j \in Jobs : Enqueue(j) \/ \E t \in Threads : ThreadClear(t, j)
  \/ \E t \in Threads : ThreadCount(t) \/ ThreadAppend(t)
  \/ \E w \in Workers : Work(w)
  \/ Start \/ Stop \/ Stopped \/ Reset \/ NewLoop

Spec == Init /\ [][Next]_vars

\* The event loop runs every task that can go on.
FairSpec == /\ Spec
            /\ WF_vars(stopping # None /\ (Stopped \/ Reset))
            /\ \A w \in Workers : WF_vars(Work(w))

-----------------------------------------------------------------------------
(* Properties *)

\* The variables of the manager, its backend and its worker keep their shape.
TypeOK ==
  /\ loop \in 1..MaxLoops /\ qloop \in 0..MaxLoops /\ mloop \in 0..MaxLoops
  /\ queue \in Seq(Jobs) /\ pending \in Seq(Jobs) /\ dead \in Seq(Jobs)
  /\ task \in Workers \cup {None} /\ stopping \in Workers \cup {None}
  /\ wpc \in [Workers -> {"get", "run", "sleep", "done"}]
  /\ hand \in [Workers -> Jobs \cup {None}]
  /\ active \in Int /\ count \in Int /\ idle \in BOOLEAN

\* No job is lost or run by two workers: whatever stop, start and a second
\* worker do to the queue, a job that waits is in one place, once, and a job
\* that is over is nowhere.
OnePlace ==
  \A j \in Jobs :
    LET places == {<<"queue", i>> : i \in {i \in 1..Len(queue) : queue[i] = j}}
                  \cup {<<"pending", i>> : i \in {i \in 1..Len(pending) : pending[i] = j}}
                  \cup {<<"hand", w>> : w \in {w \in Workers : hand[w] = j}}
    IN Cardinality(places) = IF out[j] = "waiting" THEN 1 ELSE 0

\* A job fails for good after exactly MaxAttempts runs, never sooner, and no
\* job runs once more after that or after it succeeded.
RetriedThrice ==
  \A j \in Jobs : /\ tries[j] <= MaxAttempts
                  /\ out[j] = "failed" => tries[j] = MaxAttempts

\* The dead-letter list is the latest failures since the last reset, in order,
\* the oldest cut off at the limit.
DeadLetterLatest ==
  LET n == Len(failures)
      k == IF n > DeadLetterLimit THEN DeadLetterLimit ELSE n
  IN dead = SubSeq(failures, n - k + 1, n)

\* The manager implements the contract of its jobs, whatever workers a stop has
\* left behind, threads and event loops do: a job is run by one worker at a time,
\* at most MaxAttempts times, and never again once it has ended.
Running  == {hand[w] : w \in {v \in Workers : wpc[v] = "run"}}
Contract == INSTANCE JobContract WITH state <- out, running <- Running, runs <- tries
ImplementsContract == Contract!Spec

\* wait_until_idle returns only when no job is waiting or running.  It holds
\* while every caller of enqueue is on the loop; the fixture of the test suite
\* says it blocks until the queue is empty, and with a thread it may not.
IdleMeansEmpty == idle => \A j \in Jobs : out[j] # "waiting"

\* Every job a coroutine enqueues comes to an end, through its retries and
\* whatever jobs fail before it, unless the manager is stopped or its event loop
\* ends with the job still in the queue.
JobsSettle ==
  \A j \in Jobs : []<>(out[j] # "waiting" \/ task = None \/ mloop # loop)
=============================================================================
