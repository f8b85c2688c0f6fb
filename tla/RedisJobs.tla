-------------------------------- MODULE RedisJobs --------------------------------
(***************************************************************************)
(* The job queue in Redis and its worker (JOB_QUEUE_BACKEND=redis).  The   *)
(* queue calls a redis.asyncio client from functions that are not          *)
(* coroutines: a call makes a coroutine, which nobody awaits, so that no   *)
(* command is sent.  What a call returns is that coroutine.                *)
(***************************************************************************)
EXTENDS FiniteSets

CONSTANTS QueuedJobs, RedisWorkers

VARIABLES
  jobState,    \* "none", "enqueued" (enqueue has returned), "taken", "done" or "dead"
  redisList,   \* jobs:pending
  coroutines,  \* commands made and never awaited: <<command, job>>
  workerPc     \* where each worker is

wvars == <<jobState, redisList, coroutines, workerPc>>

RedisJobsInit ==
  /\ jobState = [j \in QueuedJobs |-> "none"] /\ redisList = {} /\ coroutines = {}
  /\ workerPc = [w \in RedisWorkers |-> "down"]

\* RedisJobQueue.enqueue: lpush, not awaited.
EnqueueInRedis(j) ==
  /\ jobState[j] = "none" /\ jobState' = [jobState EXCEPT ![j] = "enqueued"]
  /\ coroutines' = coroutines \cup {<<"lpush", j>>} /\ UNCHANGED <<redisList, workerPc>>

\* The worker is started, and again whenever it ends.
StartRedisWorker(w) ==
  /\ workerPc[w] = "down" /\ workerPc' = [workerPc EXCEPT ![w] = "dequeue"]
  /\ UNCHANGED <<jobState, redisList, coroutines>>

\* dequeue in a thread: brpop, not awaited.  The coroutine is not None and
\* cannot be unpacked; the TypeError is outside the try, and ends the worker.
Dequeue(w) ==
  /\ workerPc[w] = "dequeue" /\ workerPc' = [workerPc EXCEPT ![w] = "down"]
  /\ coroutines' = coroutines \cup {<<"brpop", w>>} /\ UNCHANGED <<jobState, redisList>>

RedisJobsNext == \/ \E j \in QueuedJobs : EnqueueInRedis(j)
                 \/ \E w \in RedisWorkers : StartRedisWorker(w) \/ Dequeue(w)

RedisJobsSpec == /\ RedisJobsInit /\ [][RedisJobsNext]_wvars
                 /\ \A w \in RedisWorkers : WF_wvars(StartRedisWorker(w) \/ Dequeue(w))

\* The README calls the Redis queue durable: a job that has been enqueued is run,
\* or ends among the dead letters.
EnqueuedJobsRun == \A j \in QueuedJobs : jobState[j] = "enqueued" ~> jobState[j] \in {"done", "dead"}
=============================================================================
