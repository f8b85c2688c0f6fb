\* One job and one worker.
CONSTANTS
  QueuedJobs = {j1}
  RedisWorkers = {w1}
SPECIFICATION RedisJobsSpec
PROPERTY EnqueuedJobsRun
CHECK_DEADLOCK FALSE
