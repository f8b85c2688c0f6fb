\* One account, two requests for it, an endpoint, a worker, two failures.
CONSTANTS
  Accounts = {a1}
  Requests = {r1, r2}
  MaxDeliveries = 3
  Endpoints = {e1}
  Workers = {w1}
  MaxAttempts = 2
  MaxRuns = 2
  MaxFaults = 2
  None = None
SPECIFICATION FairSpec
INVARIANTS TypeOK CachedAnswersHold NoGhostEvents AttemptsBounded OneJob QuietAfterRevoke
PROPERTIES ImplementsContract RequestsEnd RetriesGoOn
