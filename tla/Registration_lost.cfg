\* One registration, one endpoint, no failure.
CONSTANTS
  Accounts = {a1}
  Requests = {r1}
  MaxDeliveries = 2
  Endpoints = {e1}
  Workers = {w1}
  MaxAttempts = 3
  MaxRuns = 3
  MaxFaults = 0
  None = None
SPECIFICATION FairSpec
PROPERTY SavedIsPosted
