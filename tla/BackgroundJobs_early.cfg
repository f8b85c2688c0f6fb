CONSTANTS
  Jobs = {j1, j2}
  Threads = {t1}
  Workers = {w1, w2}
  MaxAttempts = 2
  DeadLetterLimit = 1
  MaxLoops = 1
  Resets = FALSE
  None = None
SPECIFICATION Spec
INVARIANT IdleMeansEmpty
