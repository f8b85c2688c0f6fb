CONSTANTS
  Jobs = {j1, j2, j3}
  Threads = {t1}
  Workers = {w1, w2}
  MaxAttempts = 2
  DeadLetterLimit = 1
  MaxLoops = 2
  Resets = TRUE
  None = None
SPECIFICATION Spec
SYMMETRY Symmetry
INVARIANTS TypeOK OnePlace DeadLetterLatest
PROPERTY ImplementsContract
