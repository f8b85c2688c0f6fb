CONSTANTS
  u1 = u1
  u2 = u2
  Users = {u1, u2}
  Tokens = {t1, t2}
  ResetKeys = {k1}
  KeyOwner <- OneKey
  Superusers = {u2}
  Requests = {r1, r2}
  Outages = TRUE
  MaxPassword = 0
  NamedIndexes = {u1}
  None = None
SPECIFICATION Spec
SYMMETRY Symmetry
INVARIANTS IInv
PROPERTY ImplementsContract
CHECK_DEADLOCK FALSE
