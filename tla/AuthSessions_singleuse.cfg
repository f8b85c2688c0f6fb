CONSTANTS
  u1 = u1
  u2 = u2
  Users = {u1}
  Tokens = {t1, t2, t3}
  ResetKeys = {}
  KeyOwner <- OneKey
  Superusers = {}
  Requests = {r1, r2}
  Outages = FALSE
  MaxPassword = 0
  NamedIndexes = {u1}
  None = None
SPECIFICATION Spec

INVARIANT SingleUse
CHECK_DEADLOCK FALSE
