CONSTANTS
  u1 = u1
  u2 = u2
  Users = {u1}
  Tokens = {t1, t2}
  ResetKeys = {k1}
  KeyOwner <- OneKey
  Superusers = {}
  Requests = {r1, r2}
  Outages = FALSE
  MaxPassword = 0
  NamedIndexes = {u1}
  None = None
SPECIFICATION FairSpec

PROPERTY OldPasswordSessionsEnd
CHECK_DEADLOCK FALSE
