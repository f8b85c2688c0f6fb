CONSTANTS
  u1 = u1
  u2 = u2
  Users = {u1}
  Tokens = {t1, t2, t3}
  ResetKeys = {}
  KeyOwner <- OneKey
  Superusers = {}
  Requests = {r1, r2}
  Outages = FALSE
  MaxPassword = 1
  NamedIndexes = {}
  None = None
SPECIFICATION Spec
SYMMETRY Symmetry
INVARIANTS IndexComplete SpentStaysDead ClosedStaysRevoked AlarmsHaveCause
CHECK_DEADLOCK FALSE
