\* Bulk updates that name an account twice.
CONSTANTS
  u1 = u1  u2 = u2
  None = None
  Accounts = {u1, u2}
  Editors = {e1, e2}
  Singles <- MCSingles
  Edits <- MCEdits
  SoleChoices <- MCSoleChoices
SPECIFICATION AdminsSpec
INVARIANT LastAdminStays
CHECK_DEADLOCK FALSE
