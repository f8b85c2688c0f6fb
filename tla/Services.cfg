\* Two or three actors of each service, which take every path through it.
CONSTANTS
  u1 = u1  u2 = u2
  staff = staff  admin = admin  manage = manage  view = view  m1 = m1
  k1 = k1  k2 = k2
  None = None
  Accounts = {u1, u2}
  Editors = {e1, e2}
  Singles <- MCSingles
  Edits <- MCEdits
  SoleChoices <- MCSoleChoices
  Roles = {staff, admin}
  Members = {m1}
  Permissions = {manage, view}
  AdminRole = admin
  Manage = manage
  Root = root
  Granters = {g1, g2}
  Puts <- MCPuts
  Keys = {k1, k2}
  Makers = {r1, r2}
  Orders <- MCOrders
  Processes = {p1, p2}
  SeedKeys <- MCSeedKeys
  MaxBootFaults = 1
  Plans = {free, pro}
  Free = free
  Carrying = {free, pro}
  Clients = {c1, c2}
  MaxSubs = 2
  Callers = {l1, l2, l3}
  Limit <- MCLimit
  Routes <- MCRoutes
  Window = 2
  MaxNow = 3
  Attempts = {a1, a2, a3}
  Threshold = 2
  LockTime = 1
  LastTime = 3
  Mails = {w1, w2, w3}
  Tries = 2
  FailureThreshold = 2
  ResetTimeout = 2
  LastMoment = 4
  AllTokens = {x1, x2}
  Sweeps = {z1}
  AccessTTL = 2
  RefreshTTL = 3
  RevokeTTL = 2
  LastInstant = 4
  Files = {f1, f2}
  Readers = {d1}
  Cleaners = {o1, o2}
  ApiKeySet = {y1, y2}
  Requests = {q1, q2}
  Staff = {s1, s2, s3}
  Names = {na, nb}
  IdemKeys = {ik}
  Jobs = {j1, j2}
  Threads = {}
  Workers = {b1, b2}
  MaxAttempts = 3
  DeadLetterLimit = 1
  MaxLoops = 2
  Resets = FALSE
SPECIFICATION ServicesSpec
INVARIANTS
  ServicesTypeOK KeepsAnAdmin PutsReplace RefusedOnlyInRace ServingIsSeeded
  ConversionsHold LimitIsKept LockIsExact OutageIsOver LifetimesFit
  FilesMatchRows RevokedIsRefused AnnouncedIsKept IdleMeansEmpty
PROPERTIES
  ServicesSettle
CHECK_DEADLOCK FALSE
