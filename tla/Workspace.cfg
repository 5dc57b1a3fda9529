SPECIFICATION Spec
CONSTANTS
  Requests = {q1, q2}
  Things = {x1, x2}
  None = None
  Vehicles = {v1}
  MaxHistory = 3
  MaxListed = 2
  MayFail = TRUE
  LockAfter = 2
  MaxFailures = 3
  Rows = {w1, w2}
  MaxValue = 1
  MaxEntries = 3
  Invites = {i1}
  MaxUses = 2
  MaxReminders = 1
  MaxServices = 2
  MaxRating = 3
  Docs = {d1}
  Emails = {e1, e2}
  Registrations = {g1, g2}
  MaxSlug = 2
  MaxSaves = 2
  Phones = {p1}
  Plates = {g1}
  MaxJobs = 1
  MaxPrice = 1
  Ttl = 2
  MaxWait = 1
  MaxVersions = 2
  HashFields = {1, 2}
  MaxTtl = 2
  MaxScore = 1
  MaxReach = 2
SYMMETRY Symmetry
INVARIANTS
  TypeOK
  HistoryMatchesOwner
  CopiesAgree
  GuessesBounded
  SuspendedShutOut
  AskedTenantOnly
  NothingHalfDone
PROPERTIES
  LockKept
  OthersKept
  ActsLikeRedis
CHECK_DEADLOCK FALSE
