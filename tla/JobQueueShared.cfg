CONSTANTS
  Jobs = {j1, j2}
  Unhandled = {j2}
  Processes = {p1, p2}
  Concurrency = 2
  MaxAttempts = 2
  MayCrash = FALSE
  MaySignal = FALSE
  RedisMayFail = TRUE
  None = None
SPECIFICATION FairSpec
INVARIANTS TypeOK NothingLost
PROPERTIES EverySettled
CHECK_DEADLOCK FALSE
