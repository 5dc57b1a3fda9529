CONSTANTS
  Jobs = {j1, j2, j3}
  Unhandled = {j3}
  Processes = {p1}
  Concurrency = 2
  MaxAttempts = 2
  MayCrash = TRUE
  MaySignal = TRUE
  RedisMayFail = FALSE
  None = None
SPECIFICATION Spec
SYMMETRY Symmetry
INVARIANTS SlotsRespected
PROPERTIES DeliversAtMostOnce ResultIsFinal
