CONSTANTS
  Records = {r1, r2}
  Techs = {}
  Requests = {q1, q2}
  Lines = {}
  Amounts = {low}
  LaborFigures = {}
  Ratings = {}
  PutStatuses = {}
  Operations = {"create", "status", "delete"}
  MaxInFlight = 2
  MayFail = TRUE
  None = None
SPECIFICATION Spec
SYMMETRY Symmetry
INVARIANTS OneTimeEffects EffectsOfFinishedJobs
PROPERTIES CompletedIsTerminal
CHECK_DEADLOCK FALSE
