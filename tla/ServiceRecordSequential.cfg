CONSTANTS
  Records = {r1, r2}
  Techs = {t1, t2}
  Requests = {q1}
  Lines = {l1, l2}
  Amounts = {low}
  LaborFigures = {}
  Ratings = {}
  PutStatuses = {}
  Operations = {"create", "status", "put", "labor", "delete"}
  MaxInFlight = 1
  MayFail = FALSE
  None = None
SPECIFICATION Spec
SYMMETRY Symmetry
INVARIANTS TypeOK StatsExactWhenQuiet LaborTotalMatchesLines
CHECK_DEADLOCK FALSE
