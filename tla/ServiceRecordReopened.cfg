CONSTANTS
  Records = {r1}
  Techs = {}
  Requests = {q1}
  Lines = {}
  Amounts = {low}
  LaborFigures = {}
  Ratings = {}
  PutStatuses = {"scheduled"}
  Operations = {"create", "status", "put"}
  MaxInFlight = 1
  MayFail = FALSE
  None = None
SPECIFICATION Spec
INVARIANTS RevenueBookedOnce
CHECK_DEADLOCK FALSE
