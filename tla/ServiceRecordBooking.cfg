CONSTANTS
  Records = {r1}
  Techs = {t1}
  Requests = {q1, q2}
  Lines = {l1}
  Amounts = {low}
  LaborFigures = {}
  Ratings = {five}
  PutStatuses = {}
  Operations = {"create", "status", "parts", "feedback", "delete"}
  MaxInFlight = 2
  MayFail = FALSE
  None = None
SPECIFICATION FairSpec
PROPERTIES CompletionIsBooked
CHECK_DEADLOCK FALSE
