CONSTANTS
  Invoices = {i1, i2}
  Payments = {p1}
  Requests = {q1, q2}
  Totals = {10}
  Operations = {"create", "send", "void", "pay", "webhook"}
  MaxInFlight = 2
  MaxNumber = 2
  MayDecline = FALSE
  MayFail = FALSE
  None = None
SPECIFICATION FairSpec
INVARIANTS NumbersUnique
PROPERTIES CapturedIsCredited
CHECK_DEADLOCK FALSE
