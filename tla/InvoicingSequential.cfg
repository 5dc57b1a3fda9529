CONSTANTS
  Invoices = {i1, i2}
  Payments = {p1, p2}
  Requests = {q1}
  Totals = {10}
  Operations = {"generate", "create", "send", "void", "pay", "webhook", "sweep", "mail"}
  MaxInFlight = 1
  MaxNumber = 2
  MayDecline = TRUE
  MayFail = TRUE
  None = None
SPECIFICATION Spec
SYMMETRY Symmetry
INVARIANTS TypeOK NeverOvercredited NoticeOnce
PROPERTIES PaidIsKept
CHECK_DEADLOCK FALSE
