SPECIFICATION Spec
SYMMETRY Symmetry
CHECK_DEADLOCK FALSE
CONSTANTS
  Subs = {s1}
  Plans = {free, basic}
  Paid = {basic}
  Trial = {free}
  Requests = {q1, q2}
  MaxInFlight = 2
  MaxCycles = 2
  MaxRefused = 1
  MaxLapsed = 1
  None = None
INVARIANTS
  TypeOK
  OneReceiptPerCharge
  CacheAgrees
  RecordedMeansRenewed
PROPERTIES
  PeriodOnlyGrows
