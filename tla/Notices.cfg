SPECIFICATION Spec
CONSTANTS
  Notices = {n1}
  MaxAttempts = 3
  LastAttempt = 2
  MaxRetries = 2
  Reminders = {r1, r2}
  Subscriptions = {s1}
  Sweeps = {p1, p2}
  Requests = {q1}
  MaxLeft = 1
  MaxNotices = 2
  MayFail = TRUE
INVARIANTS
  TypeOK
  SentMeansMailed
  OneNoticeADay
PROPERTIES
  ReadIsKept
  ClosedStaysClosed
  MailSettles
CHECK_DEADLOCK FALSE
