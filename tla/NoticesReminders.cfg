SPECIFICATION FairSpec
CONSTANTS
  Notices = {}
  MaxAttempts = 3
  LastAttempt = 2
  MaxRetries = 2
  Reminders = {r1}
  Subscriptions = {}
  Sweeps = {p1}
  Requests = {q1}
  MaxLeft = 1
  MaxNotices = 1
  MayFail = FALSE
PROPERTIES
  DueReminderIsMailed
CHECK_DEADLOCK FALSE
