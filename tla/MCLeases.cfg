SPECIFICATION HistorySpec
CONSTANTS
  None = None
  Workers = {w1, w2}
  Processes = {w1, w2}
  ProcessOf <- OwnProcess
  Mandates = {m1}
  Orders = {o1, o2}
  CallsMayFail = TRUE
  PaidLate = TRUE
  AttemptMayOverrun = TRUE
  MaxAttempts = 2
  FailureThreshold = 2
  MaxCrashes = 1
SYMMETRY NameSymmetry
CHECK_DEADLOCK FALSE
INVARIANTS OneAttemptUnlessOverrun NotedUnlessOverrun
