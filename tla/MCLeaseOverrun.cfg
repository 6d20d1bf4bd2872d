SPECIFICATION Spec
CONSTANTS
  None = None
  Workers = {w1, w2}
  Processes = {w1, w2}
  ProcessOf <- OwnProcess
  Mandates = {m1}
  Orders = {o1, o2}
  CallsMayFail = FALSE
  PaidLate = FALSE
  AttemptMayOverrun = TRUE
  MaxAttempts = 3
  FailureThreshold = 2
  MaxCrashes = 0
SYMMETRY OrderSymmetry
CHECK_DEADLOCK FALSE
INVARIANT OneAttemptPerMandate
