SPECIFICATION Spec
CONSTANTS
  None = None
  Workers = {w1}
  Processes = {w1}
  ProcessOf <- OwnProcess
  Mandates = {m1}
  Orders = {o1, o2}
  CallsMayFail = TRUE
  PaidLate = FALSE
  AttemptMayOverrun = FALSE
  MaxAttempts = 3
  FailureThreshold = 2
  MaxCrashes = 0
SYMMETRY OrderSymmetry
CHECK_DEADLOCK FALSE
INVARIANT AtMostOneCapture
