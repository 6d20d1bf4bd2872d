SPECIFICATION FairSpec
CONSTANTS
  None = None
  Workers = {w1}
  Processes = {w1}
  ProcessOf <- OwnProcess
  Mandates = {m1, m2}
  Orders = {1,2,3,4,5,6,7,8,9,10,11,12}
  CallsMayFail = FALSE
  PaidLate = FALSE
  AttemptMayOverrun = TRUE
  MaxAttempts = 2
  FailureThreshold = 2
  MaxCrashes = 1
CONSTRAINT MintedInSequence
CHECK_DEADLOCK FALSE
INVARIANTS TypeOK AtMostOneCapture
PROPERTIES NoOrderAfterCapture ImplementsOneCharge NeverWedged
