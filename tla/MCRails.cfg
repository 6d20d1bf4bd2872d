SPECIFICATION Spec
CONSTANTS
  None = None
  Mandates = {m1, m2}
  Orders = {o1}
  MaxPayments = 3
  MaxRules = 2
SYMMETRY NameSymmetry
CHECK_DEADLOCK FALSE
INVARIANTS TypeOK OneCapturePerOrder
PROPERTY KeepsContract
