SPECIFICATION Spec
CONSTANTS
  None = None
  Standing = Standing
  Checkouts = {c1, c2}
  Mandates = {m1, m2}
  Orders = {o1, o2}
  Callers = {k1}
  Holds = {h1}
  Clicks = {t1, t2}
  Price <- OneDear
  Outside = {}
  StandingMax = 1
  StandingBudget = 2
  MaxStock = 2
  MaxRestarts = 1
SYMMETRY NameSymmetry
CHECK_DEADLOCK FALSE
INVARIANTS OneReceiptPerCheckout NonceChargedOnce PaidMeansCommitted DecisionsBounded
