SPECIFICATION Spec
CONSTANTS
  None = None
  Standing = Standing
  Checkouts = {c1}
  Mandates = {m1, m2}
  Orders = {o1}
  Callers = {k1}
  Holds = {h1}
  Clicks = {t1, t2}
  Price <- SamePrice
  Outside = {c1}
  StandingMax = 1
  StandingBudget = 1
  MaxStock = 1
  MaxRestarts = 0
SYMMETRY NameSymmetry
CHECK_DEADLOCK FALSE
PROPERTY DecisionIsFinal
