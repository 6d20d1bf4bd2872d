SPECIFICATION Spec
CONSTANTS
  None = None
  Standing = Standing
  Checkouts = {c1, c2}
  Mandates = {m1, m2}
  Orders = {o1, o2}
  Callers = {k1, k2}
  Holds = {h1}
  Clicks = {t1}
  Price <- OneDear
  Outside = {}
  StandingMax = 2
  StandingBudget = 1
  MaxStock = 1
  MaxRestarts = 1
SYMMETRY NameSymmetry
CHECK_DEADLOCK FALSE
INVARIANTS TypeOK AnswersThisCheckout SettledByItsCharge ShelfBalances OverspendBounded OversellBounded
