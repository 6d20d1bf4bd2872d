SPECIFICATION Spec
CONSTANTS
  Skew = 1
  Drift = 1
  Agents = {a1}
  Callers = {k1, k2}
  None = None
  Shop = Shop
  Other = Other
  Carts = {c1, c2}
  Prices = {1, 2, 3}
  Holds <- OneHold
  Limit = 2
  Daily = 1
  StandingTtl = 0
  ClosedTtl = 0
  MaxLives = 2
  MaxNow = 2
  MaxGrants = 2
  MaxReceipts = 1
  MaxPayments = 2
  MaxTogether = 4
SYMMETRY CallSymmetry
CHECK_DEADLOCK FALSE
INVARIANTS TypeOK ReceiptsStayVerifiable MoneyFollowsDelegation EveryConstraintHolds StorefrontSeesTheSame
