SPECIFICATION FairSpec
CONSTANTS
  None = None
  Ghost = Ghost
  Agents = {a1, a2}
  Skus = {s1, s2}
  Scope = {s1}
  MAX_REPLANS = 2
  MaxStock = 1
CHECK_DEADLOCK FALSE
INVARIANTS TypeOK StatusIsTruthful ForcedNothing
PROPERTY AttemptEnds
