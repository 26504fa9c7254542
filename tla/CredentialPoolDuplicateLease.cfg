SPECIFICATION Spec
CONSTANTS
  Tiers <- MCTiers
  None = None
  NKeys = 1
  Attempts = {a1, a2}
  ApiCalls = {c1}
  Checks = {}
  Epoch = 2
  Budgets = {1}
  MaxTime = 4
  MaxLeases = 2
  MaxFailures = 2
INVARIANT LeaseExclusive
CHECK_DEADLOCK FALSE
