SPECIFICATION FairSpec
CONSTANTS
  Tiers <- MCTiers
  None = None
  NKeys = 2
  Attempts = {a1, a2}
  ApiCalls = {}
  Checks = {x1}
  Epoch = 2
  Budgets = {}
  MaxTime = 5
  MaxLeases = 3
  MaxFailures = 2
SYMMETRY Symmetry
INVARIANTS TypeOK LeaseLedger LeaseExclusive 
 
CHECK_DEADLOCK FALSE
