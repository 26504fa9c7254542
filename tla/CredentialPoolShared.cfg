SPECIFICATION Spec
CONSTANTS
  Tiers <- MCTiers
  None = None
  NKeys = 2
  Attempts = {a1, a2}
  ApiCalls = {c1, c2}
  Checks = {}
  Epoch = 2
  Budgets = {1}
  MaxTime = 5
  MaxLeases = 2
  MaxFailures = 3
SYMMETRY Symmetry
INVARIANT StoredMatchesMemory
INVARIANT WakeIsUseful
 
PROPERTY LeaseNotRevoked
CHECK_DEADLOCK FALSE
