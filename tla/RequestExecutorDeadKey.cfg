SPECIFICATION Spec
CONSTANTS
  Calls = {r1}
  Candidates = 2
  Settings <- MCOneKey
  TotalTimeout = 2
  KeyCooldown = 1
  ProxyCooldown = 1
  ProviderCooldown = 1
  Delays = {0, 1}
  FailureThreshold = 2
  Epoch = 4
  MaxTime = 6
  None = None
  Direct = Direct
  r1 = r1
  r2 = r2
  x1 = x1
  x2 = x2
PROPERTY CooledKeysAreUsed
CHECK_DEADLOCK FALSE
