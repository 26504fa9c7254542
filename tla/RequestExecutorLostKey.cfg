SPECIFICATION Spec
CONSTANTS
  Calls = {r1, r2}
  Candidates = 2
  Settings <- MCOneProxy
  TotalTimeout = 2
  KeyCooldown = 2
  ProxyCooldown = 1
  ProviderCooldown = 1
  Delays = {0, 1}
  FailureThreshold = 2
  Epoch = 4
  MaxTime = 7
  None = None
  Direct = Direct
  r1 = r1
  r2 = r2
  x1 = x1
  x2 = x2
INVARIANT OnlyRejectedKeysAreLost
CHECK_DEADLOCK FALSE
