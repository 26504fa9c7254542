SPECIFICATION FairSpec
CONSTANTS
  Calls = {r1, r2}
  Candidates = 2
  Settings <- MCSettings
  TotalTimeout = 2
  KeyCooldown = 2
  ProxyCooldown = 1
  ProviderCooldown = 1
  Delays = {0, 1}
  FailureThreshold = 2
  Epoch = 4
  MaxTime = 7
  None = None
  Direct = Direct
  r1 = r1
  r2 = r2
  x1 = x1
  x2 = x2
INVARIANTS NoLeaseOrphaned LeasesInUse
PROPERTIES GivesUpAtLastCandidate Settles
CHECK_DEADLOCK FALSE
