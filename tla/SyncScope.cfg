SPECIFICATION FairSpec
CONSTANTS
  Runs = {r1, r2}
  Slow = {r1, r2}
  LastBlock = 3
  Overlap = 1
  WindowBlocks = 2
  Starts <- MCStarts
  Targets <- MCTargets
  Scenarios <- MCScenarios
  None = None
  r1 = r1
  r2 = r2
INVARIANTS ClaimExclusive OneVersionPerBlock CursorConsistent
PROPERTIES FactsNeverGoBack DatasetOnlyGrows CatchesUp
CHECK_DEADLOCK FALSE
