SPECIFICATION Spec
CONSTANTS
  Callers = {c1, c2}
  Datasets = {erc20}
  LastBlock = 2
  Scenarios <- MCScenarios
  Windows <- MCWindows
  Reorgs = {1}
  None = None
  c1 = c1
  c2 = c2
  erc20 = erc20
INVARIANTS OneReplayAtWork 
CHECK_DEADLOCK FALSE
