SPECIFICATION FairSpec
CONSTANTS
  StartBlock = 0
  EndBlock = 7
  MaxRangeWindows = 6
  MaxRangeRecords = 6
  Index <- MCIndex
  None = None
INVARIANTS LedgerTilesRange CallsBounded ResultIsExact DeliveredIsPrefix
PROPERTIES ImplementsCoverage Settles
CHECK_DEADLOCK FALSE
