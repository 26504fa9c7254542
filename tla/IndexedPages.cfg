\* Every adapter, by pages and complete, over all indexes of up to four rows.
CONSTANTS
  Jobs <- MCJobs
  PageSize = 2
  MaxPages <- MCMaxPages
  MaxRecords = 4
SPECIFICATION Spec
INVARIANTS ListingIsExact LimitsAreWideEnough
PROPERTY PagingEnds
\* A call that has ended does nothing more.
CHECK_DEADLOCK FALSE
