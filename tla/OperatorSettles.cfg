SPECIFICATION Spec
CONSTANTS
  Lists <- OneMeter
  MaxMeters = 2
  Poor = {2}
  MaxFaults = 2
  FetchFails = TRUE
INVARIANTS TypeOK NoneForgotten NoneBetween
PROPERTIES MarketClears JobEnds
CHECK_DEADLOCK FALSE
