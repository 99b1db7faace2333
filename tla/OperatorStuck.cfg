SPECIFICATION Spec
CONSTANTS
  Lists = {}
  MaxMeters = 1
  Poor = {}
  MaxFaults = 1
  FetchFails = TRUE
PROPERTIES ClientRecovers
CHECK_DEADLOCK FALSE
