SPECIFICATION Spec
CONSTANTS
  attic = attic  barn = barn
  Meters = {attic, barn}
  Readings <- ThreeReadings
  Forged = {}
  Handlers = {"post1"}
  Flushers = {"tick", "http"}
  Switched = {}
  BatchSize = 2
  MaxFaults = 0
  TornWrites = FALSE
INVARIANTS NothingLost
CHECK_DEADLOCK FALSE
