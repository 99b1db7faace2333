SPECIFICATION Spec
CONSTANTS
  attic = attic  barn = barn
  Meters = {attic, barn}
  Readings <- ThreeReadings
  Forged = {}
  Handlers = {"post1"}
  Flushers = {"tick"}
  Switched = {barn}
  BatchSize = 2
  MaxFaults = 2
  TornWrites = FALSE
INVARIANTS NeverLater
CHECK_DEADLOCK FALSE
