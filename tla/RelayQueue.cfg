SPECIFICATION Spec
CONSTANTS
  attic = attic  barn = barn
  Meters = {attic, barn}
  Readings <- WithForgery
  Forged <- MadeUp
  Handlers = {"post1", "post2"}
  Flushers = {"tick"}
  Switched = {attic}
  BatchSize = 2
  MaxFaults = 2
  TornWrites = TRUE
INVARIANTS TypeOK NothingLost NothingTwice QueueInOrder
PROPERTIES Delivered KeepsTheGate
CHECK_DEADLOCK FALSE
