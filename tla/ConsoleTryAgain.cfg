SPECIFICATION Spec
CONSTANTS
  ana = ana  ben = ben
  Absent = Absent  Broken = Broken
  Registry <- NoMeters
  Deployments <- NoneKnown
  Openings <- NoPositions
  Deltas = {1}
  Loads = {"view", "after"}
  Patches <- TwoPatches
  Operators = {"patch1"}
  Homes = {ana}  FirstHome = ana
  MaxEvents = 2
  MaxChanges = 0
INVARIANTS AnnouncedWasSent
CHECK_DEADLOCK FALSE
