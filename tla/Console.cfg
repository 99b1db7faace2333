SPECIFICATION Spec
CONSTANTS
  ana = ana  ben = ben
  Absent = Absent  Broken = Broken
  Registry <- TwoMeters
  Deployments <- OneOrBoth
  Openings <- OneSurplus
  Deltas = {1}
  Loads = {"view", "again", "after"}
  Patches <- TwoPatches
  Operators = {"patch1", "patch2"}
  Homes = {ana, ben}  FirstHome = ana
  MaxEvents = 2
  MaxChanges = 1
INVARIANTS TypeOK FiguresWereTrue FreshWithReport FeeAfterPrice ApprovesSelected
CHECK_DEADLOCK FALSE
PROPERTIES ButtonsReturn
