SPECIFICATION Spec
CONSTANTS
  Content = {d1, d2}
  Call = {c1, c2, c3}
  None = None
  MaxCrashes = 2
  MaxFaults = 1
SYMMETRY Symmetric
CHECK_DEADLOCK FALSE
INVARIANTS
  ObjectsAreWhole
  NoDataLoss
  OnlyCrashesLeaveTemporaries
