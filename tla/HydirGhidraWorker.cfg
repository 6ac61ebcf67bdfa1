SPECIFICATION Spec
CONSTANTS
  entry = entry
  other = other
  o1 = o1
  o2 = o2
  Output = {o1, o2}
  Client = {c1, c2}
  Binary = {b1, b2}
  Function = {entry, other}
  Entry = entry
  Generation = {g1, g2, g3}
  UserBinary = b1
  Request <- Requests
  None = None
  MaxFaults = 1
  MaxRebuilds = 1
INVARIANTS
  AnswersMatchRequests
  RecordedProjectsAreWhole
  GhidraRunsOnlyOnAMiss
  GhidraIsAloneInItsProject
PROPERTY
  CallsEnd
