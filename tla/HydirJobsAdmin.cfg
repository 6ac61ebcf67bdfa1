SPECIFICATION Spec
CONSTANTS
  Job = {j1}
  Call = {c1, c2}
  Request <- OneRequest
  Digest = {d}
  None = None
  MaxActive = 2
  MaxRevision = 1
  MaxCrashes = 0
  MaxOpens = 1
  MaxFaults = 0
PROPERTIES
  InterruptedMeansRestarted
