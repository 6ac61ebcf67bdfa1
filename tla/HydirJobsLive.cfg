SPECIFICATION FairSpec
CONSTANTS
  Job = {j1}
  Call = {c1, c2}
  Request <- OneRequest
  Digest = {d}
  None = None
  MaxActive = 2
  MaxRevision = 2
  MaxCrashes = 1
  MaxOpens = 1
  MaxFaults = 1
PROPERTIES
  JobsEnd
