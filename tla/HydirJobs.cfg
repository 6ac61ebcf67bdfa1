SPECIFICATION Spec
CONSTANTS
  Job = {j1, j2}
  Call = {c1, c2}
  Request <- Requests
  Digest = {d}
  None = None
  MaxActive = 1
  MaxRevision = 1
  MaxCrashes = 1
  MaxOpens = 1
  MaxFaults = 1
SYMMETRY Symmetric
INVARIANTS
  TypeOK
  HistoryMatchesState
  ArtifactsAreResults
  ActiveLimit
  ActiveJobIsOwned
  CancelStopsWorker
  FinishedTaskIsUnregistered
  OneJobPerKey
PROPERTIES
  TerminalIsFinal
  ImplementsLifecycle
