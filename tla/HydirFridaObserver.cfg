SPECIFICATION Spec
CONSTANTS
  Thread = {t1, t2}
  None = None
  Cap = 5
  JumpBatch = 1
  Capacity = 2
  MaxDiagnostics = 1
  MaxBlocks = 4
  MaxJumps = 2
  MaxIntrusions = 1
  MaxErrors = 1
SYMMETRY Symmetric
CHECK_DEADLOCK FALSE
INVARIANTS
  CompletedIsComplete
  LossIsAccounted
  NoGapWithoutLoss
  EvidenceIsAccepted
