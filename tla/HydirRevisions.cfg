SPECIFICATION Spec
CONSTANTS
  b1 = b1
  b2 = b2
  b3 = b3
  w = w
  v = v
  Call = {c1, c2}
  Binary = {b1, b2, b3}
  What = {w, v}
  Rewritten <- Patched
  Request <- Requests
  None = None
  MaxRevision = 5
  MaxAnnotations = 1
SYMMETRY Symmetric
INVARIANTS
  MutationsApplyToTheirBase
  ArtifactsMatchTheirBinary
  AnswersNameTheirMutation
  ModelsFormChains
PROPERTIES
  ImplementsProject
