SPECIFICATION Spec
CONSTANTS
  b1 = b1
  b2 = b2
  b3 = b3
  w = w
  v = v
  Call = {c1, c2}
  Binary = {b1, b2, b3}
  What = {w, v}
  Rewritten <- Patched
  Request <- PipelinedRequests
  None = None
  MaxRevision = 3
  MaxAnnotations = 2
SYMMETRY Symmetric
INVARIANTS
  AnnotationKeepsBinary
