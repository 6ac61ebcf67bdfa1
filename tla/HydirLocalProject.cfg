SPECIFICATION Spec
CONSTANTS
  b1 = b1
  b2 = b2
  top = top
  mid = mid
  low = low
  pair = pair
  node = node
  Client = {c1, c2}
  Binary = {b1, b2}
  Function = {top, mid, low}
  Type = {pair, node}
  Calls <- Chain
  Lowered <- Texts
  Model <- Models
  Save <- Saves
  None = None
  MaxRevision = 3
  MaxTexts = 3
  MaxCacheRows = 2
SYMMETRY Symmetric
INVARIANTS
  CacheIsFresh
  TypedCIsOfItsBinary
  LoadedModelIsOfTheHandle
