SPECIFICATION Spec
CONSTANTS
  b1 = b1
  b2 = b2
  Binary = {b1, b2}
  Rebuilt <- Patched
  Function = {f, g}
  Entry = f
  Seed = {template, other}
  Template = template
  None = None
  QueueCapacity = 4
  MaxCommands = 4
CHECK_DEADLOCK FALSE
INVARIANTS
  NativeEvidenceIsOfTheOpenBinary
  GhidraEvidenceIsCurrent
  FlagsMatchTasks
PROPERTY
  Settles
