SPECIFICATION StreamFairSpec
CONSTANTS
  Job = {j1, j2}
  Identity = {ann}
  Digest = {d}
  None = None
  MaxActive = 2
  Principal = {ann, bob}
  ProjectOwner = ann
  Grantable = {"viewer"}
  NoRole = NoRole
  MaxChanges = 3
  Stream = {s1}
  Reader = {bob}
  BatchLimit = 2
  Capacity = 1
  MaxConnects = 2
INVARIANTS
  ReceivesPrefixOfHistory
  CloseDeliversTheEnd
  OnlyInterruptionsAfterRevocation
PROPERTIES
  ClientLearnsTheEnd
  RotationEndsStreams
