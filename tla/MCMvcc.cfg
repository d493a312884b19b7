SPECIFICATION Spec
SYMMETRY Symmetric
CONSTANTS
  Client = {c1, c2}
  Key = {k1, k2}
  Value = {v1, v2}
  None = None
  Idle = Idle
  Unread = Unread
  MaxClock = 2
INVARIANTS
  TypeOK
  OneSnapshot
  ConflictIsExact
PROPERTY ImplementsSerialStore
