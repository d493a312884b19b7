SPECIFICATION Spec
SYMMETRY Symmetric
CONSTANTS
  Block = {b1, b2, b3}
  Page = {v1, v2}
  Zeroed = v1
  NoBlock = NoBlock
  Corrupt = Corrupt
  Torn = Torn
  Capacity = 2
  MaxLog = 3
  MaxPins = 1
  PersistTears = FALSE
  RecoverWrites = {"ok"}
INVARIANTS
  TypeOK
  OneDurableState
PROPERTIES
  ImplementsAtomicStore
