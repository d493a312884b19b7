SPECIFICATION Spec
SYMMETRY Symmetric
CONSTANTS
  Block = {b1, b2}
  Page = {v1, v2}
  Zeroed = v1
  NoBlock = NoBlock
  Corrupt = Corrupt
  Torn = Torn
  Capacity = 1
  MaxLog = 4
  MaxPins = 1
  RecoverWrites = {"ok"}
  ExitUnsynced = FALSE
INVARIANTS
  TypeOK
  AcknowledgedPutsSurvive
  ReadsSeePuts
