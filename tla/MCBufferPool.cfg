SPECIFICATION Spec
SYMMETRY Symmetric
CONSTANTS
  Block = {b1, b2, b3}
  Page = {v1, v2}
  Zeroed = v1
  NoBlock = NoBlock
  Corrupt = Corrupt
  Capacity = 2
  MaxPins = 2
INVARIANTS
  TypeOK
  Coherence
  LruTracksFramesInUse
  RefusedOnlyWhenFull
PROPERTIES
  PinnedPageStays
  NoStealDevice
  ImplementsPageStore
