SPECIFICATION Spec
CONSTANTS
  c1 = c1
  d1 = d1
  b0 = b0
  b1 = b1
  Channel = {c1}
  DeviceId = {d1}
  Payload = {m1, m2}
  Response = c1
  Grantable <- MCGrantable
  Block = {b0, b1}
  Page = {v0, v1}
  Zeroed = v0
  NoBlock = NoBlock
  Corrupt = Corrupt
  Capacity = 1
  MaxCaps = 2
  MaxTasks = 2
  MaxMessages = 2
  MaxMappings = 2
INVARIANTS
  ChannelsAreFifo
  MappedPagesStay
PROPERTIES
  NoAmbientAuthority
  RoundRobin
  DriversDrainTheirSource
  TasksFinish
