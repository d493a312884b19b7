SPECIFICATION Spec
SYMMETRY Symmetric
CONSTANTS
  x = x
  RowId = {0, 1}
  Null = Null
  Vectors = {x}
  Absent = Absent
  Tombstone = Tombstone
  MinRowsForIndex = 2
  Session = {s1, s2}
  Parameter = {"TimeZone"}
  Defaults <- MCDefaults
  Schemas <- MCSchemas
  Fill <- MCFill
  Creates <- MCCreates
  Inserts <- MCInserts
  Updates <- MCUpdates
  Deletes <- MCDeletes
  Alters <- MCAlters
  Views <- MCViews
  Settings = {"CET"}
  FirstViews <- MCFirstViews
  FirstSettings <- MCFirstSettings
  MaxStatements = 5
  MaxDdl = 1
INVARIANTS
  TypeOK
  ConstraintsHold
  VectorIndexesExact
  RowsDecode
PROPERTIES
  UncommittedWorkIsPrivate
  CommitDoesWhatItSays
CHECK_DEADLOCK FALSE
