CONSTANTS
  NodeCapacity = 2
  MaxRecursiveIterations = 6
  MaxRows = 5
  MaxBuffered = 2
  MaxGone = 2
  MaxAsked = 3
  RowsFor <- MCRowsFor
  Columns <- MCColumns
  VectorColumns <- MCVectorColumns
  OtherTables <- MCOther
  Views <- MCViews
SPECIFICATION Spec
CHECK_DEADLOCK FALSE
CONSTANTS
  Selects <- MCSelects
  Equivalents <- MCEquivalents
  Planned <- MCPlanned
  Ordered <- MCOrdered
  Nearest <- MCNearest
  Aggregated <- MCAggregated
  Operands <- MCOperands
  Conditions <- MCConditions
  Statements <- MCStatements
  MaxParseDepth = 8
  MaxLimit = 10
INVARIANTS
  TreeKeepsTheRows
  LinksCoverTheLevels
PROPERTIES
  QueriesMeanSql
  PlansAgree
  WindowsAgreeWithGroups
  RankedAnswersAreBest
  SetOperationsAndRecursion
  ParserInvertsText
