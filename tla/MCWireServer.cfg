SPECIFICATION Spec
CONSTANTS
  c1 = c1
  c2 = c2
  Conn = {c1, c2}
  Scripts <- MCScripts
  MaxRequests = 2
  Params <- MCParams
INVARIANTS
  AnswersMatchRequests
PROPERTIES
  ConnectionsAreServed
  ConnectionsLeave
CHECK_DEADLOCK FALSE
