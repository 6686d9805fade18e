SPECIFICATION Spec
CONSTANTS
  Ids = {p1, p2}
  Bootstrap = {p2}
  Callers = {c1, c2}
  Runner = Runner
  KeepAlive = KeepAlive
  MaxConns = 3
  MaxCalls = 2
  None = None
INVARIANTS
  SendsAreOverOpenConnections
  TableIsClean
PROPERTIES
  ShutdownEnds
  CountHeals
CHECK_DEADLOCK FALSE
