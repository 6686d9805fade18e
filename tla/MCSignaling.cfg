SPECIFICATION SignalingSpec
CONSTANTS
  Connections = {c1, c2}
  ClientIds = {i1, i2}
  Kinds = {"offer"}
  Capacity = 1
  MaxLines = 3
  Nobody = Nobody
INVARIANTS
  NoGaps
PROPERTIES
  SlowClientsBlockNobody
  SentIsWritten
  NoWriterIsLeftBehind
CHECK_DEADLOCK FALSE
