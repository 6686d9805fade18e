SPECIFICATION Spec
CONSTANTS
  Nodes = {n1, n2}
  Fresh = {x}
  Timeout = 1
  MaxWait = 1
  MaxFlight = 1
  None = None
  Idle = Idle
  Ended = Ended
INVARIANTS
  HearsayIsNoSighting
PROPERTIES
  OnlyRacesDropFresh
  LiveAreFound
  LoneForgets
