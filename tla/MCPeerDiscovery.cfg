SPECIFICATION DiscoverySpec
CONSTANTS
  Users = {c1, c2}
  Peers = {p1}
  Listener = Listener
  Cleaner = Cleaner
  Free = Free
  Ended = Ended
INVARIANTS
  LockTypes
PROPERTIES
  AllAreServed
CHECK_DEADLOCK FALSE
