SPECIFICATION Spec
CONSTANTS
  datum = datum
  Data <- MCData
  Verifiers = {v1}
  RetentionPeriod = 0
  CacheTime = 1
  PeerTime = 1
  MaxTime = 2
  MaxLeaves = 2
  TreeSize = 6
  MaxAccesses = 1
  MaxRequests = 1
  Never = Never
  Idle = Idle
INVARIANTS
  StaleAnswersAreDated
  StoredIsAvailable
  ProofsHoldSiblings
