SPECIFICATION Spec
CONSTANTS
  b1 = b1
  b2 = b2
  BatchIds = {b1, b2}
  Contents = {full, amended}
  ChallengeIds = {c1}
  Proofs <- MCProofs
  ChallengePeriod = 1
  SecondsPerBlock = 1
  MaxTime = 4
  None = None
  GenesisRoot = GenesisRoot
SYMMETRY ContentSymmetry
INVARIANTS
  ChallengeHoldsBatch
  SettledIsLatestInHistory
  RootCommitsToSettled
PROPERTIES
  NeverSettledOverLiveChallenge
  ImplementsRollup
