SPECIFICATION Spec
CONSTANTS
  GenesisHash = GenesisHash
  NoParent = NoParent
  Hashes = {h1, h2, h3}
  PoolTxs = {t1, t2}
  SlotTime = 1
  Strict = FALSE
  MaxTxs = 1
  TakeLimit = 1
  Difficulties = {0, 1}
  MaxInHand = 2
  MaxTime = 2
  Idle = Idle
SYMMETRY HashSymmetry
INVARIANTS
  BlocksFormTree
  MinedOnce
  TipBlockIsValid
PROPERTIES
  CanonicalOnlyGrows
