SPECIFICATION Spec
CONSTANTS
  GenesisHash = GenesisHash
  NoParent = NoParent
  GenesisTx = genesis_tx
  s1 = s1
  s2 = s2
  s3 = s3
  c1 = c1
  Sends = {s1, s2, s3}
  Calls = {c1}
  Amount <- MCAmount
  GenesisValue = 5
  Fee = 1
  OpsPerProcess = 2
  IOErrors = TRUE
  Slots = {0, 1, 2}
INVARIANTS
  TipIsKnown
  ChainIsLinear
  AnsweredSendsAreStored
  GenesisSpentOnce
PROPERTIES
  ImplementsLog
