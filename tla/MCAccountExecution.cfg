SPECIFICATION Spec
CONSTANTS
  a = a
  b = b
  code = code
  k1 = k1
  k2 = k2
  Addresses = {a, b}
  Codes = {code}
  ScriptHashes <- MCHashes
  Keys = {k1, k2}
  Lengths = {1, 2}
  MaxStateSize = 2
  Changes <- MCChanges
  Transfers <- MCTransfers
  OtherTxs <- MCOtherTxs
  Batches <- MCBatches
  InitialBalance = 2
  MaxTime = 1
  MaxNonce = 2
  MaxReceipts = 2
  GenesisRoot = GenesisRoot
INVARIANTS
  MoneyIsConserved
  StatesAgree
CHECK_DEADLOCK FALSE
