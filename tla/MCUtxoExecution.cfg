SPECIFICATION Spec
CONSTANTS
  split = split
  twice = twice
  join = join
  lock = lock
  short = short
  block = block
  Txs = {split, short, twice, join, lock}
  Body <- MCBody
  Blocks = {block}
  Rewards = {0, 2}
  GenesisLists <- MCGenesis
  BatchLists <- MCBatches
  MaxSlot = 1
  MaxHistory = 2
  MaxReceipts = 2
INVARIANTS
  TotalIsSum
  NoDoubleSpend
  ReceiptsExplainSet
PROPERTIES
  SupplyIsExplained
  ImplementsLedger
