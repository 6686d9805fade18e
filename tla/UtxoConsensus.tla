--------------------------- MODULE UtxoConsensus ---------------------------
(***************************************************************************)
(* The eUTXO consensus layer with its slot clock and its pool of pending   *)
(* transactions, crates/consensus/src/consensus_engine.rs.                 *)
(*                                                                         *)
(* mine, propose, add and set_difficulty take &mut self, so they exclude   *)
(* each other; the pool is reached through &self, one lock section per     *)
(* call.  Mining reads the clock twice, for the slot and for the           *)
(* timestamp, and is modelled in two steps.  Mined blocks and transactions *)
(* taken from the pool are in the hands of the callers.                    *)
(***************************************************************************)
EXTENDS UtxoChain, FiniteSets

CONSTANTS Hashes,         \* hashes of the blocks that are mined
          PoolTxs,        \* transactions submitted to the pool, once each
          SlotTime,       \* config.slot_time, in units of the clock
          Strict,         \* slot_time > 500: slots are checked against the clock
          MaxTxs,         \* config.max_transactions_per_block
          TakeLimit,      \* the limit callers give get_pending_utxo_transactions
          Difficulties,   \* values of config.difficulty, in leading zeros
          MaxInHand,      \* how many mined blocks callers hold at a time
          MaxTime,        \* bound on the clock
          Idle            \* no mining under way

ASSUME ConsensusAssumption ==
  /\ SlotTime \in Nat \ {0}
  /\ Difficulties \subseteq Nat
  /\ Strict \in BOOLEAN
  /\ MaxTime \in Nat /\ MaxTxs \in Nat /\ TakeLimit \in Nat /\ MaxInHand \in Nat
  /\ GenesisHash \notin Hashes

VARIABLES now,           \* the wall clock
          genesis_time,  \* genesis_time
          chain,         \* chain_state, but for the pool
          pool,          \* pending_transactions
          difficulty,    \* config.difficulty
          template,      \* the block being mined
          mined,         \* mined blocks in the hands of callers
          taken          \* transactions in the hands of callers

vars == <<now, genesis_time, chain, pool, difficulty, template, mined, taken>>

GenesisBlock(time) ==
  [parent |-> NoParent, number |-> 0, slot |-> 0, timestamp |-> time, txs |-> {}, work |-> 0]

\* timestamp_to_slot
TimestampToSlot(t) == IF t < genesis_time THEN 0 ELSE (t - genesis_time) \div SlotTime

\* A hash stands for the contents of one block.
Fresh(hash) == hash \notin DOMAIN chain.blocks /\ \A m \in mined : m.hash # hash

-----------------------------------------------------------------------------
Init ==
  /\ now = 0
  /\ genesis_time = 0
  /\ chain = [canonical |-> <<GenesisHash>>,
              blocks |-> [h \in {GenesisHash} |-> GenesisBlock(0)],
              height |-> 0, slot |-> 0]
  /\ pool = <<>>
  /\ difficulty \in Difficulties
  /\ template = Idle
  /\ mined = {}
  /\ taken = {}

Tick ==
  /\ now < MaxTime
  /\ now' = now + 1
  /\ UNCHANGED <<genesis_time, chain, pool, difficulty, template, mined, taken>>

\* add_pending_utxo_transaction; every transaction is submitted once.
Submitted ==
  {pool[i] : i \in DOMAIN pool} \cup taken
    \cup (UNION {chain.blocks[h].txs : h \in DOMAIN chain.blocks})
    \cup (UNION {m.block.txs : m \in mined})
    \cup (IF template = Idle THEN {} ELSE template.txs)

AddPending(t) ==
  /\ t \notin Submitted
  /\ pool' = Append(pool, t)
  /\ UNCHANGED <<now, genesis_time, chain, difficulty, template, mined, taken>>

\* Mutant: the transactions are copied and stay in the pool.
CopyPending ==
  /\ taken = {}
  /\ LET keep == IF Len(pool) < TakeLimit THEN 0 ELSE Len(pool) - TakeLimit
     IN  taken' = {pool[i] : i \in (keep + 1) .. Len(pool)}
  /\ UNCHANGED <<now, genesis_time, chain, pool, difficulty, template, mined>>

\* get_pending_utxo_transactions: split_off takes the newest ones, and they
\* leave the pool for good.
TakePending ==
  /\ taken = {}
  /\ LET keep == IF Len(pool) < TakeLimit THEN 0 ELSE Len(pool) - TakeLimit
     IN  /\ taken' = {pool[i] : i \in (keep + 1) .. Len(pool)}
         /\ pool' = SubSeq(pool, 1, keep)
  /\ UNCHANGED <<now, genesis_time, chain, difficulty, template, mined>>

\* mine_utxo_block, to the slot: the tip and the clock are read.
StartMining ==
  /\ template = Idle
  /\ Cardinality(mined) < MaxInHand
  /\ template' = [block |-> Template(chain, TimestampToSlot(now)), txs |-> taken]
  /\ taken' = {}
  /\ UNCHANGED <<now, genesis_time, chain, pool, difficulty, mined>>

\* mine_utxo_block, from the timestamp: the clock is read again.  The hash has
\* the zeros asked for, or more of them by chance.
FinishMining(hash, work) ==
  /\ template # Idle
  /\ Fresh(hash)
  /\ work >= difficulty
  /\ mined' = mined \cup
       {[hash |-> hash,
         block |-> [parent |-> template.block.parent, number |-> template.block.number,
                    slot |-> template.block.slot, timestamp |-> now,
                    txs |-> template.txs, work |-> work]]}
  /\ template' = Idle
  /\ UNCHANGED <<now, genesis_time, chain, pool, difficulty, taken>>

\* mine_utxo_block gives up after ten million attempts; its transactions are
\* dropped.
FailMining ==
  /\ template # Idle
  /\ difficulty > 0
  /\ template' = Idle
  /\ UNCHANGED <<now, genesis_time, chain, pool, difficulty, mined, taken>>

\* validate_utxo_block
Valid(block) ==
  /\ Cardinality(block.txs) <= MaxTxs
  /\ Strict => block.slot = TimestampToSlot(block.timestamp)
  /\ block.timestamp <= now + 5 * SlotTime
  /\ block.work >= difficulty
  /\ ExtendsParent(chain, block)

\* propose_utxo_block: an invalid block is refused.
ProposeBlock(m) ==
  /\ template = Idle
  /\ m \in mined
  /\ mined' = mined \ {m}
  /\ chain' = IF Valid(m.block) THEN Push(chain, m.hash, m.block) ELSE chain
  /\ UNCHANGED <<now, genesis_time, pool, difficulty, template, taken>>

\* add_utxo_block, which validates nothing.
AddBlock(m) ==
  /\ template = Idle
  /\ m \in mined
  /\ mined' = mined \ {m}
  /\ chain' = Push(chain, m.hash, m.block)
  /\ UNCHANGED <<now, genesis_time, pool, difficulty, template, taken>>

SetDifficulty(d) ==
  /\ template = Idle
  /\ difficulty' = d
  /\ UNCHANGED <<now, genesis_time, chain, pool, template, mined, taken>>

\* Mutant: new_as_validator is used, which starts an empty chain.
RestoreAfresh ==
  /\ genesis_time' = now
  /\ chain' = [canonical |-> <<GenesisHash>>,
               blocks |-> [h \in {GenesisHash} |-> GenesisBlock(now)],
               height |-> 0, slot |-> 0]
  /\ pool' = <<>>
  /\ template' = Idle
  /\ mined' = {}
  /\ taken' = {}
  /\ UNCHANGED <<now, difficulty>>

\* new_with_restored_state_and_blocks, with the state of the process that
\* stopped: the slot clock starts again, the genesis block is made anew, and
\* the pool is lost.
Restore ==
  /\ genesis_time' = now
  /\ chain' = [chain EXCEPT !.blocks[GenesisHash] = GenesisBlock(now)]
  /\ pool' = <<>>
  /\ template' = Idle
  /\ mined' = {}
  /\ taken' = {}
  /\ UNCHANGED <<now, difficulty>>

Next ==
  \/ Tick
  \/ \E t \in PoolTxs : AddPending(t)
  \/ TakePending
  \/ StartMining
  \/ \E hash \in Hashes, work \in Difficulties : FinishMining(hash, work)
  \/ FailMining
  \/ \E m \in mined : ProposeBlock(m) \/ AddBlock(m)
  \/ \E d \in Difficulties : SetDifficulty(d)
  \/ Restore

Spec == Init /\ [][Next]_vars

-----------------------------------------------------------------------------
(***************************************************************************)
(* Properties                                                              *)
(***************************************************************************)
Block ==
  [parent : Hashes \cup {GenesisHash, NoParent}, number : Nat, slot : Nat, timestamp : Nat,
   txs : SUBSET PoolTxs, work : Nat]

\* Every variable has its type.
TypeOK ==
  /\ now \in Nat /\ genesis_time \in Nat /\ difficulty \in Nat
  /\ chain.canonical \in Seq(Hashes \cup {GenesisHash})
  /\ DOMAIN chain.blocks \subseteq Hashes \cup {GenesisHash}
  /\ \A h \in DOMAIN chain.blocks : chain.blocks[h] \in Block
  /\ chain.height \in Nat /\ chain.slot \in Nat
  /\ pool \in Seq(PoolTxs)
  /\ template # Idle =>
       /\ template.block \in [parent : Hashes \cup {GenesisHash}, number : Nat, slot : Nat]
       /\ template.txs \subseteq PoolTxs
  /\ mined \subseteq [hash : Hashes, block : Block]
  /\ taken \subseteq PoolTxs

\* Every variable has its type.  The blocks form a tree under the genesis, in
\* which numbers go up by one and slots go up, although add_utxo_block checks
\* none of it and the slot clock starts again with every restart; and the height
\* and the slot, kept beside the chain and restored on their own, are those of
\* the last block of the canonical chain.
BlocksFormTree == TypeOK /\ IsBlockTree(chain) /\ TipIsCurrent(chain)

\* A transaction of the pool ends up in one block at most, and never while it
\* still waits in the pool.
MinedOnce ==
  LET known == DOMAIN chain.blocks
  IN  /\ \A g, h \in known : g # h => chain.blocks[g].txs \cap chain.blocks[h].txs = {}
      /\ \A h \in known, i \in DOMAIN pool : pool[i] \notin chain.blocks[h].txs

\* A block mined on the tip of the chain passes validation, however long its
\* callers hold it, unless the difficulty was raised since.  (With the strict
\* slot clock it does not: the slot a block gets may be ahead of the clock.)
TipBlockIsValid ==
  \A m \in mined :
    ~Strict /\ m.block.parent = Tip(chain) /\ m.block.work >= difficulty => Valid(m.block)

\* No step takes a block from the canonical chain or changes one, a restart
\* included.
ChainGrows ==
  /\ Len(chain'.canonical) >= Len(chain.canonical)
  /\ SubSeq(chain'.canonical, 1, Len(chain.canonical)) = chain.canonical
  /\ \A h \in DOMAIN chain.blocks \ {GenesisHash} :
       h \in DOMAIN chain'.blocks /\ chain'.blocks[h] = chain.blocks[h]

CanonicalOnlyGrows == [][ChainGrows]_vars
=============================================================================
