-------------------------------- MODULE Node --------------------------------
(***************************************************************************)
(* The node, src/main.rs: one process that drives the execution layer      *)
(* (UtxoLedger) and the consensus layer (UtxoChain) and stores the chain   *)
(* in a sled database.  The command line starts one process per command;   *)
(* the process may stop at any time, and the next one finds what is        *)
(* stored.                                                                 *)
(*                                                                         *)
(* Every transaction the node builds spends the genesis UTXO.  Its hash    *)
(* holds a fresh uuid, so it is built once; a block holds one transaction  *)
(* and is known here by the hash of that transaction.                      *)
(***************************************************************************)
EXTENDS UtxoChain, FiniteSets

CONSTANTS Sends,         \* transactions of send_transaction
          Calls,         \* transactions of deploy_contract and call_contract
          Amount,        \* the amount each send transfers
          GenesisValue,  \* 10_000_000
          Fee,           \* 1000
          GenesisTx,     \* "genesis_tx"
          OpsPerProcess, \* commands a process carries out
          IOErrors,      \* whether a write to the database may fail
          Slots          \* what the slot clock may read, from the process's start

Txs == Sends \cup Calls

ASSUME NodeAssumption ==
  /\ Sends \cap Calls = {}
  /\ GenesisHash \notin Txs /\ GenesisTx \notin Txs
  /\ Amount \in [Sends -> Nat]
  /\ Fee \in Nat /\ GenesisValue \in Nat /\ Fee < GenesisValue
  /\ Slots \subseteq Nat
  /\ IOErrors \in BOOLEAN

\* Option::None; no other record of the module has this field.
None == [none |-> TRUE]

Unlocked(v) == [value |-> v, locked |-> FALSE]

\* The transaction of send_transaction pays the amount and the change; the one
\* of convert_to_utxo_transaction has no output, and so leaves the rest of the
\* genesis UTXO to nobody.  The execution slot stays at 0.
NodeBody ==
  [t \in Txs |->
     [inputs  |-> <<<<GenesisTx, 0>>>>,
      outputs |-> IF t \in Sends
                  THEN <<Unlocked(Amount[t]), Unlocked(GenesisValue - Amount[t] - Fee)>>
                  ELSE <<>>,
      fee     |-> Fee,
      range   |-> {0}]]

Ledger == INSTANCE UtxoLedger WITH Body <- NodeBody

VARIABLES phase,      \* what the process is doing
          utxo_set,   \* the UTXO set of the execution layer
          chain,      \* the chain state of the consensus layer
          hand,       \* the block a send is carrying through
          ops,        \* commands this process has begun
          built,      \* transactions built so far
          disk,       \* the database
          answered,   \* transactions whose hash was returned to the user
          succeeded,  \* transactions that were executed with success
          unsaved     \* transactions whose block, or the state with it, gave
                      \* an error when it was saved

vars == <<phase, utxo_set, chain, hand, ops, built, disk, answered, succeeded, unsaved>>

Down    == "down"
Loaded  == "loaded"     \* new() is done
Ready   == "ready"      \* initialize_genesis is done
Mined   == "mined"      \* a valid block is mined, not stored
Saved   == "saved"      \* save_block was tried
Phases  == {Down, Loaded, Ready, Mined, Saved}

GenesisBlock == [parent |-> NoParent, number |-> 0, slot |-> 0]

NewChain ==
  [canonical |-> <<GenesisHash>>, blocks |-> [h \in {GenesisHash} |-> GenesisBlock],
   height |-> 0, slot |-> 0]

Range(s) == {s[i] : i \in DOMAIN s}

-----------------------------------------------------------------------------
Init ==
  /\ phase = Down
  /\ utxo_set = Ledger!EmptySet
  /\ chain = NewChain
  /\ hand = None
  /\ ops = 0
  /\ built = {}
  /\ disk = [state |-> None, blocks |-> <<>>]
  /\ answered = {}
  /\ succeeded = {}
  /\ unsaved = {}

\* Mutant: the height is not taken over.
RestoredWithoutHeight ==
  LET s     == disk.state
      known == Range(s.canonical) \cap DOMAIN disk.blocks
  IN  [canonical |-> s.canonical,
       blocks    |-> [h \in known \cup {GenesisHash} |->
                        IF h \in known THEN disk.blocks[h] ELSE GenesisBlock],
       height    |-> 0,
       slot      |-> s.slot]

\* Mutant: the chain is made of the blocks that were loaded.
RestoredFromKnown ==
  LET s     == disk.state
      known == Range(s.canonical) \cap DOMAIN disk.blocks
  IN  [canonical |-> SelectSeq(s.canonical, LAMBDA h : h \in known \cup {GenesisHash}),
       blocks    |-> [h \in known \cup {GenesisHash} |->
                        IF h \in known THEN disk.blocks[h] ELSE GenesisBlock],
       height    |-> s.height,
       slot      |-> s.slot]

\* load_blocks_for_chain skips the blocks that are not stored; the genesis
\* block never is, and is made anew.
RestoredChain ==
  LET s     == disk.state
      known == Range(s.canonical) \cap DOMAIN disk.blocks
  IN  [canonical |-> s.canonical,
       blocks    |-> [h \in known \cup {GenesisHash} |->
                        IF h \in known THEN disk.blocks[h] ELSE GenesisBlock],
       height    |-> s.height,
       slot      |-> s.slot]

\* Mutant: what is stored is not loaded.
StartAfresh ==
  /\ phase = Down
  /\ phase' = Loaded
  /\ utxo_set' = Ledger!EmptySet
  /\ chain' = NewChain
  /\ UNCHANGED <<hand, ops, built, disk, answered, succeeded, unsaved>>

\* new_with_storage_and_p2p_config: the chain is restored, the UTXO set is new.
Start ==
  /\ phase = Down
  /\ phase' = Loaded
  /\ utxo_set' = Ledger!EmptySet
  /\ chain' = IF disk.state = None THEN NewChain ELSE RestoredChain
  /\ UNCHANGED <<hand, ops, built, disk, answered, succeeded, unsaved>>

\* The process ends, or is killed.
Stop ==
  /\ phase # Down
  /\ phase' = Down
  /\ utxo_set' = Ledger!EmptySet
  /\ chain' = NewChain
  /\ hand' = None
  /\ ops' = 0
  /\ UNCHANGED <<built, disk, answered, succeeded, unsaved>>

\* save_blockchain_state
Snapshot(set, cs) ==
  [height |-> cs.height, slot |-> cs.slot, total |-> set.total,
   utxos |-> set.utxos, canonical |-> cs.canonical]

\* An insert that is flushed; or an error, before or after the insert.
Write(before, after) ==
  {[ok |-> TRUE, db |-> after]}
    \cup (IF IOErrors THEN {[ok |-> FALSE, db |-> db] : db \in {before, after}} ELSE {})

GenesisSet ==
  [utxos |-> [id \in {<<GenesisTx, 0>>} |-> Unlocked(GenesisValue)],
   total |-> GenesisValue, forged |-> 0]

\* Mutant: the genesis is made in every process, stored state or not.
InitializeGenesisAlways ==
  /\ phase = Loaded
  /\ utxo_set' = GenesisSet
  /\ phase' = Ready
  /\ disk' = [disk EXCEPT !.state = IF @ = None THEN Snapshot(GenesisSet, chain) ELSE @]
  /\ UNCHANGED <<chain, hand, ops, built, answered, succeeded, unsaved>>

\* initialize_genesis: nothing is done when a state is stored, whether or not
\* the UTXO set holds what that state says.
InitializeGenesis ==
  /\ phase = Loaded
  /\ phase' = Ready
  /\ IF disk.state # None THEN UNCHANGED <<utxo_set, disk>>
     ELSE /\ utxo_set' = GenesisSet
          /\ disk' = [disk EXCEPT !.state = Snapshot(GenesisSet, chain)]
  /\ UNCHANGED <<chain, hand, ops, built, answered, succeeded, unsaved>>

\* initialize_genesis cannot save the state: the command fails with it, and the
\* process ends.
GenesisNotSaved ==
  /\ phase = Loaded /\ disk.state = None /\ IOErrors
  /\ phase' = Down
  /\ utxo_set' = Ledger!EmptySet
  /\ chain' = NewChain
  /\ disk' \in {w.db : w \in Write(disk, [disk EXCEPT !.state = Snapshot(GenesisSet, chain)])}
  /\ UNCHANGED <<hand, ops, built, answered, succeeded, unsaved>>

\* What send_transaction, deploy_contract and call_contract begin with: the
\* transaction is executed and, whatever its receipt says, mined on the tip.
Execute(t) ==
  LET done == Ledger!Process(utxo_set, 0, t)
  IN  /\ utxo_set' = done.set
      /\ succeeded' = IF done.receipt.success THEN succeeded \cup {t} ELSE succeeded

Begin(t) ==
  /\ phase = Ready
  /\ t \notin built
  /\ ops < OpsPerProcess
  /\ ops' = ops + 1
  /\ built' = built \cup {t}

\* send_transaction refuses an amount the genesis UTXO cannot pay.
RefuseSend(t) ==
  /\ Begin(t)
  /\ Amount[t] + Fee > GenesisValue
  /\ UNCHANGED <<phase, utxo_set, chain, hand, disk, answered, succeeded, unsaved>>

\* send_transaction, to validate_utxo_block.  A block that is not valid is
\* dropped, and the hash of the transaction is returned all the same.
SendTransaction(t, wallSlot) ==
  /\ Begin(t)
  /\ Amount[t] + Fee <= GenesisValue
  /\ Execute(t)
  /\ LET block == Template(chain, wallSlot)
     IN  IF ExtendsParent(chain, block)
         THEN /\ hand' = [tx |-> t, block |-> block]
              /\ phase' = Mined
              /\ UNCHANGED answered
         ELSE /\ answered' = answered \cup {t}
              /\ UNCHANGED <<phase, hand>>
  /\ UNCHANGED <<chain, disk, unsaved>>

\* save_block; an error is only logged.
SaveBlock ==
  /\ phase = Mined
  /\ phase' = Saved
  /\ \E w \in Write(disk, [disk EXCEPT !.blocks =
                             [h \in DOMAIN @ \cup {hand.tx} |->
                                IF h = hand.tx THEN hand.block ELSE @[h]]]) :
       /\ disk' = w.db
       /\ unsaved' = IF w.ok THEN unsaved ELSE unsaved \cup {hand.tx}
  /\ UNCHANGED <<utxo_set, chain, hand, ops, built, answered, succeeded>>

\* Mutant: the state is not saved after the block.
AddBlockOnly ==
  /\ phase = Saved
  /\ phase' = Ready
  /\ chain' = Push(chain, hand.tx, hand.block)
  /\ answered' = answered \cup {hand.tx}
  /\ hand' = None
  /\ UNCHANGED <<utxo_set, ops, built, disk, succeeded, unsaved>>

\* add_utxo_block, save_blockchain_state and the return; an error of the save
\* is only logged.
AddBlock ==
  /\ phase = Saved
  /\ phase' = Ready
  /\ chain' = Push(chain, hand.tx, hand.block)
  /\ \E w \in Write(disk, [disk EXCEPT !.state = Snapshot(utxo_set, chain')]) :
       /\ disk' = w.db
       /\ unsaved' = IF w.ok THEN unsaved ELSE unsaved \cup {hand.tx}
  /\ answered' = answered \cup {hand.tx}
  /\ hand' = None
  /\ UNCHANGED <<utxo_set, ops, built, succeeded>>

\* deploy_contract and call_contract: the block is added, and nothing is
\* stored.
CallContract(t, wallSlot) ==
  /\ Begin(t)
  /\ Execute(t)
  /\ LET block == Template(chain, wallSlot)
     IN  chain' = IF ExtendsParent(chain, block) THEN Push(chain, t, block) ELSE chain
  /\ answered' = answered \cup {t}
  /\ UNCHANGED <<phase, hand, disk, unsaved>>

Next ==
  \/ Start
  \/ Stop
  \/ InitializeGenesis
  \/ GenesisNotSaved
  \/ \E t \in Sends : RefuseSend(t)
  \/ \E t \in Sends, s \in Slots : SendTransaction(t, s)
  \/ SaveBlock
  \/ AddBlock
  \/ \E t \in Calls, s \in Slots : CallContract(t, s)

Spec == Init /\ [][Next]_vars

-----------------------------------------------------------------------------
(***************************************************************************)
(* Properties                                                              *)
(***************************************************************************)
ChainType(cs) ==
  /\ cs.canonical \in Seq(Txs \cup {GenesisHash})
  /\ DOMAIN cs.blocks \subseteq Txs \cup {GenesisHash}
  /\ \A h \in DOMAIN cs.blocks :
       cs.blocks[h] \in [parent : Txs \cup {GenesisHash, NoParent}, number : Nat, slot : Nat]
  /\ cs.height \in Nat /\ cs.slot \in Nat

\* Every variable has its type.
TypeOK ==
  /\ phase \in Phases
  /\ utxo_set.total \in Nat
  /\ \A id \in DOMAIN utxo_set.utxos : utxo_set.utxos[id].value \in Nat
  /\ ChainType(chain)
  /\ hand # None => hand.tx \in Sends
  /\ phase \in {Mined, Saved} <=> hand # None
  /\ DOMAIN disk.blocks \subseteq Sends
  /\ disk.state # None => disk.state.canonical \in Seq(Txs \cup {GenesisHash})
  /\ answered \subseteq built /\ succeeded \subseteq built /\ unsaved \subseteq built
  /\ built \subseteq Txs

IsPrefixOf(s, t) == Len(s) <= Len(t) /\ SubSeq(t, 1, Len(s)) = s

\* Whatever stops or fails, the stored chain is only ever extended.
StoredChainGrows ==
  [][disk.state # None =>
       /\ disk'.state # None
       /\ IsPrefixOf(disk.state.canonical, disk'.state.canonical)]_vars

\* The refinement mapping.  The log is the stored chain, and what counts as
\* answered are the transfers: a call of a contract is answered and never stored.
StoredLog == IF disk.state = None THEN <<>> ELSE disk.state.canonical

Log == INSTANCE DurableLog
         WITH Transfers <- Sends,
              log       <- StoredLog,
              answered  <- answered \cap Sends,
              doubtful  <- unsaved

\* The node is a log of transfers that is only appended to, and answers for what
\* is in it.
ImplementsLog == Log!Spec

\* The genesis UTXO is spent by at most one transaction, over all the processes
\* the database sees: the genesis is made once.
GenesisSpentOnce == \A t, u \in succeeded : t = u

\* As long as no block and no state failed to be saved, a transfer whose hash
\* was returned is in the stored chain, in a block that is stored.
AnsweredSendsAreStored ==
  unsaved = {} => \A t \in answered \cap Sends :
    /\ disk.state # None
    /\ t \in Range(disk.state.canonical)
    /\ t \in DOMAIN disk.blocks

\* Every variable has its type, and the process knows the block at its tip, at
\* the height and slot that were stored beside it, unless that very block gave
\* an error when it was saved: else validation refuses every block it mines from
\* then on.
TipIsKnown ==
  TypeOK /\ (phase # Down /\ Tip(chain) \notin unsaved => TipIsCurrent(chain))

\* Every block known stands at its number, on the block before it, and in a later
\* slot than those known before it.
IsLinear(cs) ==
  \A i \in DOMAIN cs.canonical : cs.canonical[i] \in DOMAIN cs.blocks =>
    LET block == cs.blocks[cs.canonical[i]]
    IN  /\ block.number = i - 1
        /\ i > 1 => block.parent = cs.canonical[i - 1]
        /\ \A j \in 1 .. i - 1 :
             cs.canonical[j] \in DOMAIN cs.blocks =>
               cs.blocks[cs.canonical[j]].slot < block.slot

\* The process knows no block out of the line of its chain, although the chain it
\* was restored from may have gaps, and the block in hand may be lost.
ChainIsLinear == IsLinear(chain)
=============================================================================
