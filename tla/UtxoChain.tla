------------------------------ MODULE UtxoChain ------------------------------
(***************************************************************************)
(* The chain state of the eUTXO consensus layer, and what mining,          *)
(* validating and adding a block do with it                                *)
(* (crates/consensus/src/consensus_engine.rs).                             *)
(*                                                                         *)
(* A chain state is a record:                                              *)
(*   canonical  canonical_chain, the sequence of block hashes              *)
(*   blocks     the blocks stored, a function on their hashes              *)
(*   height     the height                                                 *)
(*   slot       current_slot                                               *)
(* and a block a record of at least its parent, its number and its slot.   *)
(***************************************************************************)
EXTENDS Integers, Sequences

CONSTANT GenesisHash   \* "genesis_utxo_block_hash"

\* create_genesis_utxo_block; its parent hash, "0x0", is the hash of nothing.
CONSTANT NoParent

Tip(cs) ==
  IF cs.canonical = <<>> THEN GenesisHash ELSE cs.canonical[Len(cs.canonical)]

Later(s, t) == IF s < t THEN t ELSE s

\* Mutant: the wall clock alone gives the slot.
TemplateByClock(cs, wallSlot) ==
  [parent |-> Tip(cs), number |-> cs.height + 1, slot |-> wallSlot]

\* The template mine_utxo_block builds on the tip: the next number, and a slot
\* later than the tip's and not earlier than the wall clock's.
Template(cs, wallSlot) ==
  [parent |-> Tip(cs), number |-> cs.height + 1, slot |-> Later(cs.slot + 1, wallSlot)]

\* The checks of validate_utxo_block that look at the parent.
ExtendsParent(cs, block) ==
  /\ block.parent \in DOMAIN cs.blocks
  /\ block.number = cs.blocks[block.parent].number + 1
  /\ block.slot > cs.blocks[block.parent].slot

\* Mutant: the block is pushed, and the height and the slot stay.
PushOnly(cs, hash, block) ==
  [cs EXCEPT !.canonical = Append(@, hash),
             !.blocks = [h \in DOMAIN @ \cup {hash} |-> IF h = hash THEN block ELSE @[h]]]

\* add_utxo_block.  It looks neither at the parent nor at what is there.
Push(cs, hash, block) ==
  [canonical |-> Append(cs.canonical, hash),
   blocks    |-> [h \in DOMAIN cs.blocks \cup {hash} |->
                    IF h = hash THEN block ELSE cs.blocks[h]],
   height    |-> block.number,
   slot      |-> block.slot]

\* Every block but the genesis stands one number above its parent, in a later
\* slot than its parent.
IsBlockTree(cs) ==
  /\ GenesisHash \in DOMAIN cs.blocks
  /\ \A h \in DOMAIN cs.blocks \ {GenesisHash} : ExtendsParent(cs, cs.blocks[h])

\* The height and the slot are those of the tip.
TipIsCurrent(cs) ==
  /\ Tip(cs) \in DOMAIN cs.blocks
  /\ cs.height = cs.blocks[Tip(cs)].number
  /\ cs.slot = cs.blocks[Tip(cs)].slot
=============================================================================
