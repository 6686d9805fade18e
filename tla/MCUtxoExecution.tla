-------------------------- MODULE MCUtxoExecution --------------------------
(***************************************************************************)
(* An instance of UtxoExecution for TLC: a chain of two transactions, two  *)
(* that conflict with it, one of which does not leave its fee and the      *)
(* other lists the genesis twice, and one that pays into a script and has  *)
(* a validity range.                                                       *)
(***************************************************************************)
EXTENDS UtxoExecution, TLC

CONSTANTS split,   \* spends the genesis, two outputs
          short,   \* spends the genesis, and does not leave the fee it offers
          twice,   \* lists the genesis twice, and pays out more than it holds
          join,    \* spends both outputs of split
          lock,    \* spends the coinbase into a script, at slot 1 only
          block    \* mints a coinbase, which may be locked too

Open(v)   == [value |-> v, locked |-> FALSE]
Always    == 0 .. MaxSlot

MCBody ==
  split  :> [inputs |-> <<<<GenesisCall, 0>>>>, outputs |-> <<Open(3), Open(1)>>,
             fee |-> 1, range |-> Always] @@
  short  :> [inputs |-> <<<<GenesisCall, 0>>>>, outputs |-> <<Open(5)>>, fee |-> 2,
             range |-> Always] @@
  twice  :> [inputs |-> <<<<GenesisCall, 0>>, <<GenesisCall, 0>>>>, outputs |-> <<Open(9)>>,
             fee |-> 1, range |-> Always] @@
  join   :> [inputs |-> <<<<split, 0>>, <<split, 1>>>>, outputs |-> <<Open(4)>>,
             fee |-> 0, range |-> Always] @@
  lock   :> [inputs |-> <<<<block, 0>>>>, outputs |-> <<[value |-> 1, locked |-> TRUE]>>,
             fee |-> 1, range |-> {1}]

GenesisEntry(v) == [key |-> <<GenesisCall, 0>>, id |-> <<GenesisCall, 0>>, value |-> v,
                    locked |-> FALSE]

EmptyEntry == [key |-> <<GenesisCall, 1>>, id |-> <<GenesisCall, 1>>, value |-> 0,
               locked |-> FALSE]

\* One list is accepted; one is rejected at its first entry, a UTXO of value 0.
MCGenesis == {<<GenesisEntry(6)>>, <<EmptyEntry>>}

MCBatches == {<<split, join>>, <<short, twice>>}
=============================================================================
