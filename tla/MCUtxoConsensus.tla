-------------------------- MODULE MCUtxoConsensus --------------------------
(***************************************************************************)
(* Instances of UtxoConsensus for TLC.                                     *)
(***************************************************************************)
EXTENDS UtxoConsensus, TLC

HashSymmetry == Permutations(Hashes) \cup Permutations(PoolTxs)
=============================================================================
