---------------------------- MODULE MCSettlement ----------------------------
(***************************************************************************)
(* Instances of Settlement for TLC.                                        *)
(***************************************************************************)
EXTENDS Settlement, TLC

CONSTANTS b1, b2

\* The proofs verify_fraud_proof tells apart: one that is upheld against b1
\* (and not against b2), and one whose state roots agree.
MCProofs ==
  {[rootsDiffer |-> TRUE,  hasData |-> TRUE,  batch |-> b1],
   [rootsDiffer |-> FALSE, hasData |-> TRUE,  batch |-> b1]}

\* Only b1 has a proof of its own: no symmetry between batches.
ContentSymmetry == Permutations(Contents)
=============================================================================
