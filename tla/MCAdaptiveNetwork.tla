------------------------- MODULE MCAdaptiveNetwork -------------------------
(***************************************************************************)
(* Instances of AdaptiveNetwork for TLC.                                   *)
(***************************************************************************)
EXTENDS AdaptiveNetwork
=============================================================================
