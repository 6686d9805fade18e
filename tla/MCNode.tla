------------------------------- MODULE MCNode -------------------------------
(***************************************************************************)
(* An instance of Node for TLC: three transfers, one of which asks for more *)
(* than there is, and a contract call.                                     *)
(***************************************************************************)
EXTENDS Node, TLC

CONSTANTS s1, s2, s3, c1

MCAmount == s1 :> 2 @@ s2 :> 4 @@ s3 :> 5
=============================================================================
