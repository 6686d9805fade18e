---------------------------- MODULE MCP2PNetwork ----------------------------
(***************************************************************************)
(* An instance of P2PNetwork for TLC.                                      *)
(***************************************************************************)
EXTENDS P2PNetwork
=============================================================================
