-------------------------- MODULE MCPeerDiscovery --------------------------
(***************************************************************************)
(* Instances of PeerDiscovery for TLC.                                     *)
(***************************************************************************)
EXTENDS PeerDiscovery
=============================================================================
