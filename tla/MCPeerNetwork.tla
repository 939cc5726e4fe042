---------------------------- MODULE MCPeerNetwork ----------------------------
(* Two peers that pair, with one connection to the relay replaced. *)
EXTENDS PeerNetwork
=============================================================================
