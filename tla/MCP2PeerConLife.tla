--------------------------- MODULE MCP2PeerConLife ---------------------------
(* Connections to one peer. *)
EXTENDS P2PeerConLife

OnePeer == [c \in Connections |-> "peer"]
=============================================================================
