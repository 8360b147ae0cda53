---------------------------- MODULE MCP2PeerConLogin ----------------------------
(* Every pair of policies. *)
EXTENDS P2PeerConLogin

MCPolicies == AllPolicies
===============================================================================
