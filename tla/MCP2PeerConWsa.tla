---------------------------- MODULE MCP2PeerConWsa ----------------------------
(* A service and a client, two sources and the one that can not be named. *)
EXTENDS P2PeerConWsa

BothModes == {"SERVICE", "CLIENT"}
===============================================================================
