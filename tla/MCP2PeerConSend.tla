--------------------------- MODULE MCP2PeerConSend ---------------------------
(***************************************************************************)
(* Instances of P2PeerConSend: four application messages, two of one       *)
(* priority, one more urgent and one in between, beside the handshake.     *)
(***************************************************************************)
EXTENDS P2PeerConSend

CONSTANTS m1, m2, m3, m4

MCApps == {m1, m2, m3, m4}
MCPri  == [m \in MCApps \cup {KeyX, Login} |-> IF m = m3 THEN 3 ELSE IF m = m4 THEN 5 ELSE 7]
=============================================================================
