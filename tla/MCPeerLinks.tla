---------------------------- MODULE MCPeerLinks ----------------------------
(***************************************************************************)
(* A small instance of PeerLinks.                                          *)
(***************************************************************************)
EXTENDS PeerLinks

CONSTANTS l1, k1
=============================================================================
