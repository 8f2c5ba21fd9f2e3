-------------------------- MODULE MCRemoteRedeem --------------------------
(***************************************************************************)
(* A small instance of RemoteRedeem.                                       *)
(***************************************************************************)
EXTENDS RemoteRedeem

CONSTANTS a, c, p
=============================================================================
