----------------------------- MODULE MCPactInfo -----------------------------
(***************************************************************************)
(* A small instance of PactInfo: one pact name to change to, two agent     *)
(* names, two saves at once.                                               *)
(***************************************************************************)
EXTENDS PactInfo

TwoSlots == 1..2
=============================================================================
