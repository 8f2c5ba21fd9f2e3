----------------------------- MODULE MCProcesses -----------------------------
(***************************************************************************)
(* One host: four processes, two terminals, one pact, two kills.          *)
(***************************************************************************)
EXTENDS Processes, TLC

Symmetric == Permutations(Cmds)
==============================================================================
