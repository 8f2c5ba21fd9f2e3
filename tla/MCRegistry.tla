----------------------------- MODULE MCRegistry -----------------------------
(***************************************************************************)
(* A small host: two aliases, two pacts, two requests at once, one crash.  *)
(***************************************************************************)
EXTENDS Registry, TLC

Symmetric == Permutations(Aliases) \cup Permutations(Pacts) \cup Permutations(Workers)
=============================================================================
