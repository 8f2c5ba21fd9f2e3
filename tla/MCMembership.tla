---------------------------- MODULE MCMembership ----------------------------
(***************************************************************************)
(* Small instances of Membership: the creator and the daemons it admits.   *)
(***************************************************************************)
EXTENDS Membership, TLC

CONSTANTS c, a, b, n1, n2

Others == Permutations(Daemons \ {Creator})
=============================================================================
