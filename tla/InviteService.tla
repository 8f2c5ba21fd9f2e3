--------------------------- MODULE InviteService ---------------------------
(***************************************************************************)
(* What redeeming an invite promises, whoever asks, over whatever link,    *)
(* however often: an invite is spent for one key at most, and a success is *)
(* reported only to the owner of that key.  README.md states it as         *)
(* "single-use": the pact records who redeemed a nonce, first come.        *)
(***************************************************************************)
CONSTANTS Nonces, Redeemers, None

VARIABLES
    spentBy,  \* spentBy[n]: whom invite n has admitted
    told      \* the pairs <<nonce, redeemer>> reported as a success

Init ==
    /\ spentBy = [n \in Nonces |-> None]
    /\ told = {}

Spend(n, r) ==
    /\ spentBy[n] = None
    /\ spentBy' = [spentBy EXCEPT ![n] = r]
    /\ UNCHANGED told

\* The success may be told to more than one request of the same redeemer.
Tell(n, r) ==
    /\ spentBy[n] = r
    /\ told' = told \cup {<<n, r>>}
    /\ UNCHANGED spentBy

Next == \E n \in Nonces, r \in Redeemers : Spend(n, r) \/ Tell(n, r)

Spec == Init /\ [][Next]_<<spentBy, told>>
=============================================================================
