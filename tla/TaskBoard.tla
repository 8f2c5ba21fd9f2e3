----------------------------- MODULE TaskBoard -----------------------------
(***************************************************************************)
(* What the task routes promise an agent (README, "Task state machine"):   *)
(* a task is open, claimed by one daemon, or complete; completion is       *)
(* final.  No cores, views or entry ids: one shared board.                 *)
(***************************************************************************)
CONSTANTS Peers, None

VARIABLES status, claimed_by, assigned_to

board == <<status, claimed_by, assigned_to>>

Init ==
    /\ status = "open"
    /\ claimed_by = None
    /\ assigned_to \in Peers \cup {None}

Claim(p) ==
    /\ status = "open"
    /\ assigned_to \in {None, p}
    /\ status' = "claimed"
    /\ claimed_by' = p
    /\ UNCHANGED assigned_to

\* Released by the claimer, or past its TTL.
Reopen ==
    /\ status = "claimed"
    /\ status' = "open"
    /\ claimed_by' = None
    /\ UNCHANGED assigned_to

\* By the claimer, or by anyone while the task is open (skip claim).
Complete ==
    /\ status \in {"open", "claimed"}
    /\ status' = "complete"
    /\ UNCHANGED <<claimed_by, assigned_to>>

Next == (\E p \in Peers : Claim(p)) \/ Reopen \/ Complete

Spec == Init /\ [][Next]_board

============================================================================
