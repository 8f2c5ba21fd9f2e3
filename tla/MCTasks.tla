------------------------------ MODULE MCTasks ------------------------------
(***************************************************************************)
(* Small instances of Tasks: two daemons, one request each at a time.      *)
(***************************************************************************)
EXTENDS Tasks, TLC

TwoPeers == {1, 2}
OneClientEach == (1 :> 1) @@ (2 :> 2)
============================================================================
