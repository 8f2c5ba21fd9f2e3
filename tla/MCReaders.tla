----------------------------- MODULE MCReaders -----------------------------
(***************************************************************************)
(* A small pact: four entries of two types, in pages of one.                *)
(***************************************************************************)
EXTENDS Readers, TLC

TwoTypes == <<"skill", "task">>
TypeOfEach == (1 :> "skill") @@ (2 :> "task") @@ (3 :> "skill")
               @@ (4 :> "skill")

\* Skills 1 and 3 have one name and version.
FileOfEach == (1 :> "f") @@ (3 :> "f") @@ (4 :> "g")
=============================================================================
