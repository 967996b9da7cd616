----------------------------- MODULE MCFirstRun -----------------------------
(* Instances of FirstRun for TLC. *)
EXTENDS FirstRun, TLC

CONSTANTS new, old

\* The old version has one migration and one pair less.
Versions == (new :> 2) @@ (old :> 1)
Seeds == (new :> {1, 2}) @@ (old :> {1})

\* Two statements each: a pass may stop between them, or between the migrations.
Statements == <<2, 2>>
=============================================================================
