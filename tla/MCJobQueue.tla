----------------------------- MODULE MCJobQueue -----------------------------
(* Instances of JobQueue for TLC. *)
EXTENDS JobQueue, TLC

\* Rows, and processes, are told apart by their names only.
JobsAndWorkers == Permutations(Jobs) \cup Permutations(Workers)
=============================================================================
