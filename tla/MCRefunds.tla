----------------------------- MODULE MCRefunds -----------------------------
(* Instances of Refunds for TLC. *)
EXTENDS Refunds, TLC

CONSTANTS k1, k2, d1

Alike == Permutations({k1, k2}) \cup Permutations(Workers)

\* Two units each: one made at the desk may be taken for one that was asked.
Amounts == (k1 :> 2) @@ (k2 :> 2) @@ (d1 :> 2)
=============================================================================
