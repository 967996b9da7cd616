----------------------------- MODULE MCCheckout -----------------------------
(* Instances of Checkout for TLC. *)
EXTENDS Checkout, TLC

Alike == Permutations(Attempts) \cup Permutations(Customers)
           \cup Permutations(Settlers) \cup Permutations(Recorders)
=============================================================================
