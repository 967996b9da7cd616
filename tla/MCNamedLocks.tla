---------------------------- MODULE MCNamedLocks ----------------------------
(* Instances of NamedLocks for TLC. *)
EXTENDS NamedLocks, TLC

CONSTANTS s1, s2, w1, w2, w3

TwoNames == 1 .. 2

\* Two writers in one server, and one in another.
TwoAndOne == (w1 :> s1) @@ (w2 :> s1) @@ (w3 :> s2)

\* Two rows of the later series; the earlier name is a lock without numbers.
TwoRows == (1 :> 0) @@ (2 :> 2)

AllDialects == {"postgres", "mysql", "sqlite"}
=============================================================================
