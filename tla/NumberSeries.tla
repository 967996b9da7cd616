---------------------------- MODULE NumberSeries ----------------------------
(***************************************************************************)
(* What a write under named locks promises, with no queues, connections or *)
(* databases in sight: writers are inside their names one at a time, and a *)
(* row gets the next number of each series it was inside when it commits.  *)
(* NamedLocks implements this.                                             *)
(***************************************************************************)
EXTENDS Naturals

CONSTANTS Writers, Names

VARIABLES inside,    \* the names each writer is inside of; {} when it is outside
          numbers,   \* the numbers committed in each series
          rows       \* how many rows carry them

vars == <<inside, numbers, rows>>

Init == /\ inside = [w \in Writers |-> {}]
        /\ numbers = [n \in Names |-> {}]
        /\ rows = [n \in Names |-> 0]

\* w comes to be inside S too, which nobody else is inside of.
Enter(w, S) ==
  /\ S # {} /\ \A v \in Writers \ {w} : inside[v] \cap S = {}
  /\ inside' = [inside EXCEPT ![w] = @ \cup S]
  /\ UNCHANGED <<numbers, rows>>

\* Some writers leave, several when a server dies, and nothing they did stays.
Leave(V) ==
  /\ inside' = [w \in Writers |-> IF w \in V THEN {} ELSE inside[w]]
  /\ UNCHANGED <<numbers, rows>>

\* w commits a row of each series in S, with the next number.
Number(w, S) ==
  /\ S \subseteq inside[w]
  /\ numbers' = [n \in Names |-> IF n \in S THEN numbers[n] \cup {rows[n] + 1} ELSE numbers[n]]
  /\ rows' = [n \in Names |-> IF n \in S THEN rows[n] + 1 ELSE rows[n]]
  /\ inside' = [inside EXCEPT ![w] = {}]

Next == \/ \E V \in SUBSET Writers : Leave(V)
        \/ \E w \in Writers, S \in SUBSET Names : Enter(w, S) \/ Number(w, S)

Spec == Init /\ [][Next]_vars
=============================================================================
