--------------------------- MODULE MigratedStore ---------------------------
(***************************************************************************)
(* What a server may rely on when it starts: the migrations the meta store *)
(* says it has are applied in order and never taken back, and a server     *)
(* serves only on a store that has every migration it knows.               *)
(***************************************************************************)
EXTENDS Naturals

CONSTANTS
  Processes,
  Newest,   \* migrations are 1 .. Newest, in order
  Knows     \* how many of them each process knows

VARIABLES
  whole,    \* the migrations the store has
  serving   \* the processes that serve

storeVars == <<whole, serving>>

Init == whole = {} /\ serving = {}

\* A pass adds what comes next, one migration or all of them at once.
Migrate ==
  /\ \E n \in 1 .. Newest : whole' = 1 .. n
  /\ whole \subseteq whole' /\ whole # whole'
  /\ UNCHANGED serving

Serve(p) ==
  /\ p \notin serving /\ 1 .. Knows[p] \subseteq whole
  /\ serving' = serving \cup {p}
  /\ UNCHANGED whole

Stop(p) ==
  /\ p \in serving
  /\ serving' = serving \ {p}
  /\ UNCHANGED whole

Next == Migrate \/ \E p \in Processes : Serve(p) \/ Stop(p)

Spec == Init /\ [][Next]_storeVars
=============================================================================
