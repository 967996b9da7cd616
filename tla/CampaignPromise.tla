--------------------------- MODULE CampaignPromise ---------------------------
(***************************************************************************)
(* What a campaign run promises whoever pressed Send, with no batches,     *)
(* claims or crashes in sight: everybody of the audience is mailed at most *)
(* once, only while the run is open, and a run that says it was sent has   *)
(* left nobody out: it mailed them or wrote down why not.  CampaignRun     *)
(* implements this.                                                        *)
(***************************************************************************)

CONSTANTS People      \* the audience

VARIABLES mailed,     \* whose message is in the mail queue
          excused,    \* who is written down as skipped or failed
          phase       \* what the run says of itself

vars == <<mailed, excused, phase>>

Init == mailed = {} /\ excused = {} /\ phase = "waiting"

\* Somebody is mailed, or excused, while the run is open.
Mail(p) ==
  /\ phase = "open" /\ p \notin mailed \cup excused
  /\ mailed' = mailed \cup {p}
  /\ UNCHANGED <<excused, phase>>

Excuse(p) ==
  /\ p \notin mailed \cup excused
  /\ phase \notin {"waiting", "sent"}
  /\ excused' = excused \cup {p}
  /\ UNCHANGED <<mailed, phase>>

\* The operator, or the first batch, moves the run.
Move(next) ==
  /\ phase \in {"waiting", "open", "paused"}
  /\ next \in {"waiting", "open", "paused"}
  /\ phase # "waiting" => next # "waiting"
  /\ phase' = next
  /\ UNCHANGED <<mailed, excused>>

\* It says it was sent: nobody is left out.
Finish ==
  /\ phase = "open"
  /\ mailed \cup excused = People
  /\ phase' = "sent"
  /\ UNCHANGED <<mailed, excused>>

\* It is stopped, refused or cancelled; nobody is mailed after this.
Halt ==
  /\ phase' = "halted"
  /\ UNCHANGED <<mailed, excused>>

Next ==
  \/ \E p \in People : Mail(p) \/ Excuse(p)
  \/ \E next \in {"waiting", "open", "paused"} : Move(next)
  \/ Finish \/ Halt

Spec == Init /\ [][Next]_vars
=============================================================================
