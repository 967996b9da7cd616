------------------------------ MODULE Checkout ------------------------------
(***************************************************************************)
(* Taking a payment online: starting a checkout, settling it from the      *)
(* provider's own status (apps/server/src/payments/checkout.ts), recording *)
(* it in the shop's database (record.ts) and the sweeps under both         *)
(* (sweep.ts), over the attempts table (packages/meta/src/repos/           *)
(* payments.ts).                                                           *)
(*                                                                         *)
(* One payable, one mode, live.  A request of a customer, a settle and a   *)
(* run of the record job are processes: each statement against a database  *)
(* and each call to the provider is a step, and anything may happen        *)
(* between two of them.  The provider is external: its pages take money    *)
(* whenever the customer pays, and its answers may be lost.                *)
(*                                                                         *)
(* Two ages of the code are taken at their word.  A page ends within the   *)
(* two days of MAX_CHECKOUT_LIFE_MS ("a Stripe page lasts a day at most"), *)
(* and the sweep, hourly, has asked about it by then: so neither the sweep *)
(* nor endAtProvider tells an attempt's age here.  And no request is at    *)
(* its attempt for the quarter of an hour after which abandonStale lets    *)
(* the attempt go.                                                         *)
(***************************************************************************)
EXTENDS Naturals, FiniteSetsExt

CONSTANTS
  Attempts,    \* the rows of the attempts table, made or not
  Customers,   \* requests that press Pay
  Settlers,    \* settles: of the return page, a webhook's job or the sweep
  Recorders,   \* runs of the record job
  NoAttempt,
  Owed,        \* what the payable owes at first, in the currency's units
  MaxTries,    \* captures tried of one attempt are counted up to here
  MaxFaults,   \* faults of the environment in one behaviour
  Faults       \* which faults this instance has

FaultKinds ==
  { "crash",     \* a process dies between two statements
    "unsaid",    \* the provider's answer is lost, or it cannot be asked
    "refused",   \* the provider makes no checkout, or one on a host it never declared
    "failed",    \* the shop's database cannot be written now
    "rule",      \* its table refuses the payment
    "dropped",   \* a record job is dead-lettered or cancelled
    "twice",     \* a record job is reclaimed while its first run goes on
    "byhand",    \* a person records a payment of the same payable
    "other" }    \* a customer comes back and chooses another service

ASSUME CheckoutAssumption ==
  /\ NoAttempt \notin Attempts
  /\ Owed \in Nat /\ MaxTries \in Nat /\ MaxFaults \in Nat
  /\ Faults \subseteq FaultKinds

VARIABLES
  attempt,   \* the attempts table
  page,      \* the provider's checkouts
  rows,      \* attempts whose id a payment row of the shop carries
  byHand,    \* what people recorded for the payable
  queued,    \* attempts with a record job in the queue
  req,       \* the requests
  ask,       \* the settles
  rec,       \* the record job's runs
  faults     \* how many faults there were

vars == <<attempt, page, rows, byHand, queued, req, ask, rec, faults>>

-----------------------------------------------------------------------------
(* The attempts table *)

\* ATTEMPT_STATES, and a row not made yet.  `expired` stands for `cancelled` too.
States == { "none", "creating", "open", "processing", "succeeded", "failed", "expired",
            "abandoned", "recording", "recorded", "record_refused" }

\* OPEN_ATTEMPT_STATES: an attempt in these holds its payable's slot.
OpenStates == { "creating", "open", "processing", "succeeded", "recording" }

\* Money was taken, and the record job has it or had it.
TakenStates == { "succeeded", "recording", "recorded", "record_refused" }

\* ATTEMPT_MOVES: the states a move may come from.
Moves(to) ==
  CASE to = "open"           -> { "creating" }
    [] to = "processing"     -> { "open" }
    [] to = "succeeded"      -> { "open", "processing", "expired", "failed" }
    [] to = "failed"         -> { "creating", "open", "processing" }
    [] to = "expired"        -> { "open", "processing" }
    [] to = "recording"      -> { "succeeded" }
    [] to = "recorded"       -> { "recording", "record_refused" }
    [] to = "record_refused" -> { "recording" }

\* The table after the one statement of `move`: the compare-and-set, and the
\* slot that is let go with the open states.
Moved(a, to) ==
  IF attempt[a].state \in Moves(to)
  THEN [attempt EXCEPT ![a] = [@ EXCEPT !.state = to, !.slot = attempt[a].slot /\ to \in OpenStates]]
  ELSE attempt

Holders == { a \in Attempts : attempt[a].slot }

Made == { a \in Attempts : attempt[a].state # "none" }

\* What `resolvePayable` reads as due: never below nothing.
Paid == MapThenSumSet(LAMBDA a : attempt[a].amount, rows) + byHand
Due == IF Paid \in 0 .. Owed THEN Owed - Paid ELSE 0

NoRow == [state |-> "none", slot |-> FALSE, ref |-> FALSE, url |-> FALSE, amount |-> 0,
          flag |-> FALSE, checked |-> FALSE, try |-> 0]
NoPage == [state |-> "none", shown |-> FALSE, declined |-> {}]
NoRequest == [step |-> "idle", due |-> 0, held |-> NoAttempt, left |-> {}]
NoAsk == [step |-> "idle", a |-> NoAttempt, seen |-> "none", try |-> 0, owes |-> FALSE, answer |-> "none", left |-> {}]
NoRun == [step |-> "idle", a |-> NoAttempt, due |-> 0]

PageStates == { "none", "open", "approved", "declined", "processing", "paid", "ended" }

Row == [state : States, slot : BOOLEAN, ref : BOOLEAN, url : BOOLEAN, amount : 0 .. Owed,
        flag : BOOLEAN, checked : BOOLEAN, try : 0 .. MaxTries]
Page == [state : PageStates, shown : BOOLEAN, declined : SUBSET (0 .. MaxTries)]
Pressed == [step : {"idle", "held", "ending", "expire", "recent", "declined", "create", "call", "opened", "failing", "refusing"},
            due : 0 .. Owed, held : Attempts \cup {NoAttempt}, left : SUBSET Attempts]
Asked == [step : {"idle", "call", "retry", "apply", "lock", "take", "takeback", "flag", "queue"},
          a : Attempts \cup {NoAttempt}, seen : States, try : 0 .. MaxTries, owes : BOOLEAN,
          answer : {"none", "pending", "processing", "succeeded", "failed", "expired"}, left : SUBSET Attempts]
Run == [step : {"idle", "resolve", "look", "write", "refuse", "finish"},
        a : Attempts \cup {NoAttempt}, due : 0 .. Owed]

TypeOK ==
  /\ attempt \in [Attempts -> Row]
  /\ page \in [Attempts -> Page]
  /\ rows \subseteq Attempts /\ byHand \in Nat /\ queued \subseteq Attempts
  /\ req \in [Customers -> Pressed]
  /\ ask \in [Settlers -> Asked]
  /\ rec \in [Recorders -> Run]
  /\ faults \in 0 .. MaxFaults

Init ==
  /\ attempt = [a \in Attempts |-> NoRow]
  /\ page = [a \in Attempts |-> NoPage]
  /\ rows = {} /\ byHand = 0 /\ queued = {} /\ faults = 0
  /\ req = [c \in Customers |-> NoRequest]
  /\ ask = [s \in Settlers |-> NoAsk]
  /\ rec = [r \in Recorders |-> NoRun]

\* Something of this kind goes wrong.
Fault(kind) == kind \in Faults /\ faults < MaxFaults /\ faults' = faults + 1

-----------------------------------------------------------------------------
(* The provider (external) *)

\* Pages that may still take money.
Live == { a \in Attempts : page[a].state \in {"open", "approved", "declined"} }

\* How a page stands, as `status` answers.
Status(a) ==
  CASE page[a].state \in {"open", "approved"} -> "pending"
    [] page[a].state = "declined"             -> "failed"
    [] page[a].state = "processing"           -> "processing"
    [] page[a].state = "paid"                 -> "succeeded"
    [] page[a].state \in {"none", "ended"}    -> "expired"

\* The customer pays on a page shown to them: at once, by a bank that takes its
\* time, by approving a capture, or with a card that is declined.
Pay(a) ==
  /\ page[a].shown /\ page[a].state \in {"open", "declined"}
  /\ \E to \in {"paid", "processing", "approved", "declined"} \ {page[a].state} :
       page' = [page EXCEPT ![a].state = to]
  /\ UNCHANGED <<attempt, rows, byHand, queued, req, ask, rec, faults>>

\* The bank answers.
BankSays(a) ==
  /\ page[a].state = "processing"
  /\ \E to \in {"paid", "ended"} : page' = [page EXCEPT ![a].state = to]
  /\ UNCHANGED <<attempt, rows, byHand, queued, req, ask, rec, faults>>

\* A page nobody paid on ends by itself.
Lapse(a) ==
  /\ a \in Live /\ page' = [page EXCEPT ![a].state = "ended"]
  /\ UNCHANGED <<attempt, rows, byHand, queued, req, ask, rec, faults>>

\* What `expire` answers of a page: ended, already completed, or nothing usable
\* (an approved payment still waits on the customer).
Ending(a) ==
  CASE page[a].state \in {"open", "declined", "ended", "none"} -> "ended"
    [] page[a].state = "approved"                              -> "unknown"
    [] page[a].state \in {"processing", "paid"}                -> "completed"

\* The provider is asked to end a's page: what it answers, and the page after.
Expire(a, answer) ==
  \/ /\ answer = Ending(a)
     /\ page' = IF answer = "ended" THEN [page EXCEPT ![a].state = "ended"] ELSE page
     /\ UNCHANGED faults
  \/ /\ Fault("unsaid") /\ answer = "unknown"
     /\ \/ UNCHANGED page
        \/ Ending(a) = "ended" /\ page' = [page EXCEPT ![a].state = "ended"]

-----------------------------------------------------------------------------
(* Starting a checkout: a customer pressed Pay *)

Goes(c, step) == req' = [req EXCEPT ![c].step = step]
Answered(c) == req' = [req EXCEPT ![c] = NoRequest]

\* The page's request reads what is due, which is what will be asked.
Press(c) ==
  /\ req[c].step = "idle" /\ Due > 0
  /\ req' = [req EXCEPT ![c] = [NoRequest EXCEPT !.step = "held", !.due = Due]]
  /\ UNCHANGED <<attempt, page, rows, byHand, queued, ask, rec, faults>>

\* start: the attempt that holds the payable is read.  One being made or in
\* progress ends the request, and an open one of this amount, at the service the
\* customer chose, is used again.
LookHeld(c) ==
  /\ req[c].step = "held"
  /\ \/ Holders = {} /\ Goes(c, "recent") /\ UNCHANGED faults
     \/ \E a \in Holders :
          LET same == attempt[a].amount = req[c].due /\ attempt[a].url
              ToEnd == attempt[a].state = "open" /\ req' = [req EXCEPT ![c] = [@ EXCEPT !.step = "ending", !.held = a]]
          IN \/ (attempt[a].state = "open" => same) /\ Answered(c) /\ UNCHANGED faults
             \/ ~same /\ ToEnd /\ UNCHANGED faults
             \/ Fault("other") /\ ToEnd
  /\ UNCHANGED <<attempt, page, rows, byHand, queued, ask, rec>>

\* endAtProvider: only a provider that says so ends it.  A page that completed
\* is settled in the background, by any settle.
EndHeld(c) ==
  /\ req[c].step = "ending"
  /\ \E answer \in {"ended", "completed", "unknown"} :
       /\ Expire(req[c].held, answer)
       /\ IF answer = "ended" THEN Goes(c, "expire") ELSE Answered(c)
  /\ UNCHANGED <<attempt, rows, byHand, queued, ask, rec>>

\* The held attempt lets the payable go; whether it still could is not asked.
ExpireHeld(c) ==
  /\ req[c].step = "expire"
  /\ attempt' = Moved(req[c].held, "expired")
  /\ Goes(c, "recent")
  /\ UNCHANGED <<page, rows, byHand, queued, ask, rec, faults>>

\* The payable's attempts are read: money that arrived and is not written, or
\* that a person has yet to decide about, ends the request; of the others,
\* those declined whose page may be open are to be ended.
LookRecent(c) ==
  /\ req[c].step = "recent"
  /\ LET taken == { a \in Attempts : \/ attempt[a].state \in {"succeeded", "recording"}
                                     \/ attempt[a].state = "record_refused" /\ ~attempt[a].checked }
         left == { a \in Attempts : attempt[a].state = "failed" /\ attempt[a].url }
     IN IF taken # {} THEN Answered(c)
        ELSE req' = [req EXCEPT ![c] = [@ EXCEPT !.step = IF left = {} THEN "create" ELSE "declined", !.left = left]]
  /\ UNCHANGED <<attempt, page, rows, byHand, queued, ask, rec, faults>>

\* A slip: a declined attempt is done with when the provider was asked.
EndDeclinedUnsure(c) ==
  /\ req[c].step = "declined"
  /\ \E a \in req[c].left, answer \in {"ended", "completed", "unknown"} :
       /\ Expire(a, answer)
       /\ attempt' = IF attempt[a].state = "failed" THEN [attempt EXCEPT ![a].url = FALSE] ELSE attempt
       /\ IF answer # "ended" THEN Answered(c)
          ELSE req' = [req EXCEPT ![c] = [@ EXCEPT !.left = req[c].left \ {a},
                                              !.step = IF req[c].left = {a} THEN "create" ELSE "declined"]]
  /\ UNCHANGED <<rows, byHand, queued, ask, rec>>

\* endDeclined, one page after the other: its URL is cleared once it ended.
\* The row, read before, may be `failed` no more: then it is left as it is.
EndDeclined(c) ==
  /\ req[c].step = "declined"
  /\ \E a \in req[c].left, answer \in {"ended", "completed", "unknown"} :
       /\ Expire(a, answer)
       /\ attempt' = IF answer = "ended" /\ attempt[a].state = "failed"
                     THEN [attempt EXCEPT ![a].url = FALSE] ELSE attempt
       /\ IF answer # "ended" THEN Answered(c)
          ELSE req' = [req EXCEPT ![c] = [@ EXCEPT !.left = req[c].left \ {a},
                                              !.step = IF req[c].left = {a} THEN "create" ELSE "declined"]]
  /\ UNCHANGED <<rows, byHand, queued, ask, rec>>

\* attempts.create: a row that takes the slot; the unique index lets one do so.
Create(c) ==
  /\ req[c].step = "create"
  /\ \/ Holders # {} /\ Answered(c) /\ UNCHANGED attempt
     \/ /\ Holders = {}
        /\ \E a \in Attempts \ Made :
             /\ attempt' = [attempt EXCEPT ![a] = [NoRow EXCEPT !.state = "creating", !.slot = TRUE,
                                                                !.amount = req[c].due]]
             /\ req' = [req EXCEPT ![c] = [@ EXCEPT !.step = "call", !.held = a]]
  /\ UNCHANGED <<page, rows, byHand, queued, ask, rec, faults>>

\* createCheckout: the provider makes a page, or refuses to, or makes one and
\* is not heard, or answers with a page on a host it never declared.
CallProvider(c) ==
  /\ req[c].step = "call"
  /\ \/ page' = [page EXCEPT ![req[c].held].state = "open"] /\ Goes(c, "opened") /\ UNCHANGED faults
     \/ Fault("refused") /\ Goes(c, "failing") /\ UNCHANGED page
     \/ Fault("unsaid") /\ Goes(c, "failing") /\ page' = [page EXCEPT ![req[c].held].state = "open"]
     \/ Fault("refused") /\ Goes(c, "refusing") /\ page' = [page EXCEPT ![req[c].held].state = "open"]
  /\ UNCHANGED <<attempt, rows, byHand, queued, ask, rec>>

\* The answer is written down, and the customer sent to the page either way.
Opened(c) ==
  /\ req[c].step = "opened"
  /\ LET a == req[c].held IN
     /\ attempt' = IF attempt[a].state \in Moves("open")
                   THEN [Moved(a, "open") EXCEPT ![a] = [@ EXCEPT !.ref = TRUE, !.url = TRUE]] ELSE attempt
     /\ page' = [page EXCEPT ![a].shown = TRUE]
  /\ Answered(c)
  /\ UNCHANGED <<rows, byHand, queued, ask, rec, faults>>

\* No checkout came of it: nothing may go on holding the payable.
FailCreate(c) ==
  /\ req[c].step = "failing"
  /\ attempt' = Moved(req[c].held, "failed")
  /\ Answered(c)
  /\ UNCHANGED <<page, rows, byHand, queued, ask, rec, faults>>

\* The page is on another host: nobody is sent there, and its reference is kept.
RefuseRedirect(c) ==
  /\ req[c].step = "refusing"
  /\ LET a == req[c].held IN
     attempt' = IF attempt[a].state \in Moves("failed")
                THEN [Moved(a, "failed") EXCEPT ![a].ref = TRUE] ELSE attempt
  /\ Answered(c)
  /\ UNCHANGED <<page, rows, byHand, queued, ask, rec, faults>>

RequestDies(c) ==
  /\ req[c].step # "idle" /\ Fault("crash") /\ Answered(c)
  /\ UNCHANGED <<attempt, page, rows, byHand, queued, ask, rec>>

\* A slip: only attempts with a checkout are let go.
AbandonOpened(a) ==
  /\ attempt[a].state = "creating" /\ attempt[a].ref
  /\ \A c \in Customers : req[c].held # a
  /\ attempt' = [attempt EXCEPT ![a] = [@ EXCEPT !.state = "abandoned", !.slot = FALSE]]
  /\ UNCHANGED <<page, rows, byHand, queued, req, ask, rec, faults>>

\* abandonStale: an attempt that never got its checkout is let go after a
\* quarter of an hour.  The code asks for that age alone; the guard on the
\* requests says what it is taken to mean, that the one that made it is gone.
Abandon(a) ==
  /\ attempt[a].state = "creating" /\ ~attempt[a].ref
  /\ \A c \in Customers : req[c].held # a
  /\ attempt' = [attempt EXCEPT ![a] = [@ EXCEPT !.state = "abandoned", !.slot = FALSE]]
  /\ UNCHANGED <<page, rows, byHand, queued, req, ask, rec, faults>>

-----------------------------------------------------------------------------
(* Settling an attempt *)

AskGoes(s, step) == ask' = [ask EXCEPT ![s].step = step]
AskEnds(s) == ask' = [ask EXCEPT ![s] = NoAsk]

\* settleOnce: the attempt is read, and whether its payable still owes exactly
\* its amount.  Of the states a success does not move, there is nothing to do.
Ask(s, a) ==
  /\ ask[s].step = "idle"
  /\ attempt[a].ref /\ attempt[a].state \in Moves("succeeded")
  /\ ask' = [ask EXCEPT ![s] =
       [NoAsk EXCEPT !.step = "call", !.a = a, !.seen = attempt[a].state, !.try = attempt[a].try,
                     !.owes = attempt[a].state \in {"open", "failed"} /\ Due = attempt[a].amount /\ Due > 0]]
  /\ UNCHANGED <<attempt, page, rows, byHand, queued, req, rec, faults>>

\* The attempts the sweep looks up: waiting, or declined with a page that may be open.
Swept(a) == attempt[a].state \in {"open", "processing"} \/ (attempt[a].state = "failed" /\ attempt[a].url)

Sweep(a) == Swept(a) /\ \E s \in Settlers : Ask(s, a)

\* A capture under a key declined before is declined again; under a new key the
\* provider tries the card.
Capture(a, try, answer) ==
  IF try \in page[a].declined THEN answer = "failed" /\ UNCHANGED page
  ELSE \/ answer = "succeeded" /\ page' = [page EXCEPT ![a].state = "paid"]
       \/ /\ answer = "failed" /\ try < MaxTries
          /\ page' = [page EXCEPT ![a].declined = @ \cup {try}]

\* The one call to the provider: `complete` of what is still owed, else `status`.
CallSettle(s) ==
  /\ ask[s].step = "call"
  /\ LET a == ask[s].a IN
     \E answer \in {"pending", "processing", "succeeded", "failed", "expired"} :
       /\ IF ask[s].owes /\ page[a].state = "approved" THEN Capture(a, ask[s].try, answer)
          ELSE answer = Status(a) /\ UNCHANGED page
       /\ \/ /\ ask' = [ask EXCEPT ![s] =
                  [@ EXCEPT !.step = IF ask[s].owes /\ answer = "failed" THEN "retry" ELSE "apply", !.answer = answer]]
             /\ UNCHANGED faults
          \/ Fault("unsaid") /\ AskEnds(s)
  /\ UNCHANGED <<attempt, rows, byHand, queued, req, rec>>

\* A slip: the declined key is used again.
SameTry(s) ==
  /\ ask[s].step = "retry"
  /\ AskGoes(s, "apply")
  /\ UNCHANGED <<attempt, page, rows, byHand, queued, req, rec, faults>>

\* nextCaptureTry: a declined capture's key is left behind, by one settle.
NextTry(s) ==
  /\ ask[s].step = "retry"
  /\ LET a == ask[s].a IN
     attempt' = IF attempt[a].try = ask[s].try /\ ask[s].try < MaxTries
                THEN [attempt EXCEPT ![a].try = @ + 1] ELSE attempt
  /\ AskGoes(s, "apply")
  /\ UNCHANGED <<page, rows, byHand, queued, req, rec, faults>>

\* apply, of an answer other than a success: the moves it makes go from what
\* the settle read at first, and from what the row says now.
ApplyAnswer(s) ==
  /\ ask[s].step = "apply" /\ ask[s].answer # "succeeded"
  /\ LET a == ask[s].a
         to == ask[s].answer
         may == \/ to = "processing" /\ ask[s].seen = "open"
                \/ to \in {"failed", "expired"} /\ ask[s].seen \in {"open", "processing"}
     IN /\ attempt' = IF may THEN Moved(a, to) ELSE attempt
        /\ \/ AskEnds(s)
           \/ to = "failed" /\ ask' = [ask EXCEPT ![s] = [@ EXCEPT !.step = "lock", !.left = Made]]
  /\ UNCHANGED <<page, rows, byHand, queued, req, rec, faults>>

\* endPagesOfLink: with one decline too many the link is locked, and each page
\* of its attempts that may be open is ended.
LockLink(s) ==
  /\ ask[s].step = "lock"
  /\ \E a \in ask[s].left :
       /\ IF Swept(a) /\ attempt[a].state # "processing"
          THEN \E answer \in {"ended", "completed", "unknown"} :
                 /\ Expire(a, answer)
                 /\ attempt' = IF answer # "ended" THEN attempt
                               ELSE IF attempt[a].state = "open" THEN Moved(a, "expired")
                               ELSE [attempt EXCEPT ![a].url = FALSE]
          ELSE UNCHANGED <<attempt, page, faults>>
       /\ ask' = [ask EXCEPT ![s] = IF @.left = {a} THEN NoAsk ELSE [@ EXCEPT !.left = ask[s].left \ {a}]]
  /\ UNCHANGED <<rows, byHand, queued, req, rec>>

\* A slip: money on its way counts as taken.
ApplySuccessEarly(s) ==
  /\ ask[s].step = "apply" /\ ask[s].answer \in {"succeeded", "processing"}
  /\ IF attempt[ask[s].a].state \notin Moves("succeeded") THEN AskEnds(s)
     ELSE AskGoes(s, IF attempt[ask[s].a].slot THEN "take" ELSE "takeback")
  /\ UNCHANGED <<attempt, page, rows, byHand, queued, req, rec, faults>>

\* move(succeeded), its read: whether the row may move, and whether it has the slot.
ApplySuccess(s) ==
  /\ ask[s].step = "apply" /\ ask[s].answer = "succeeded"
  /\ IF attempt[ask[s].a].state \notin Moves("succeeded") THEN AskEnds(s)
     ELSE AskGoes(s, IF attempt[ask[s].a].slot THEN "take" ELSE "takeback")
  /\ UNCHANGED <<attempt, page, rows, byHand, queued, req, rec, faults>>

\* Its statement for a row that had the slot: the state only.
Take(s) ==
  /\ ask[s].step = "take"
  /\ LET a == ask[s].a IN
     IF attempt[a].state \in Moves("succeeded")
     THEN attempt' = [attempt EXCEPT ![a].state = "succeeded"] /\ AskGoes(s, "queue")
     ELSE UNCHANGED attempt /\ AskEnds(s)
  /\ UNCHANGED <<page, rows, byHand, queued, req, rec, faults>>

\* Its statement for a row that had let the slot go: it takes the slot back,
\* unless another attempt holds it, where the unique index throws.
TakeBack(s) ==
  /\ ask[s].step = "takeback"
  /\ LET a == ask[s].a IN
     IF attempt[a].state \notin Moves("succeeded") THEN UNCHANGED attempt /\ AskEnds(s)
     ELSE IF Holders \subseteq {a}
     THEN /\ attempt' = [attempt EXCEPT ![a] = [@ EXCEPT !.state = "succeeded", !.slot = TRUE]]
          /\ AskGoes(s, "queue")
     ELSE UNCHANGED attempt /\ AskGoes(s, "flag")
  /\ UNCHANGED <<page, rows, byHand, queued, req, rec, faults>>

\* A slip: the slot another attempt holds is not told to anybody.
FlagTwoQuietly(s) ==
  /\ ask[s].step = "flag"
  /\ LET a == ask[s].a IN
     IF attempt[a].state \in Moves("succeeded")
     THEN attempt' = [attempt EXCEPT ![a].state = "succeeded"] /\ AskGoes(s, "queue")
     ELSE UNCHANGED attempt /\ AskEnds(s)
  /\ UNCHANGED <<page, rows, byHand, queued, req, rec, faults>>

\* The statement after that: it succeeds without the slot, flagged for a person.
FlagTwo(s) ==
  /\ ask[s].step = "flag"
  /\ LET a == ask[s].a IN
     IF attempt[a].state \in Moves("succeeded")
     THEN /\ attempt' = [attempt EXCEPT ![a] = [@ EXCEPT !.state = "succeeded", !.flag = TRUE]]
          /\ AskGoes(s, "queue")
     ELSE UNCHANGED attempt /\ AskEnds(s)
  /\ UNCHANGED <<page, rows, byHand, queued, req, rec, faults>>

\* enqueueRecord: one job waits for an attempt, whoever queues it.
Queue(s) ==
  /\ ask[s].step = "queue"
  /\ queued' = queued \cup {ask[s].a}
  /\ AskEnds(s)
  /\ UNCHANGED <<attempt, page, rows, byHand, req, rec, faults>>

SettleDies(s) ==
  /\ ask[s].step # "idle" /\ Fault("crash") /\ AskEnds(s)
  /\ UNCHANGED <<attempt, page, rows, byHand, queued, req, rec>>

-----------------------------------------------------------------------------
(* Recording a payment *)

RunGoes(r, step) == rec' = [rec EXCEPT ![r].step = step]

\* The run is over: its job is done, or waits to be tried again.
RunEnds(r) == rec' = [rec EXCEPT ![r] = NoRun] /\ queued' = queued \ {rec[r].a}
RunTriesAgain(r) == rec' = [rec EXCEPT ![r] = NoRun] /\ UNCHANGED queued

At(a) == { r \in Recorders : rec[r].a = a }

\* recordAttempt's claim: `succeeded` becomes `recording`, and a run that finds
\* it `recording` carries on; in any other state there is nothing to record.
Claim(r, a) ==
  /\ rec[r].step = "idle" /\ a \in queued
  /\ \/ At(a) = {} /\ UNCHANGED faults
     \/ At(a) # {} /\ Fault("twice")
  /\ IF attempt[a].state \in {"succeeded", "recording"}
     THEN /\ attempt' = Moved(a, "recording")
          /\ rec' = [rec EXCEPT ![r] = [NoRun EXCEPT !.step = "resolve", !.a = a]]
          /\ UNCHANGED queued
     ELSE queued' = queued \ {a} /\ UNCHANGED <<attempt, rec>>
  /\ UNCHANGED <<page, rows, byHand, req, ask>>

\* What is due now is read first,
ReadDue(r) ==
  /\ rec[r].step = "resolve"
  /\ rec' = [rec EXCEPT ![r] = [@ EXCEPT !.step = "look", !.due = Due]]
  /\ UNCHANGED <<attempt, page, rows, byHand, queued, req, ask, faults>>

\* A slip: what is due is checked without looking for the payment's own row.
LookDueOnly(r) ==
  /\ rec[r].step = "look"
  /\ RunGoes(r, IF attempt[rec[r].a].amount > rec[r].due THEN "refuse" ELSE "write")
  /\ UNCHANGED <<attempt, page, rows, byHand, queued, req, ask, faults>>

\* then whether the payment is written already; if not, what was taken is
\* checked against what was due.
LookWritten(r) ==
  /\ rec[r].step = "look"
  /\ LET a == rec[r].a IN
     RunGoes(r, IF a \in rows THEN "finish"
                ELSE IF attempt[a].amount > rec[r].due THEN "refuse" ELSE "write")
  /\ UNCHANGED <<attempt, page, rows, byHand, queued, req, ask, faults>>

\* Insert first: the unique column lets one row carry the attempt's id, and a
\* run that finds it taken finishes with it.  The database may be away, or its
\* table refuse the payment.
WriteRow(r) ==
  /\ rec[r].step = "write"
  /\ \/ rows' = rows \cup {rec[r].a} /\ RunGoes(r, "finish") /\ UNCHANGED <<queued, faults>>
     \/ rec[r].a \notin rows /\ Fault("failed") /\ RunTriesAgain(r) /\ UNCHANGED rows
     \/ rec[r].a \notin rows /\ Fault("rule") /\ RunGoes(r, "refuse") /\ UNCHANGED <<rows, queued>>
  /\ UNCHANGED <<attempt, page, byHand, req, ask>>

RefuseRecord(r) ==
  /\ rec[r].step = "refuse"
  /\ attempt' = Moved(rec[r].a, "record_refused")
  /\ RunEnds(r)
  /\ UNCHANGED <<page, rows, byHand, req, ask, faults>>

Finish(r) ==
  /\ rec[r].step = "finish"
  /\ attempt' = Moved(rec[r].a, "recorded")
  /\ RunEnds(r)
  /\ UNCHANGED <<page, rows, byHand, req, ask, faults>>

\* A run dies, with its job left to be reclaimed.
RunDies(r) ==
  /\ rec[r].step # "idle" /\ Fault("crash") /\ RunTriesAgain(r)
  /\ UNCHANGED <<attempt, page, rows, byHand, req, ask>>

\* A job that used up its tries, or that an administrator cancelled.
Dropped(a) ==
  /\ a \in queued /\ At(a) = {} /\ Fault("dropped")
  /\ queued' = queued \ {a}
  /\ UNCHANGED <<attempt, page, rows, byHand, req, ask, rec>>

\* A slip: only what a run had claimed is queued again.
PickUpClaimed(a) ==
  /\ attempt[a].state = "recording" /\ a \notin queued
  /\ queued' = queued \cup {a}
  /\ UNCHANGED <<attempt, page, rows, byHand, req, ask, rec, faults>>

\* pickUpRecordings: what stayed in these states for ten minutes is queued again.
PickUp(a) ==
  /\ attempt[a].state \in {"succeeded", "recording"} /\ a \notin queued
  /\ queued' = queued \cup {a}
  /\ UNCHANGED <<attempt, page, rows, byHand, req, ask, rec, faults>>

\* A person records a payment of what is due, or of part of it,
RecordByHand ==
  /\ Fault("byhand")
  /\ \E n \in 1 .. Due : byHand' = byHand + n
  /\ UNCHANGED <<attempt, page, rows, queued, req, ask, rec>>

\* or looks at a payment that was refused.
Check(a) ==
  /\ attempt[a].state = "record_refused" /\ ~attempt[a].checked
  /\ attempt' = [attempt EXCEPT ![a].checked = TRUE]
  /\ UNCHANGED <<page, rows, byHand, queued, req, ask, rec, faults>>

-----------------------------------------------------------------------------
Provider == \E a \in Attempts : Pay(a) \/ BankSays(a) \/ Lapse(a)

Request(c) == \/ LookHeld(c) \/ EndHeld(c) \/ ExpireHeld(c) \/ LookRecent(c) \/ EndDeclined(c) \/ Create(c)
              \/ CallProvider(c) \/ Opened(c) \/ FailCreate(c) \/ RefuseRedirect(c)

Settle(s) == \/ CallSettle(s) \/ NextTry(s) \/ ApplyAnswer(s) \/ LockLink(s) \/ ApplySuccess(s)
             \/ Take(s) \/ TakeBack(s) \/ FlagTwo(s) \/ Queue(s)

Record(r) == \/ ReadDue(r) \/ LookWritten(r) \/ WriteRow(r) \/ RefuseRecord(r) \/ Finish(r)

Next ==
  \/ Provider
  \/ \E c \in Customers : Press(c) \/ Request(c) \/ RequestDies(c)
  \/ \E s \in Settlers : (\E a \in Attempts : Ask(s, a)) \/ Settle(s) \/ SettleDies(s)
  \/ \E r \in Recorders : (\E a \in Attempts : Claim(r, a)) \/ Record(r) \/ RunDies(r)
  \/ \E a \in Attempts : Abandon(a) \/ Dropped(a) \/ PickUp(a) \/ Check(a)
  \/ RecordByHand

Spec == Init /\ [][Next]_vars

\* Live processes go on; the planner, the pickup and the worker come round; and
\* the sweep, which asks the longest unasked first, comes to every attempt.  No
\* customer, bank, webhook or person has to do anything.
Fairness ==
  /\ \A c \in Customers : WF_vars(Request(c))
  /\ \A s \in Settlers : WF_vars(Settle(s))
  /\ \A r \in Recorders : WF_vars(Record(r))
  /\ \A a \in Attempts : /\ WF_vars(Abandon(a)) /\ WF_vars(PickUp(a))
                         /\ WF_vars(\E r \in Recorders : Claim(r, a))
                         /\ SF_vars(Sweep(a))

FairSpec == Spec /\ Fairness

-----------------------------------------------------------------------------
(* Properties *)

Money(a) == IF page[a].state = "paid" THEN "taken" ELSE "none"
Books(a) == IF a \in rows THEN "written"
            ELSE IF attempt[a].state = "record_refused" THEN "refused" ELSE "silent"

Promise == INSTANCE PaymentPromise WITH money <- [a \in Attempts |-> Money(a)],
                                        books <- [a \in Attempts |-> Books(a)]

\* The promise of record.ts's head, "exactly once, across two databases": only
\* money the provider took is written or refused, and what is written stays.
ImplementsPromise == Promise!Spec

\* "Taken money is never left unrecorded" (payments.ts, ATTEMPT_MOVES): an attempt
\* whose page took the money is one the sweep still asks about, or its money is
\* with the record job.
TakenIsFollowed ==
  \A a \in Attempts : page[a].state = "paid" => Swept(a) \/ attempt[a].state \in TakenStates

\* What Adminium calls recorded is written in the shop's database, and what it
\* calls refused is not, except while a run that wrote it is about to say so.
StateTellsRow ==
  \A a \in Attempts :
    /\ attempt[a].state = "recorded" => a \in rows
    /\ attempt[a].state = "record_refused" /\ a \in rows => \E r \in At(a) : rec[r].step = "finish"

\* "Taken money ... is flagged for a person: two payments may be on their way"
\* (payments.ts, `move`): when two attempts took more than the payable ever owed
\* and both are about to be recorded, or were, a person is told of one of them.
TwoAreNoticed ==
  \A a, b \in Attempts :
    /\ a # b /\ attempt[a].amount + attempt[b].amount > Owed
    /\ attempt[a].state \in TakenStates /\ attempt[b].state \in TakenStates
    => \E x \in {a, b} : attempt[x].flag \/ attempt[x].state # "recorded"

\* "A payment must never be lost" (record.ts, the head): money the provider took
\* ends written down or before a person.
MoneyEnds ==
  \A a \in Attempts : page[a].state = "paid" ~> attempt[a].state \in {"recorded", "record_refused"}

\* A declined capture's key "would hand the decline back for good" (checkout.ts,
\* `settleOnce`): what a customer approved and still owes is taken in the end,
\* after however many declines, or the payable owes something else by then.
ApprovedEnds ==
  \A a \in Attempts : page[a].state = "approved" /\ Due = attempt[a].amount
                       ~> page[a].state # "approved" \/ Due # attempt[a].amount

\* "Nothing may keep holding the payable" (checkout.ts, `start`): an attempt in the
\* making does not hold it for ever, whatever dies on the way.
MakingEnds == \A a \in Attempts : attempt[a].state = "creating" ~> attempt[a].state # "creating"
=============================================================================
