------------------------------ MODULE Refunds ------------------------------
(***************************************************************************)
(* Refunds of one payment (apps/server/src/payments/refunds.ts over the    *)
(* refunds table and the attempt's hold in packages/meta/src/repos/        *)
(* payments.ts): a person asks for one, the provider is asked, its answers *)
(* and its events move the row, a refund made in its dashboard is found,   *)
(* and the shop's record follows what stands refunded.                     *)
(*                                                                         *)
(* A worker is a person's request or a job, in any server process; each    *)
(* statement and each call to the provider is a step.  The payment is      *)
(* live, in one currency, and never disputed.                              *)
(***************************************************************************)
EXTENDS Naturals, FiniteSets, FiniteSetsExt

CONSTANTS
  Keys,        \* what people confirm: a key, bound to an amount
  Desk,        \* refunds made in the provider's own dashboard
  Amount,      \* what each of them gives back
  Taken,       \* the money taken
  Workers,
  NoRefund,
  MaxFaults,   \* faults of the environment in one behaviour
  Events       \* what of the environment this instance has

EventKinds ==
  { "crash",     \* a process dies between two statements
    "unsaid",    \* the provider's answer is lost, or it cannot be asked
    "refused",   \* the provider refuses a refund
    "failed",    \* the shop's record cannot be written now
    "written",   \* the payment is written down (no fault)
    "cancelled" } \* the provider cancels a refund that waits (no fault)

ASSUME RefundAssumption ==
  /\ IsFiniteSet(Keys) /\ IsFiniteSet(Desk) /\ IsFiniteSet(Workers)
  /\ Keys \cap Desk = {} /\ NoRefund \notin Keys \cup Desk
  /\ \A x \in Keys \cup Desk : Amount[x] \in Nat \ {0}
  /\ Taken \in Nat /\ MaxFaults \in Nat
  /\ Events \subseteq EventKinds

VARIABLES
  made,        \* the provider's refunds, by the id it gives them
  news,        \* those with an event of the provider not yet handled
  row,         \* the refunds table
  committed,   \* the attempt's refundCommitted: what refunds hold of it
  recorded,    \* whether the payment is written down
  shown,       \* what the shop's record shows as refunded
  work,        \* the workers
  faults       \* how many faults there were

vars == <<made, news, row, committed, recorded, shown, work, faults>>

-----------------------------------------------------------------------------
(* The refunds table *)

\* A refund of the provider is known by the key it was asked with, or made there.
Refs == Keys \cup Desk

\* A row has the confirmation's key, or one of its own for an id of the provider.
Rows == ({"staff"} \X Keys) \cup ({"provider"} \X Refs)

AmountOf(r) == Amount[r[2]]
SumOf(rs) == MapThenSumSet(AmountOf, rs)

\* REFUND_STATES, and a row not made.  `pending` stands for `requires_action` too.
States == { "none", "requested", "pending", "succeeded", "failed", "cancelled" }

\* A slip: a refund that is done is over.
MovesForward(to) ==
  CASE to = "pending"   -> { "requested" }
    [] to = "succeeded" -> { "requested", "pending" }
    [] to = "failed"    -> { "requested", "pending" }
    [] to = "cancelled" -> { "requested", "pending" }

\* REFUND_MOVES: the states a move may come from.
Moves(to) ==
  CASE to = "pending"   -> { "requested" }
    [] to = "succeeded" -> { "requested", "pending" }
    [] to = "failed"    -> { "requested", "pending", "succeeded" }
    [] to = "cancelled" -> { "requested", "pending" }

\* What counts against the money taken.
LiveRows == { r \in Rows : row[r].state \in {"requested", "pending", "succeeded"} }

\* The rows a unique index lets one of have an id of the provider.
With(p) == { r \in Rows : row[r].ref = p }

\* A slip: a refund that failed is nothing to the record.
BehindDone(r) == ~row[r].more /\ row[r].state = "succeeded" /\ ~row[r].applied

\* recordBehind: the record has yet to follow this refund.
Behind(r) ==
  /\ ~row[r].more
  /\ \/ row[r].state = "succeeded" /\ ~row[r].applied
     \/ row[r].state = "failed" /\ row[r].applied /\ ~row[r].undone

NoRow == [state |-> "none", ref |-> NoRefund, applied |-> FALSE, undone |-> FALSE, more |-> FALSE]
NoWork == [step |-> "idle", row |-> NoRefund, ref |-> NoRefund, to |-> "none", seen |-> "none", was |-> 0,
           then |-> "end", job |-> FALSE, news |-> {}, done |-> {}, undo |-> {}]

\* What a row and a worker may be.
RowType == [state : States, ref : Refs \cup {NoRefund}, applied : BOOLEAN, undone : BOOLEAN, more : BOOLEAN]
WorkType ==
  [step : {"idle", "hold", "commit", "again", "make", "ask", "move", "merge", "decide",
           "follow", "write", "mark", "check"},
   row : Rows \cup {NoRefund}, ref : Refs \cup {NoRefund}, to : States, seen : States, was : Nat,
   then : {"make", "follow", "end", "last"}, job : BOOLEAN, news : SUBSET Refs,
   done : SUBSET Rows, undo : SUBSET Rows]

TypeOK ==
  /\ made \in [Refs -> {"none", "pending", "succeeded", "failed", "cancelled"}]
  /\ news \subseteq Refs
  /\ row \in [Rows -> RowType]
  /\ committed \in Nat /\ shown \in 0 .. Taken /\ recorded \in BOOLEAN
  /\ work \in [Workers -> WorkType]
  /\ faults \in 0 .. MaxFaults

Init ==
  /\ made = [p \in Refs |-> "none"] /\ news = {}
  /\ row = [r \in Rows |-> NoRow]
  /\ committed = 0 /\ recorded = FALSE /\ shown = 0 /\ faults = 0
  /\ work = [w \in Workers |-> NoWork]

\* Something of this kind goes wrong.
Fault(kind) == kind \in Events /\ faults < MaxFaults /\ faults' = faults + 1

Goes(w, step) == work' = [work EXCEPT ![w].step = step]

\* A request is over; a job looks whether the record is to follow.
Ends(w) ==
  work' = [work EXCEPT ![w] = IF ~@.job THEN NoWork
             ELSE [@ EXCEPT !.step = "check", !.to = "none", !.seen = "none", !.was = 0, !.then = "end", !.done = {}, !.undo = {}]]

\* The record is to follow now, if the payment is written down.
Follows(w) == IF ~recorded THEN Ends(w)
              ELSE work' = [work EXCEPT ![w] = [@ EXCEPT !.step = "follow", !.to = "none", !.seen = "none", !.was = 0, !.then = "end"]]

\* A job throws, and will be tried again: its event is not handled.
Throws(w) == work' = [work EXCEPT ![w] = NoWork] /\ news' = news \cup work[w].news

-----------------------------------------------------------------------------
(* The provider (external): it never gives back more than was taken *)

MadeLive == { p \in Refs : made[p] \in {"pending", "succeeded"} }
Fits(p) == MapThenSumSet(LAMBDA q : Amount[q], MadeLive) + Amount[p] <= Taken

\* p becomes `to` there, and an event says so.
Becomes(p, to) == made' = [made EXCEPT ![p] = to] /\ news' = news \cup {p}

MakeAtDesk(d) ==
  /\ made[d] = "none" /\ Fits(d) /\ \E to \in {"pending", "succeeded"} : Becomes(d, to)
  /\ UNCHANGED <<row, committed, recorded, shown, work, faults>>

\* A refund waits, ends, or fails after it was done (a closed card).
Progress(p) ==
  /\ \/ made[p] = "pending" /\ \E to \in {"succeeded", "failed"} \cup ({"cancelled"} \cap Events) : Becomes(p, to)
     \/ made[p] = "succeeded" /\ Becomes(p, "failed")
  /\ UNCHANGED <<row, committed, recorded, shown, work, faults>>

-----------------------------------------------------------------------------
(* A person asks *)

\* requestRefund: a new key is checked against what may still be refunded; a
\* known one that never reached the provider asks again.
Request(w, k) ==
  LET r == <<"staff", k>> IN
  /\ work[w].step = "idle"
  /\ \/ /\ row[r].state = "none" /\ committed + Amount[k] <= Taken
        /\ work' = [work EXCEPT ![w] = [NoWork EXCEPT !.step = "hold", !.row = r, !.then = "make"]]
     \/ /\ row[r].state = "requested" /\ row[r].ref = NoRefund
        /\ work' = [work EXCEPT ![w] = [NoWork EXCEPT !.step = "ask", !.row = r]]
  /\ UNCHANGED <<made, news, row, committed, recorded, shown, faults>>

\* moveHold reads what is held,
HoldRead(w) ==
  /\ work[w].step = "hold"
  /\ work' = [work EXCEPT ![w].step = "commit", ![w].was = committed, ![w].to = "none", ![w].seen = "none"]
  /\ UNCHANGED <<made, news, row, committed, recorded, shown, faults>>

\* and what it should be: more before a row is made, less for one that ended.
Held(w) ==
  LET n == AmountOf(work[w].row) IN
  IF work[w].then = "make" THEN work[w].was + n
  ELSE IF work[w].was >= n THEN work[w].was - n ELSE 0

\* Where a worker goes once its hold is moved, or cannot be.
Moved(w) == CASE work[w].then = "end"    -> Ends(w)
              [] work[w].then = "follow" -> Follows(w)
              [] work[w].then = "make"   -> work' = [work EXCEPT ![w].step = "make", ![w].then = "end", ![w].was = 0]
Refused(w) == IF work[w].then = "make" THEN work' = [work EXCEPT ![w] = NoWork] ELSE Moved(w)

\* A slip: the hold is written whatever it is by now.
HoldCommitBlind(w) ==
  /\ work[w].step = "commit"
  /\ IF Held(w) > Taken THEN Refused(w) /\ UNCHANGED committed
     ELSE committed' = Held(w) /\ Moved(w)
  /\ UNCHANGED <<made, news, row, recorded, shown, faults>>

\* A slip: what was checked before is not checked again.
HoldCommitUnchecked(w) ==
  /\ work[w].step = "commit"
  /\ IF committed # work[w].was THEN Goes(w, "again") /\ UNCHANGED committed
     ELSE committed' = Held(w) /\ Moved(w)
  /\ UNCHANGED <<made, news, row, recorded, shown, faults>>

\* commitRefund, a compare-and-set that also holds nothing past the money taken.
HoldCommit(w) ==
  /\ work[w].step = "commit"
  /\ IF committed # work[w].was \/ Held(w) > Taken THEN Goes(w, "again") /\ UNCHANGED committed
     ELSE committed' = Held(w) /\ Moved(w)
  /\ UNCHANGED <<made, news, row, recorded, shown, faults>>

\* One that did not land looks at the hold again: moved by someone else, it is
\* tried again, up to five times; not moved, or after the fifth, it is given up,
\* and what was to be given back stays held.
HoldAgain(w) ==
  /\ work[w].step = "again"
  /\ \/ committed # work[w].was /\ work' = [work EXCEPT ![w].step = "hold", ![w].was = 0]
     \/ Refused(w)
  /\ UNCHANGED <<made, news, row, committed, recorded, shown, faults>>

\* refunds.create: one row per key; a twin that lost gives its hold back.
MakeRow(w) ==
  /\ work[w].step = "make"
  /\ IF row[work[w].row].state = "none"
     THEN row' = [row EXCEPT ![work[w].row].state = "requested"] /\ Goes(w, "ask")
     ELSE work' = [work EXCEPT ![w].step = "hold", ![w].then = "end"] /\ UNCHANGED row
  /\ UNCHANGED <<made, news, committed, recorded, shown, faults>>

-----------------------------------------------------------------------------
(* The provider is asked, and the row moves *)

\* What the provider says of the worker's row.
Hears(w, to, p) == work' = [work EXCEPT ![w].step = "move", ![w].to = to, ![w].ref = p, ![w].seen = "requested"]

\* askOnce: a row still without an answer is asked with its key, and the same key
\* is the same refund.  An answer that is no refusal leaves the row as it is.
Ask(w) ==
  LET r == work[w].row
      k == r[2]
  IN
  /\ work[w].step = "ask"
  /\ \/ /\ row[r].state # "requested" \/ row[r].ref # NoRefund
        /\ Ends(w) /\ UNCHANGED <<made, news, faults>>
     \/ /\ row[r].state = "requested" /\ row[r].ref = NoRefund
        /\ \/ made[k] # "none" /\ Hears(w, made[k], k) /\ UNCHANGED <<made, news, faults>>
           \/ /\ made[k] = "none" /\ Fits(k)
              /\ \E to \in {"pending", "succeeded"} : Becomes(k, to) /\ Hears(w, to, k)
              /\ UNCHANGED faults
           \/ made[k] = "none" /\ ~Fits(k) /\ Hears(w, "failed", NoRefund) /\ UNCHANGED <<made, news, faults>>
           \/ made[k] = "none" /\ Fault("refused") /\ Hears(w, "failed", NoRefund) /\ UNCHANGED <<made, news>>
           \/ Fault("unsaid") /\ Throws(w) /\ UNCHANGED made
           \/ /\ made[k] = "none" /\ Fits(k) /\ Fault("unsaid")
              /\ made' = [made EXCEPT ![k] = "pending"]
              /\ work' = [work EXCEPT ![w] = NoWork] /\ news' = news \cup work[w].news \cup {k}
  /\ UNCHANGED <<row, committed, recorded, shown>>

\* moveTo: the row moves from where it may.  One that ended gives back what it
\* held; the record follows one that is done, or was.
Move(w) ==
  LET me == work[w]
      r == me.row
  IN
  /\ me.step = "move"
  /\ IF row[r].state \notin Moves(me.to) THEN Ends(w) /\ UNCHANGED row
     ELSE IF me.ref # NoRefund /\ ~(With(me.ref) \subseteq {r}) THEN Goes(w, "merge") /\ UNCHANGED row
     ELSE /\ row' = [row EXCEPT ![r].state = me.to, ![r].ref = IF me.ref = NoRefund THEN @ ELSE me.ref]
          /\ IF me.to \in {"failed", "cancelled"}
             THEN work' = [work EXCEPT ![w].step = "hold",
                                       ![w].then = IF me.seen = "succeeded" THEN "follow" ELSE "end"]
             ELSE IF me.to = "succeeded" THEN Follows(w) ELSE Ends(w)
  /\ UNCHANGED <<made, news, committed, recorded, shown, faults>>

\* mergeInto: another row has the id, and this one is closed as its twin.
Merge(w) ==
  LET r == work[w].row IN
  /\ work[w].step = "merge"
  /\ IF row[r].state \in Moves("cancelled")
     THEN row' = [row EXCEPT ![r].state = "cancelled"] /\ work' = [work EXCEPT ![w].step = "hold", ![w].then = "end"]
     ELSE Ends(w) /\ UNCHANGED row
  /\ UNCHANGED <<made, news, committed, recorded, shown, faults>>

\* settleRefund: a row with no answer yet is asked for, the provider is asked how
\* any other stands.  When the row says so already, all that is left to the job
\* is a record that is behind.
Settles(w, r, told) ==
  LET goes == [NoWork EXCEPT !.row = r, !.job = TRUE, !.news = told, !.seen = row[r].state, !.ref = row[r].ref]
      to == made[row[r].ref]
  IN work' = [work EXCEPT ![w] =
       CASE row[r].ref = NoRefund /\ row[r].state = "requested" -> [goes EXCEPT !.step = "ask", !.seen = "none"]
         [] row[r].ref # NoRefund /\ to # row[r].state          -> [goes EXCEPT !.step = "move", !.to = to]
         [] OTHER                                              -> [goes EXCEPT !.step = "check", !.seen = "none"]]

\* A slip: a row is asked about only once the provider has it.
SettleKnown(w, r) ==
  /\ work[w].step = "idle"
  /\ \/ row[r].state \in {"requested", "pending"} /\ row[r].ref # NoRefund /\ made[row[r].ref] # row[r].state
     \/ (Behind(r) /\ recorded)
  /\ Settles(w, r, {})
  /\ UNCHANGED <<made, news, row, committed, recorded, shown, faults>>

\* A slip: only rows that wait are picked up.
SettleWaiting(w, r) ==
  /\ work[w].step = "idle"
  /\ row[r].state = "requested" \/ (row[r].state = "pending" /\ made[row[r].ref] # "pending")
  /\ Settles(w, r, {})
  /\ UNCHANGED <<made, news, row, committed, recorded, shown, faults>>

\* The sweep queues a job for rows that wait or are behind (pickUpRefunds).  A job
\* that would find nothing new is no step.
Settle(w, r) ==
  /\ work[w].step = "idle"
  /\ \/ row[r].state = "requested" \/ (row[r].state = "pending" /\ made[row[r].ref] # "pending")
     \/ (Behind(r) /\ recorded)
  /\ Settles(w, r, {})
  /\ UNCHANGED <<made, news, row, committed, recorded, shown, faults>>

-----------------------------------------------------------------------------
(* An event of the provider *)

\* refundEvent: about a refund that is known, or not.
Event(w, p) ==
  /\ work[w].step = "idle" /\ p \in news
  /\ news' = news \ {p}
  /\ IF With(p) # {} THEN \E r \in With(p) : Settles(w, r, {p})
     ELSE work' = [work EXCEPT ![w] = [NoWork EXCEPT !.step = "decide", !.ref = p, !.to = made[p], !.job = TRUE, !.news = {p}]]
  /\ UNCHANGED <<made, row, committed, recorded, shown, faults>>

\* Refunds asked here that this may be: of its amount, still without an id.
Lost(p) == { r \in Rows : r[1] = "staff" /\ row[r].state = "requested" /\ row[r].ref = NoRefund /\ AmountOf(r) = Amount[p] }

\* asAttemptWriter: known by now; or one asked here takes the id; or a row is
\* made, and held even past what was thought left.  One transaction.
Decide(w) ==
  LET p == work[w].ref
      to == work[w].to
      new == <<"provider", p>>
  IN
  /\ work[w].step = "decide"
  /\ \/ /\ \E r \in With(p) : Settles(w, r, work[w].news)
        /\ UNCHANGED <<row, committed>>
     \/ /\ With(p) = {}
        /\ \E r \in Lost(p) : /\ row' = [row EXCEPT ![r].ref = p]
                              /\ work' = [work EXCEPT ![w].step = "move", ![w].row = r, ![w].seen = "requested"]
        /\ UNCHANGED committed
     \/ /\ With(p) = {} /\ Lost(p) = {}
        /\ row' = [row EXCEPT ![new] = [NoRow EXCEPT !.state = to, !.ref = p]]
        /\ committed' = IF to \in {"failed", "cancelled"} THEN committed ELSE committed + Amount[p]
        /\ work' = [work EXCEPT ![w].row = new, ![w].to = "none",
                                  ![w].step = IF to = "succeeded" /\ recorded THEN "follow" ELSE "check"]
  /\ UNCHANGED <<made, news, recorded, shown, faults>>

-----------------------------------------------------------------------------
(* The record follows *)

\* followRecord is over: within the job's last look it is the job's end.
Followed(w) == IF work[w].then = "last" THEN work' = [work EXCEPT ![w] = NoWork] ELSE Ends(w)

\* It reads the payment's refunds.
FollowRead(w) ==
  /\ work[w].step = "follow"
  /\ work' = [work EXCEPT ![w].step = "write",
                          ![w].done = { r \in Rows : row[r].state = "succeeded" },
                          ![w].undo = { r \in Rows : row[r].state = "failed" /\ row[r].applied /\ ~row[r].undone }]
  /\ UNCHANGED <<made, news, row, committed, recorded, shown, faults>>

\* A slip: the total is added to what is shown.
ShownAdded(rs) == shown + SumOf(rs)

\* What is shown of these refunds: their total, never past what was paid.
Shown(rs) == IF SumOf(rs) > Taken THEN Taken ELSE SumOf(rs)

\* The total goes to the record.  A write that fails is flagged and queued, and in
\* the job's last look fails the job.
WriteTotal(w) ==
  /\ work[w].step = "write"
  /\ \/ shown' = Shown(work[w].done) /\ Goes(w, "mark") /\ UNCHANGED <<news, row, faults>>
     \/ /\ Fault("failed")
        /\ IF work[w].then = "last" THEN Throws(w) /\ UNCHANGED row
           ELSE Ends(w) /\ row' = [row EXCEPT ![work[w].row].more = FALSE] /\ UNCHANGED news
        /\ UNCHANGED shown
  /\ UNCHANGED <<made, committed, recorded>>

\* What is still to be marked, from what the rows say now: each refund read as
\* done and so still, then each that was read as failed since.
ToMark(w) ==
  LET apply == { r \in work[w].done : row[r].state = "succeeded" /\ ~row[r].applied }
      undo  == { r \in work[w].undo : row[r].state = "failed" /\ row[r].applied /\ ~row[r].undone }
  IN IF apply # {} THEN apply ELSE undo

\* One row is marked applied (markApplied), or undone (markUndone).
MarkRow(w) ==
  /\ work[w].step = "mark"
  /\ \E r \in ToMark(w) :
       row' = IF row[r].state = "succeeded" THEN [row EXCEPT ![r].applied = TRUE]
              ELSE [row EXCEPT ![r].undone = TRUE]
  /\ UNCHANGED <<made, news, committed, recorded, shown, work, faults>>

\* All are marked.  With more given back than was paid, one is flagged for a person.
FlagPast(w) ==
  /\ work[w].step = "mark" /\ ToMark(w) = {}
  /\ IF SumOf(work[w].done) > Taken
     THEN \E r \in work[w].done : row' = [row EXCEPT ![r].more = TRUE]
     ELSE UNCHANGED row
  /\ Followed(w)
  /\ UNCHANGED <<made, news, committed, recorded, shown, faults>>

\* followStrict: the job's last look at its refund.
Check(w) ==
  /\ work[w].step = "check"
  /\ LET rs == IF work[w].ref = NoRefund THEN {work[w].row} ELSE With(work[w].ref) IN
     work' = [work EXCEPT ![w] = IF recorded /\ \E r \in rs : Behind(r) THEN [@ EXCEPT !.step = "follow", !.then = "last"] ELSE NoWork]
  /\ UNCHANGED <<made, news, row, committed, recorded, shown, faults>>

\* The payment is written down (record.ts), and refunds made before then follow.
RecordPayment(w) ==
  /\ "written" \in Events
  /\ work[w].step = "idle" /\ ~recorded /\ recorded' = TRUE
  /\ work' = IF \E r \in Rows : Behind(r)
             THEN [work EXCEPT ![w] = [NoWork EXCEPT !.step = "follow", !.then = "last"]] ELSE work
  /\ UNCHANGED <<made, news, row, committed, shown, faults>>

Crash(w) ==
  /\ work[w].step # "idle" /\ Fault("crash") /\ Throws(w)
  /\ UNCHANGED <<made, row, committed, recorded, shown>>

-----------------------------------------------------------------------------
Step(w) ==
  \/ HoldRead(w) \/ HoldCommit(w) \/ HoldAgain(w) \/ MakeRow(w) \/ Ask(w) \/ Move(w) \/ Merge(w)
  \/ Decide(w) \/ FollowRead(w) \/ WriteTotal(w) \/ MarkRow(w) \/ FlagPast(w) \/ Check(w)

Next ==
  \/ \E d \in Desk : MakeAtDesk(d)
  \/ \E p \in Refs : Progress(p)
  \/ \E w \in Workers : \/ \E k \in Keys : Request(w, k)
                        \/ \E r \in Rows : Settle(w, r)
                        \/ \E p \in Refs : Event(w, p)
                        \/ RecordPayment(w) \/ Step(w) \/ Crash(w)

Spec == Init /\ [][Next]_vars

\* Live processes go on; the sweep queues every waiting row's job and every
\* event's, and the queue comes to each.  No person or provider has to act.
Fairness ==
  /\ \A w \in Workers : WF_vars(Step(w))
  /\ \A r \in Rows : SF_vars(\E w \in Workers : Settle(w, r))
  /\ \A p \in Refs : SF_vars(\E w \in Workers : Event(w, p))

FairSpec == Spec /\ Fairness

-----------------------------------------------------------------------------
(* Properties *)

\* "What may still be refunded is the money taken less every refund not failed
\* or cancelled" (refunds.ts, the head): the hold never says less than the rows.
HoldCovers == SumOf(LiveRows) <= committed

\* "Two people refunding at once can never promise back more than was taken"
\* (refunds.ts, the head), whatever is refunded in the dashboard meanwhile.
StaffWithinTaken == SumOf({ r \in LiveRows : r[1] = "staff" }) <= Taken

\* With nobody at work and no refund left to follow, the record shows what stands
\* refunded, unless a person was told.
RecordAgrees ==
  /\ recorded /\ \A w \in Workers : work[w].step = "idle"
  /\ \A r \in Rows : ~Behind(r) /\ ~row[r].more
  => shown = Shown({ r \in Rows : row[r].state = "succeeded" })

\* From reading the payment's refunds to the last mark a worker is on its own: no
\* other moves a refund of it or follows.  Nothing in the code sees to this.
FollowsAlone ==
  \A v, w \in Workers :
    v # w /\ work[v].step \in {"write", "mark"} => work[w].step \notin {"move", "decide", "follow", "write", "mark"}

\* "The record follows" (refunds.ts, the head), whoever dies, fails or is tried
\* again, as long as no two follow at once.  ("A race writes the same thing", says
\* refunds.ts:37; of two that race the older total may land last, with every mark set.)
RecordFollows == []FollowsAlone => []RecordAgrees

\* "A provider that cannot be reached leaves it `requested`: the refund job asks
\* again later with the same key" (refunds.ts, the head), and has an answer in the end.
RequestedEnds == \A r \in Rows : row[r].state = "requested" ~> row[r].state # "requested"

\* "A refund done, then failed (a closed card), is taken back out of the record"
\* (refunds.ts, the head): what failed at the provider ends as failed here, and
\* out of the record.
FailureTakenBack ==
  \A p \in Refs : made[p] = "failed" /\ recorded
                   ~> \A r \in With(p) : row[r].state \in {"failed", "cancelled"} /\ ~Behind(r)

\* "Flagged and tried again until it lands" (refunds.ts, the head).
BehindEnds == \A r \in Rows : Behind(r) /\ recorded ~> ~Behind(r)
=============================================================================
