----------------------------- MODULE CampaignRun -----------------------------
(***************************************************************************)
(* One campaign run: the chain of email.campaign-run batches               *)
(* (apps/server/src/jobs/email-campaign-run.ts) over the run's row         *)
(* (packages/meta/src/repos/email-runs.ts) and its ledger of recipients    *)
(* (packages/meta/src/repos/email-sends.ts), with the operator's requests  *)
(* (apps/server/src/routes/email-templates/index.ts) beside it.            *)
(*                                                                         *)
(* A statement or transaction on the meta store is one step; two           *)
(* consecutive statements are one step where nobody else can tell.  The    *)
(* job queue under the chain is what JobQueue promises: a batch job is     *)
(* executed by one worker at a time (JobQueue!OneLiveRun), again after a   *)
(* crash or a failure, and several jobs may be executed at once.           *)
(***************************************************************************)
EXTENDS Naturals, FiniteSetsExt

CONSTANTS
  People,      \* places 1, 2, ... of the ledger: whom the audience leaves to be mailed
  Batches,     \* ids of batch jobs; the id of an ended one nobody names is used again
  NoBatch,     \* job_id NULL, claim_token NULL
  BatchMax,    \* CAMPAIGN_BATCH_MAX
  Events       \* what the environment may do in this instance

EventKinds ==
  { "crash",       \* a server dies in the middle of a batch or a give-up
    "cut",         \* a statement of a batch fails and its job is tried again
    "dead",        \* ... and its tries may be used up
    "abort",       \* a batch stops before its last row: a clean stop, or its time budget
    "cap",         \* the hour's cap is used up
    "refuse",      \* a check of the sender, or of the campaign, ends the run
    "giveup",      \* the mail queue gives up on a message, or stops it at the door
    "notice",      \* a mail service, or the person, tells about a message that went
    "pause",       \* operators pause and resume
    "stop",        \* operators stop or cancel
    "early",       \* ... a resume may queue its head while another batch is still starting the run
    "slow",        \* a resume reads the run some time before it moves it
    "lost" }       \* a resume dies between its two writes

ASSUME CampaignAssumption ==
  /\ IsFiniteSet(People) /\ People = 1 .. Cardinality(People)
  /\ IsFiniteSet(Batches)
  /\ BatchMax \in Nat \ {0}
  /\ NoBatch \notin Batches
  /\ Events \subseteq EventKinds

VARIABLES
  run,       \* the row in adminium_email_runs
  ledger,    \* adminium_email_sends: one row per place
  content,   \* whether the run's content is frozen (a unique row per run)
  mail,      \* how many email.send jobs were queued for each person
  owed,      \* give-ups that are on the ledger and not yet on the run
  queue,     \* the batch jobs in the job queue
  batch,     \* the execution of each batch job
  asked      \* the operator's request that is under way

vars == <<run, ledger, content, mail, owed, queue, batch, asked>>

Over == {"sent", "failed", "cancelled"}
Starting == {"clear", "freeze", "write", "undo"}

Absent == [state |-> "absent", token |-> NoBatch]
Queued == [state |-> "queued", token |-> NoBatch]

\* `mine` is what is left to write, or to hand; `skipped` and `failed` are the
\* rows this batch settled and has not counted on the run.
NoWork == [pc |-> "none", mine |-> {}, skipped |-> 0, failed |-> 0]
NoRequest == [pc |-> "none", head |-> NoBatch]

Count == 0 .. Cardinality(People)

TypeOK ==
  /\ run \in [ status : {"none", "scheduled", "running"} \cup Over,
               state : {"running", "paused", "stopped", "done"},
               head : Batches \cup {NoBatch}, sent : Count, failed : Count, skipped : Count ]
  /\ ledger \in [People -> [ state : {"absent", "queued", "sending", "sent", "skipped", "failed", "noticed"},
                             token : Batches \cup {NoBatch} ]]
  /\ content \in BOOLEAN
  /\ mail \in [People -> 0 .. 2]
  /\ owed \subseteq People \X {"failed", "skipped"}
  /\ queue \in [Batches -> {"none", "pending", "running", "ended"}]
  /\ batch \in [Batches -> [ pc : {"none", "begin", "check", "refuse", "claim", "take", "hand", "close",
                                   "decide", "sent", "failed", "next", "done"} \cup Starting,
                             mine : SUBSET People, skipped : Count, failed : Count ]]
  /\ asked \in [ pc : {"none", "resume", "head", "cancel"}, head : Batches \cup {NoBatch} ]

-----------------------------------------------------------------------------
(* State formulae *)

InState(s) == { p \in People : ledger[p].state \in s }

\* Rows not yet handed over or settled.
Remaining == InState({"queued", "sending"})

\* The row is still claimed under j's token.
Holds(j, p) == ledger[p] = [state |-> "sending", token |-> j]

\* A job id no row, run, request or execution names.
Unused(j) ==
  /\ queue[j] \in {"none", "ended"} /\ batch[j].pc = "none"
  /\ j \notin {run.head, asked.head}
  /\ \A p \in People : ledger[p].token # j

\* A slip: a batch hands over in whatever state the run is.
MayHandAnyState(j) == run.head = j

\* countHanded: only the head of a running run hands.
MayHand(j) == run.state = "running" /\ run.head = j

\* A slip: rows claimed by another batch are taken for done.
LeftQueuedOnly == InState({"queued"}) # {}

\* remaining() > 0
Left == Remaining # {}

\* releaseClaims: every claimed row goes back.
ReleaseClaims ==
  [p \in People |-> IF ledger[p].state = "sending" THEN Queued ELSE ledger[p]]

\* unclaimAll: every row still claimed by j goes back.
UnclaimAll(j) == [p \in People |-> IF Holds(j, p) THEN Queued ELSE ledger[p]]

\* settleClaimed: p leaves `sending` only while it is j's.
Settle(j, p, state) ==
  IF Holds(j, p) THEN [ledger EXCEPT ![p] = [state |-> state, token |-> NoBatch]] ELSE ledger

At(j, pc) == queue[j] = "running" /\ batch[j].pc = pc
Goto(j, pc) == batch' = [batch EXCEPT ![j].pc = pc]

\* The handler throws: the queue tries the job again, or gives up on it.
Throw(j) ==
  /\ batch' = [batch EXCEPT ![j] = NoWork]
  /\ \E s \in {"pending"} \cup (IF "dead" \in Events THEN {"ended"} ELSE {}) :
       queue' = [queue EXCEPT ![j] = s]

\* jobs.cancel on the head that was read: it ends if it is still waiting.
CancelWaiting(j) ==
  queue' = IF j # NoBatch /\ queue[j] = "pending" THEN [queue EXCEPT ![j] = "ended"] ELSE queue

Init ==
  /\ run = [status |-> "none", state |-> "running", head |-> NoBatch,
            sent |-> 0, failed |-> 0, skipped |-> 0]
  /\ ledger = [p \in People |-> Absent]
  /\ content = FALSE
  /\ mail = [p \in People |-> 0]
  /\ owed = {}
  /\ queue = [j \in Batches |-> "none"]
  /\ batch = [j \in Batches |-> NoWork]
  /\ asked = NoRequest

-----------------------------------------------------------------------------
(* The operator *)

\* Send: the run, its first batch and the run's pointer at it in one transaction.
Send ==
  /\ run.status = "none"
  /\ \E j \in Batches :
       /\ Unused(j)
       /\ run' = [run EXCEPT !.status = "scheduled", !.head = j]
       /\ queue' = [queue EXCEPT ![j] = "pending"]
  /\ UNCHANGED <<ledger, content, mail, owed, batch, asked>>

\* Pause: the run first, then the waiting head is cancelled, unless a worker
\* took it in between or the chain went on after the request read the run.
Pause ==
  /\ "pause" \in Events
  /\ run.status \in {"scheduled", "running"} /\ run.state = "running"
  /\ run' = [run EXCEPT !.state = "paused"]
  /\ CancelWaiting(run.head) \/ UNCHANGED queue
  /\ UNCHANGED <<ledger, content, mail, owed, batch, asked>>

Resumable == run.status \in {"scheduled", "running"} /\ run.state = "paused"

\* Resume reads the run ...
ResumeRead ==
  /\ "slow" \in Events /\ asked = NoRequest /\ Resumable
  /\ asked' = [pc |-> "resume", head |-> run.head]
  /\ UNCHANGED <<run, ledger, content, mail, owed, queue, batch>>

\* ... moves it, if it still can ...
ResumeMove ==
  /\ \/ asked.pc = "resume"
     \/ "slow" \notin Events /\ "pause" \in Events /\ asked = NoRequest /\ Resumable
  /\ IF Resumable
     THEN /\ run' = [run EXCEPT !.state = "running"]
          /\ asked' = [pc |-> "head",
                       head |-> IF asked.pc = "resume" THEN asked.head ELSE run.head]
     ELSE run' = run /\ asked' = NoRequest
  /\ UNCHANGED <<ledger, content, mail, owed, queue, batch>>

\* A slip: "go on" only moves the run.
KeepsHead == FALSE

\* queueHead's advance: the head is still the one that was read.
ReplacesHead == run.head = asked.head

\* ... and queues a new head in place of the one it read, in one transaction;
\* where another holds the chain by now nothing is queued.
ResumeQueue ==
  /\ asked.pc = "head"
  /\ "early" \in Events \/ \A j \in Batches : batch[j].pc \notin Starting
  /\ IF ReplacesHead
     THEN \E j \in Batches :
            /\ Unused(j)
            /\ run' = [run EXCEPT !.head = j]
            /\ queue' = [queue EXCEPT ![j] = "pending"]
     ELSE UNCHANGED <<run, queue>>
  /\ asked' = NoRequest
  /\ UNCHANGED <<ledger, content, mail, owed, batch>>

\* The server answering the resume dies before it queued the head.
ResumeLost ==
  /\ "lost" \in Events /\ asked.pc = "head"
  /\ asked' = NoRequest
  /\ UNCHANGED <<run, ledger, content, mail, owed, queue, batch>>

\* stopForGood: the run, then its claims, then its waiting head; from the first
\* of them on no row can be handed over.
Stop ==
  /\ "stop" \in Events
  /\ run.status \in {"scheduled", "running"} /\ run.state \in {"running", "paused"}
  /\ run' = [run EXCEPT !.status = "cancelled", !.state = "stopped"]
  /\ ledger' = ReleaseClaims
  /\ CancelWaiting(run.head) \/ UNCHANGED queue
  /\ UNCHANGED <<content, mail, owed, batch, asked>>

\* Cancelling a scheduled run reads it ...
CancelRead ==
  /\ "stop" \in Events /\ asked = NoRequest
  /\ run.status = "scheduled" /\ run.state # "paused"
  /\ asked' = [pc |-> "cancel", head |-> run.head]
  /\ UNCHANGED <<run, ledger, content, mail, owed, queue, batch>>

\* ... and then writes it, whatever it is by now.
CancelWrite ==
  /\ asked.pc = "cancel"
  /\ run' = [run EXCEPT !.status = "cancelled", !.state = "stopped", !.head = NoBatch]
  /\ CancelWaiting(asked.head)
  /\ asked' = NoRequest
  /\ UNCHANGED <<ledger, content, mail, owed, batch>>

-----------------------------------------------------------------------------
(* A batch starts *)

\* The worker takes the job: waiting, or left running by a server that died.
Take(j) ==
  /\ queue[j] = "pending" \/ At(j, "none")
  /\ queue' = [queue EXCEPT ![j] = "running"]
  /\ batch' = [batch EXCEPT ![j] = [NoWork EXCEPT !.pc = "begin"]]
  /\ UNCHANGED <<run, ledger, content, mail, owed, asked>>

\* The handler's first read: an ended run, one it is not the head of, or one
\* that is not to go on, is left alone.
Begin(j) ==
  /\ At(j, "begin")
  /\ IF run.status \in Over \/ run.head # j \/ run.state # "running" THEN Goto(j, "done")
     ELSE IF run.status = "scheduled" THEN Goto(j, "clear")
     ELSE Goto(j, "check")
  /\ UNCHANGED <<run, ledger, content, mail, owed, queue, asked>>

\* start: the campaign is gone or no mail server is set; the run fails.
StartRefused(j) ==
  /\ "refuse" \in Events /\ At(j, "clear")
  /\ run' = [run EXCEPT !.status = "failed", !.state = "done"]
  /\ Goto(j, "done")
  /\ UNCHANGED <<ledger, content, mail, owed, queue, asked>>

\* start: what a start that died half-way wrote is removed.
Clear(j) ==
  /\ At(j, "clear")
  /\ ledger' = [p \in People |-> Absent]
  /\ content' = FALSE
  /\ Goto(j, "freeze")
  /\ UNCHANGED <<run, mail, owed, queue, asked>>

\* start: the content is frozen; a unique index refuses a second copy.
Freeze(j) ==
  /\ At(j, "freeze")
  /\ IF content
     THEN Throw(j) /\ UNCHANGED content
     ELSE /\ content' = TRUE
          /\ batch' = [batch EXCEPT ![j].pc = "write", ![j].mine = People]
          /\ UNCHANGED queue
  /\ UNCHANGED <<run, ledger, mail, owed, asked>>

\* writeRecipients, a chunk at a time; a unique index refuses a second copy of
\* a place.
Write(j) ==
  /\ At(j, "write") /\ batch[j].mine # {}
  /\ LET p == Min(batch[j].mine) IN
       IF ledger[p] # Absent
       THEN Throw(j) /\ UNCHANGED ledger
       ELSE /\ ledger' = [ledger EXCEPT ![p] = Queued]
            /\ batch' = [batch EXCEPT ![j].mine = @ \ {p}]
            /\ UNCHANGED queue
  /\ UNCHANGED <<run, content, mail, owed, asked>>

\* runs.start: only the head moves the run from `scheduled`.
StartRun(j) ==
  /\ At(j, "write") /\ batch[j].mine = {}
  /\ IF run.status = "scheduled" /\ run.head = j
     THEN /\ run' = [run EXCEPT !.status = "running", !.sent = 0, !.failed = 0, !.skipped = 0]
          /\ Goto(j, "check")
     ELSE Goto(j, "undo") /\ UNCHANGED run
  /\ UNCHANGED <<ledger, content, mail, owed, queue, asked>>

\* It never started, so it keeps no log.
Undo(j) ==
  /\ At(j, "undo")
  /\ ledger' = [p \in People |-> Absent]
  /\ content' = FALSE
  /\ Goto(j, "done")
  /\ UNCHANGED <<run, mail, owed, queue, asked>>

-----------------------------------------------------------------------------
(* A batch hands over *)

\* The check of the whole batch passes or not; whatever an earlier batch claimed
\* and did not hand goes back first, either way.
Check(j) ==
  /\ At(j, "check")
  /\ ledger' = ReleaseClaims
  /\ Goto(j, "claim") \/ ("refuse" \in Events /\ Goto(j, "refuse"))
  /\ UNCHANGED <<run, content, mail, owed, queue, asked>>

\* The sender may no longer send: the run ends.
Refuse(j) ==
  /\ At(j, "refuse")
  /\ run' = IF run.state \in {"running", "paused"}
            THEN [run EXCEPT !.status = "failed", !.state = "stopped"] ELSE run
  /\ Goto(j, "done")
  /\ UNCHANGED <<ledger, content, mail, owed, queue, asked>>

\* The hour's cap is used up: the next batch waits.
CapFull(j) ==
  /\ "cap" \in Events /\ At(j, "claim")
  /\ Goto(j, "next")
  /\ UNCHANGED <<run, ledger, content, mail, owed, queue, asked>>

\* claim's SELECT: the first queued rows (BatchMax of them, or what the cap leaves).
ClaimSelect(j) ==
  /\ At(j, "claim")
  /\ LET queued == InState({"queued"}) IN
     \E first \in SUBSET queued :
       /\ Cardinality(first) <= BatchMax
       /\ first = {} => queued = {}
       /\ \A p \in first, q \in queued \ first : p < q
       /\ batch' = [batch EXCEPT ![j].pc = "take", ![j].mine = first]
  /\ UNCHANGED <<run, ledger, content, mail, owed, queue, asked>>

\* claim's UPDATE puts those that are still queued under the batch's token;
\* without frozen content the handler then throws.
Claim(j) ==
  /\ At(j, "take")
  /\ LET mine == batch[j].mine \cap InState({"queued"}) IN
       /\ ledger' = [p \in People |->
            IF p \in mine THEN [state |-> "sending", token |-> j] ELSE ledger[p]]
       /\ IF content
          THEN batch' = [batch EXCEPT ![j].pc = "hand", ![j].mine = mine] /\ UNCHANGED queue
          ELSE Throw(j)
  /\ UNCHANGED <<run, content, mail, owed, asked>>

\* The row the batch is at.
AtRow(j, p) == At(j, "hand") /\ batch[j].mine # {} /\ p = Min(batch[j].mine)

NextRow(j, p) == batch[j].mine \ {p}

\* Slips: the transaction asks only whether the run is running; it commits
\* although the row was lost.
HandsUnchecked(j, p) == run.state = "running"
HandsLostRow(j, p) == MayHand(j)

\* What the hand-over's transaction asks before it commits: countHanded and
\* markHanded.
Hands(j, p) == MayHand(j) /\ Holds(j, p)

\* One transaction counts the row, queues its message and marks it.  Lost the
\* run: the batch hands no more.  Lost the row: it goes on with the next.
HandOver(j, p) ==
  /\ AtRow(j, p)
  /\ IF Hands(j, p)
     THEN /\ run' = [run EXCEPT !.sent = IF @ < Cardinality(People) THEN @ + 1 ELSE @]
          /\ mail' = [mail EXCEPT ![p] = IF @ < 2 THEN @ + 1 ELSE 2]
          /\ ledger' = Settle(j, p, "sent")
     ELSE UNCHANGED <<run, mail, ledger>>
  /\ batch' = [batch EXCEPT ![j].mine = NextRow(j, p),
                            ![j].pc = IF MayHand(j) THEN "hand" ELSE "close"]
  /\ UNCHANGED <<content, owed, queue, asked>>

\* The row's check says no.
Skip(j, p) ==
  /\ AtRow(j, p)
  /\ ledger' = Settle(j, p, "skipped")
  /\ batch' = [batch EXCEPT ![j].mine = NextRow(j, p),
                            ![j].skipped = IF Holds(j, p) THEN @ + 1 ELSE @]
  /\ UNCHANGED <<run, content, mail, owed, queue, asked>>

\* The row's message cannot be made or queued.
FailRow(j, p) ==
  /\ AtRow(j, p)
  /\ ledger' = Settle(j, p, "failed")
  /\ batch' = [batch EXCEPT ![j].mine = NextRow(j, p),
                            ![j].failed = IF Holds(j, p) THEN @ + 1 ELSE @]
  /\ UNCHANGED <<run, content, mail, owed, queue, asked>>

\* The signal is aborted, or the time budget is spent: no more rows.
Break(j) ==
  /\ "abort" \in Events /\ At(j, "hand") /\ batch[j].mine # {}
  /\ Goto(j, "close")
  /\ UNCHANGED <<run, ledger, content, mail, owed, queue, asked>>

\* Slips: what the batch settled is never counted; it is counted twice.
CountNothing(j) == run
CountSettledTwice(j) ==
  [run EXCEPT !.skipped = @ + 2 * batch[j].skipped, !.failed = @ + 2 * batch[j].failed]

\* countSettled
CountSettled(j) ==
  LET plus(n, m) == IF n + m <= Cardinality(People) THEN n + m ELSE Cardinality(People)
  IN  [run EXCEPT !.skipped = plus(@, batch[j].skipped), !.failed = plus(@, batch[j].failed)]

\* What was claimed and not reached goes back, and what was settled is counted.
Close(j) ==
  /\ \/ At(j, "close")
     \/ At(j, "hand") /\ batch[j].mine = {}
  /\ ledger' = UnclaimAll(j)
  /\ run' = CountSettled(j)
  /\ batch' = [batch EXCEPT ![j] = [NoWork EXCEPT !.pc = "decide"]]
  /\ UNCHANGED <<content, mail, owed, queue, asked>>

\* The run read again, and whether rows are left: the head of a running run
\* finishes it, or goes on.
Decide(j) ==
  /\ At(j, "decide")
  /\ Goto(j, IF ~MayHand(j) THEN "done"
             ELSE IF Left THEN "next"
             ELSE IF run.sent = 0 /\ run.failed > 0 THEN "failed" ELSE "sent")
  /\ UNCHANGED <<run, ledger, content, mail, owed, queue, asked>>

\* finish, with the verdict drawn from what was read.
Finish(j) ==
  /\ At(j, "sent") \/ At(j, "failed")
  /\ run' = IF run.state = "running" /\ run.status = "running"
            THEN [run EXCEPT !.status = batch[j].pc, !.state = "done"] ELSE run
  /\ Goto(j, "done")
  /\ UNCHANGED <<ledger, content, mail, owed, queue, asked>>

\* queueNext: the successor is queued and made the head in one transaction, or
\* neither when this batch is no longer the head.
QueueNext(j) ==
  /\ At(j, "next")
  /\ IF run.head = j
     THEN \E k \in Batches :
            /\ Unused(k)
            /\ run' = [run EXCEPT !.head = k]
            /\ queue' = [queue EXCEPT ![k] = "pending"]
     ELSE UNCHANGED <<run, queue>>
  /\ Goto(j, "done")
  /\ UNCHANGED <<ledger, content, mail, owed, asked>>

\* The worker records that the handler returned.
Complete(j) ==
  /\ At(j, "done")
  /\ queue' = [queue EXCEPT ![j] = "ended"]
  /\ batch' = [batch EXCEPT ![j] = NoWork]
  /\ UNCHANGED <<run, ledger, content, mail, owed, asked>>

\* A statement of the batch fails.
Cut(j) ==
  /\ "cut" \in Events /\ queue[j] = "running" /\ batch[j].pc \notin {"none", "done"}
  /\ Throw(j)
  /\ UNCHANGED <<run, ledger, content, mail, owed, asked>>

\* The server dies: the job stays running under a lock that will go stale.
Crash(j) ==
  /\ "crash" \in Events /\ queue[j] = "running" /\ batch[j].pc # "none"
  /\ batch' = [batch EXCEPT ![j] = NoWork]
  /\ UNCHANGED <<run, ledger, content, mail, owed, queue, asked>>

-----------------------------------------------------------------------------
(* After the hand-over: the mail queue and the mail service *)

\* The mail queue gives up on a message, or stops it at the door (the address is
\* on the do-not-email list by now): markGivenUp takes a row that is `sent` ...
GiveUp(p, as) ==
  /\ "giveup" \in Events /\ ledger[p].state = "sent"
  /\ ledger' = [ledger EXCEPT ![p].state = as]
  /\ owed' = owed \cup {<<p, as>>}
  /\ UNCHANGED <<run, content, mail, queue, batch, asked>>

\* ... and countGivenUp, or countStoppedAtDelivery, counts it on the run (the
\* bound 0 is the model's, the code has no floor).
CountGivenUp(p, as) ==
  /\ <<p, as>> \in owed
  /\ owed' = owed \ {<<p, as>>}
  /\ run' = [run EXCEPT !.sent = IF @ > 0 THEN @ - 1 ELSE 0,
                        ![as] = IF @ < Cardinality(People) THEN @ + 1 ELSE @]
  /\ UNCHANGED <<ledger, content, mail, queue, batch, asked>>

\* The server dies between the two, and the row is not `sent` when it is tried again.
GiveUpLost(p, as) ==
  /\ "crash" \in Events /\ <<p, as>> \in owed
  /\ owed' = owed \ {<<p, as>>}
  /\ UNCHANGED <<run, ledger, content, mail, queue, batch, asked>>

\* A bounce, a spam report or an unsubscription about a message that went: the
\* row says so, and the run counts it as sent.
Notice(p) ==
  /\ "notice" \in Events /\ ledger[p].state = "sent"
  /\ ledger' = [ledger EXCEPT ![p].state = "noticed"]
  /\ UNCHANGED <<run, content, mail, owed, queue, batch, asked>>

-----------------------------------------------------------------------------
Starts(j) == \/ StartRefused(j) \/ Clear(j) \/ Freeze(j) \/ Write(j) \/ StartRun(j) \/ Undo(j)

Rows(j) == \E p \in People : HandOver(j, p) \/ Skip(j, p) \/ FailRow(j, p)

BatchStep(j) ==
  \/ Begin(j) \/ Starts(j) \/ Check(j) \/ Refuse(j) \/ CapFull(j)
  \/ ClaimSelect(j) \/ Claim(j) \/ Rows(j)
  \/ Close(j) \/ Decide(j) \/ Finish(j) \/ QueueNext(j) \/ Complete(j)

Operator ==
  \/ Send \/ Pause \/ ResumeRead \/ ResumeMove \/ ResumeQueue \/ ResumeLost
  \/ Stop \/ CancelRead \/ CancelWrite

Next ==
  \/ Operator
  \/ \E j \in Batches : Take(j) \/ BatchStep(j) \/ Break(j) \/ Cut(j) \/ Crash(j)
  \/ \E p \in People : Notice(p)
  \/ \E p \in People, as \in {"failed", "skipped"} :
       GiveUp(p, as) \/ CountGivenUp(p, as) \/ GiveUpLost(p, as)

Spec == Init /\ [][Next]_vars

\* Jobs are taken, batches go on, and a resume that moved the run goes on.  Not
\* every batch is stopped before its first row: its budget is seconds, and it
\* asks for the time only between rows.
Fairness ==
  /\ WF_vars(ResumeQueue)
  /\ SF_vars(\E j \in Batches : Rows(j))
  /\ \A j \in Batches : WF_vars(Take(j)) /\ WF_vars(BatchStep(j))

FairSpec == Spec /\ Fairness

-----------------------------------------------------------------------------
(* What a run promises *)

\* Nobody is mailed twice (the header of email-campaign-run.ts, "AT MOST ONCE").
AtMostOnce == \A p \in People : mail[p] <= 1

\* A run that says it was sent has left nobody out (the header, "NEVER LOST"):
\* each row was handed, or settled with a reason.
NeverLost ==
  run.status = "sent" =>
    \A p \in People : \/ ledger[p].state \in {"skipped", "failed"}
                      \/ ledger[p].state \in {"sent", "noticed"} /\ mail[p] > 0

\* The message and the ledger agree: whoever has a message queued is marked
\* handed, or given up or noticed since, whatever died in between (one transaction).
HandedIsMarked ==
  \A p \in People :
    /\ mail[p] > 0 => ledger[p].state \in {"sent", "noticed", "skipped", "failed"}
    /\ ledger[p].state \in {"sent", "noticed"} => mail[p] > 0

\* The run's counts and its ledger agree, up to what batches and give-ups still
\* have to count, as long as no server dies and no statement fails.
CountsMatch ==
  LET settled(f) == MapThenSumSet(LAMBDA j : batch[j][f], Batches)
      owing(f) == { p \in People : <<p, f>> \in owed }
  IN  run.status \in {"running", "sent"} =>
        /\ run.sent = Cardinality(InState({"sent", "noticed"}) \cup owing("skipped")
                                                               \cup owing("failed"))
        /\ \A f \in {"skipped", "failed"} :
             run[f] + settled(f) = Cardinality(InState({f}) \ owing(f))

\* A run that is to go on has somebody to go on: its head waits, or is being
\* worked on, or will be tried again, but for the moment a resume needs.
RunningHasHead ==
  /\ run.status \in {"scheduled", "running"} /\ run.state = "running"
  /\ asked.pc # "head"
  => run.head # NoBatch /\ queue[run.head] \in {"pending", "running"}

\* A run that was sent off ends, however often it is paused, before its start or
\* after it, as long as it is not left paused for good: each resume puts a head in
\* place that goes on with what the batches before it left.
RunEnds ==
  (<>[](run.state # "paused")) =>
    (run.status \in {"scheduled", "running"} ~> run.status \in Over)

Phase ==
  CASE run.status \in {"none", "scheduled"} -> "waiting"
    [] run.status = "running" -> IF run.state = "running" THEN "open" ELSE "paused"
    [] run.status = "sent" -> "sent"
    [] OTHER -> "halted"

Promise ==
  INSTANCE CampaignPromise WITH
    mailed <- { p \in People : mail[p] > 0 },
    excused <- { p \in InState({"skipped", "failed"}) : mail[p] = 0 },
    phase <- Phase

\* A run implements its promise: at most once, only while it is open, nobody
\* left out of one that was sent, and nobody mailed once it was stopped.
ImplementsPromise == Promise!Spec
=============================================================================
