------------------------------ MODULE JobQueue ------------------------------
(***************************************************************************)
(* The table-backed job queue: the adminium_jobs repository                *)
(* (packages/meta/src/repos/jobs.ts) and the polling worker over it        *)
(* (apps/server/src/jobs/worker.ts), with several worker processes that    *)
(* share one table, crash, restart and are drained.                        *)
(*                                                                         *)
(* Each statement sent to the meta store is one atomic step; everything    *)
(* between two awaits of the worker is one step with the statement that    *)
(* ends it.  Time is relative: a row carries the ticks until it is due     *)
(* (`wait`, for run_at) and the ticks since its lock was stamped           *)
(* (`lockAge`, for locked_at), the second saturating one past the stale    *)
(* window.  A tick stands for one lock-refresh interval.                   *)
(***************************************************************************)
EXTENDS Naturals, FiniteSets

CONSTANTS
  Jobs,           \* job ids
  Workers,        \* worker processes (their workerId)
  Keys,           \* dedupe keys
  NoKey,          \* dedupe_key NULL
  Nobody,         \* locked_by NULL
  MaxAttempts,    \* max_attempts of every row
  Concurrency,    \* parallel slots of one worker
  StaleTicks,     \* JOB_STALE_LOCK_MS in refresh intervals
  BackoffTicks,   \* ticks a put-back job waits
  AttemptCap,     \* attempts are counted up to here (the code only compares them with MaxAttempts)
  Faults          \* what the environment may do in this instance

FaultKinds ==
  { "crash",      \* a process dies with whatever it was doing
    "stop",       \* a clean shutdown: JobWorker.stop
    "cut",        \* a statement of the worker fails (the meta store is away)
    "late" }      \* a live run's refreshes do not land for the whole stale window

ASSUME QueueAssumption ==
  /\ MaxAttempts \in Nat \ {0}
  /\ Concurrency \in Nat \ {0}
  /\ StaleTicks \in Nat \ {0}
  /\ BackoffTicks \in Nat \ {0}
  /\ AttemptCap \in Nat /\ AttemptCap > MaxAttempts
  /\ Faults \subseteq FaultKinds
  /\ NoKey \notin Keys
  /\ Nobody \notin Workers

VARIABLES
  job,      \* the table: one row per id
  life,     \* where each process is between start and exit
  poll,     \* each worker's claim in flight: its step and the candidates it read
  run,      \* each worker's `running` map: the execution of each job it launched
  awaited   \* the runs a stop() is waiting for

vars == <<job, life, poll, run, awaited>>

Active == {"pending", "running"}
Ended == {"succeeded", "failed", "cancelled"}
Statuses == {"none", "gone"} \cup Active \cup Ended

Attempts == 0 .. AttemptCap

Row == [ status : Statuses, wait : 0 .. BackoffTicks, attempts : Attempts,
         lockedBy : Workers \cup {Nobody}, lockAge : 0 .. StaleTicks + 1,
         key : Keys \cup {NoKey} ]

\* What claim's SELECT keeps of a candidate.
Snapshot == [ id : Jobs, status : Active, attempts : Attempts ]

\* `idle` between two claims, `trying` between the SELECT and the guarded
\* UPDATE, `reading` between the UPDATE that won and the findById after it.
Poll == [ pc : {"idle", "trying", "reading"}, cand : SUBSET Snapshot ]

\* `failing` between fail's findById and its UPDATE (`seen` is the attempts
\* it read); `settled` once the row was written and until running.delete.
Run == [ pc : {"none", "handler", "failing", "settled"}, aborted : BOOLEAN,
         seen : Attempts ]

Idle == [ pc |-> "idle", cand |-> {} ]
NoRun == [ pc |-> "none", aborted |-> FALSE, seen |-> 0 ]

TypeOK ==
  /\ job \in [Jobs -> Row]
  /\ life \in [Workers -> {"down", "up", "draining", "aborting", "stopped"}]
  /\ poll \in [Workers -> Poll]
  /\ run \in [Workers -> [Jobs -> Run]]
  /\ awaited \in [Workers -> SUBSET Jobs]

-----------------------------------------------------------------------------
(* State formulae *)

\* The keys of the worker's `running` map.
Running(w) == { j \in Jobs : run[w][j].pc # "none" }

Stale(j) == job[j].lockAge > StaleTicks

\* A slip of claim's WHERE: stale locks are never looked for.
ClaimableOnlyPending(j) == job[j].status = "pending" /\ job[j].wait = 0

\* claim's WHERE: due and pending, or running under a stale lock.
Claimable(j) ==
  \/ job[j].status = "pending" /\ job[j].wait = 0
  \/ job[j].status = "running" /\ Stale(j)

\* A slip: the UPDATE is guarded on the status alone.
StillSameStatus(c) == job[c.id].status = c.status

\* claim's UPDATE guard on a candidate.  `lockedAt = candidate.lockedAt` holds
\* exactly while the stale lock it read has not been stamped again: no tick
\* passes between the SELECT and the UPDATE, so a new stamp is not stale.
StillAsRead(c) ==
  /\ job[c.id].status = c.status
  /\ c.status = "running" => Stale(c.id)

\* Worker w is at work on j, or about to launch it.
Live(w, j) ==
  \/ run[w][j].pc \in {"handler", "failing"}
  \/ poll[w].pc = "reading" /\ \E c \in poll[w].cand : c.id = j

\* A slip: the dedupe key is kept.
EndedRowKeepsKey(j, s) ==
  [job[j] EXCEPT !.status = s, !.lockedBy = Nobody, !.lockAge = 0]

\* What every statement that ends a row writes.
EndedRow(j, s) ==
  [job[j] EXCEPT !.status = s, !.key = NoKey, !.lockedBy = Nobody, !.lockAge = 0]

\* fail: back to pending for a later try.
PutBackRow(j) ==
  [job[j] EXCEPT !.status = "pending", !.wait = BackoffTicks,
                 !.lockedBy = Nobody, !.lockAge = 0]

\* complete and fail write only `where status = 'running'`.
WriteIfRunning(j, row) ==
  IF job[j].status = "running" THEN [job EXCEPT ![j] = row] ELSE job

\* A slip: one try too many.
GivesUpLate(attempts) == attempts > MaxAttempts

\* fail: dead-letter, or another try.
GivesUp(attempts) == attempts >= MaxAttempts

\* A slip: no unique index under enqueue's look-up.
KeyFreeAnyway(k) == TRUE

\* No row holds the dedupe key (the look-up, and the unique index under it).
KeyFree(k) == k # NoKey => \A i \in Jobs : job[i].key # k

Cancellable(j) == job[j].status = "pending"

SetRun(w, j, r) == run' = [run EXCEPT ![w][j] = r]
Settled(w, j) == SetRun(w, j, [run[w][j] EXCEPT !.pc = "settled"])

Init ==
  /\ job = [j \in Jobs |-> [status |-> "none", wait |-> 0, attempts |-> 0,
                            lockedBy |-> Nobody, lockAge |-> 0, key |-> NoKey]]
  /\ life = [w \in Workers |-> "up"]
  /\ poll = [w \in Workers |-> Idle]
  /\ run = [w \in Workers |-> [j \in Jobs |-> NoRun]]
  /\ awaited = [w \in Workers |-> {}]

-----------------------------------------------------------------------------
(* Producers and routes *)

\* enqueue: a row holding the key is returned as it is (no step); otherwise the
\* row is inserted, under the unique index on dedupe_key.
Enqueue(j) ==
  /\ job[j].status = "none"
  /\ \E k \in Keys \cup {NoKey}, d \in {0, BackoffTicks} :
       /\ KeyFree(k)
       /\ job' = [job EXCEPT ![j] = [status |-> "pending", wait |-> d, attempts |-> 0,
                                     lockedBy |-> Nobody, lockAge |-> 0, key |-> k]]
  /\ UNCHANGED <<life, poll, run, awaited>>

\* POST /jobs/:id/cancel on a waiting job.
CancelPending(j) ==
  /\ Cancellable(j)
  /\ job' = [job EXCEPT ![j] = EndedRow(j, "cancelled")]
  /\ UNCHANGED <<life, poll, run, awaited>>

\* POST /jobs/:id/cancel on a running job: requestCancel signals the run, when
\* it is this process that has it.
RequestCancel(w, j) ==
  /\ job[j].status = "running"
  /\ run[w][j].pc = "handler" /\ ~run[w][j].aborted
  /\ SetRun(w, j, [run[w][j] EXCEPT !.aborted = TRUE])
  /\ UNCHANGED <<job, life, poll, awaited>>

\* gc: retention deletes rows that ended long ago.
Gc(j) ==
  /\ job[j].status \in Ended
  /\ \A w \in Workers : run[w][j].pc = "none" /\ ~Live(w, j)
  /\ job' = [job EXCEPT ![j].status = "gone"]
  /\ UNCHANGED <<life, poll, run, awaited>>

-----------------------------------------------------------------------------
(* The poll loop *)

\* claim's SELECT.  The loop asks only while it is not stopped and has a slot.
ClaimSelect(w) ==
  /\ life[w] = "up" /\ poll[w].pc = "idle"
  /\ Cardinality(Running(w)) < Concurrency
  /\ \E j \in Jobs : Claimable(j)
  /\ poll' = [poll EXCEPT ![w] =
       [pc |-> "trying",
        cand |-> { [id |-> j, status |-> job[j].status, attempts |-> job[j].attempts] :
                     j \in {i \in Jobs : Claimable(i)} }]]
  /\ UNCHANGED <<job, life, run, awaited>>

\* A slip: the UPDATE counts on from the row as it is now.
AttemptAfterRow(c) ==
  IF job[c.id].attempts < AttemptCap THEN job[c.id].attempts + 1 ELSE AttemptCap

\* claim counts the attempt it starts, from the attempts its SELECT read.
AttemptAfter(c) == IF c.attempts < AttemptCap THEN c.attempts + 1 ELSE AttemptCap

\* The guarded UPDATE wins a candidate: the lock is w's, stamped now.
ClaimWin(w) ==
  /\ poll[w].pc = "trying"
  /\ \E c \in poll[w].cand :
       /\ StillAsRead(c)
       /\ job' = [job EXCEPT ![c.id] = [@ EXCEPT !.status = "running", !.lockedBy = w,
                                          !.lockAge = 0, !.attempts = AttemptAfter(c)]]
       /\ poll' = [poll EXCEPT ![w] = [pc |-> "reading", cand |-> {c}]]
  /\ UNCHANGED <<life, run, awaited>>

\* Affected-rows 0: another worker won this one; the next is tried, and with
\* none left claim returns null and the loop sleeps.
ClaimLose(w) ==
  /\ poll[w].pc = "trying"
  /\ \E c \in poll[w].cand :
       /\ ~StillAsRead(c)
       /\ poll' = [poll EXCEPT ![w] =
            IF poll[w].cand = {c} THEN Idle
            ELSE [pc |-> "trying", cand |-> poll[w].cand \ {c}]]
  /\ UNCHANGED <<job, life, run, awaited>>

\* The claim handed back a job this worker is already running: nothing is launched.
AlreadyRunning(w) ==
  /\ poll[w].pc = "reading"
  /\ \E c \in poll[w].cand : run[w][c.id].pc # "none"
  /\ poll' = [poll EXCEPT ![w] = Idle]
  /\ UNCHANGED <<job, life, run, awaited>>

\* findById answers and the job is launched, even if a stop() began meanwhile.
Launch(w) ==
  /\ poll[w].pc = "reading"
  /\ \E c \in poll[w].cand :
       /\ run[w][c.id].pc = "none"
       /\ SetRun(w, c.id, [NoRun EXCEPT !.pc = "handler"])
  /\ poll' = [poll EXCEPT ![w] = Idle]
  /\ UNCHANGED <<job, life, awaited>>

\* A statement of the claim fails: poll logs it and sleeps.
ClaimCut(w) ==
  /\ "cut" \in Faults
  /\ poll[w].pc # "idle"
  /\ poll' = [poll EXCEPT ![w] = Idle]
  /\ UNCHANGED <<job, life, run, awaited>>

-----------------------------------------------------------------------------
(* A run *)

\* keepLock's timer: guarded on the holder.
Refresh(w, j) ==
  /\ run[w][j].pc # "none"
  /\ job[j].status = "running" /\ job[j].lockedBy = w /\ job[j].lockAge > 0
  /\ job' = [job EXCEPT ![j].lockAge = 0]
  /\ UNCHANGED <<life, poll, run, awaited>>

\* The handler returned: complete() is guarded on the row still running.
Complete(w, j) ==
  /\ run[w][j].pc = "handler" /\ ~run[w][j].aborted
  /\ job' = WriteIfRunning(j, EndedRow(j, "succeeded"))
  /\ Settled(w, j)
  /\ UNCHANGED <<life, poll, awaited>>

\* A slip: the UPDATE does not ask whose lock it is.
MarkCancelledAnyway(w, j) ==
  /\ run[w][j].pc = "handler" /\ run[w][j].aborted
  /\ job' = WriteIfRunning(j, EndedRow(j, "cancelled"))
  /\ Settled(w, j)
  /\ UNCHANGED <<life, poll, awaited>>

\* The handler returned or threw with its signal aborted: markCancelled is
\* guarded on this worker's own lock.
MarkCancelled(w, j) ==
  /\ run[w][j].pc = "handler" /\ run[w][j].aborted
  /\ job' = IF job[j].status = "running" /\ job[j].lockedBy = w
            THEN [job EXCEPT ![j] = EndedRow(j, "cancelled")] ELSE job
  /\ Settled(w, j)
  /\ UNCHANGED <<life, poll, awaited>>

\* The handler threw: fail() first reads the row.
FailRead(w, j) ==
  /\ run[w][j].pc = "handler" /\ ~run[w][j].aborted
  /\ IF job[j].status = "running"
     THEN SetRun(w, j, [pc |-> "failing", aborted |-> FALSE, seen |-> job[j].attempts])
     ELSE Settled(w, j)
  /\ UNCHANGED <<job, life, poll, awaited>>

\* fail() then writes what it decided from what it read, if the row is running.
FailWrite(w, j) ==
  /\ run[w][j].pc = "failing"
  /\ job' = WriteIfRunning(j, IF GivesUp(run[w][j].seen)
                              THEN EndedRow(j, "failed") ELSE PutBackRow(j))
  /\ Settled(w, j)
  /\ UNCHANGED <<life, poll, awaited>>

\* complete and then fail (or fail, or markCancelled) cannot reach the meta
\* store: "job bookkeeping failed", and the row stays running.
BookkeepingCut(w, j) ==
  /\ "cut" \in Faults
  /\ run[w][j].pc \in {"handler", "failing"}
  /\ Settled(w, j)
  /\ UNCHANGED <<job, life, poll, awaited>>

\* launch's finally: the run leaves the map.
Leave(w, j) ==
  /\ run[w][j].pc = "settled"
  /\ SetRun(w, j, NoRun)
  /\ awaited' = [awaited EXCEPT ![w] = @ \ {j}]
  /\ UNCHANGED <<job, life, poll>>

-----------------------------------------------------------------------------
(* Processes and time *)

\* stop(): no more claims; with nothing in the map it resolves at once.
StopBegin(w) ==
  /\ "stop" \in Faults
  /\ life[w] = "up"
  /\ life' = [life EXCEPT ![w] = IF Running(w) = {} THEN "stopped" ELSE "draining"]
  /\ awaited' = [awaited EXCEPT ![w] = Running(w)]
  /\ UNCHANGED <<job, poll, run>>

\* The runs stop() waited for have all left the map.
StopResolve(w) ==
  /\ life[w] \in {"draining", "aborting"} /\ awaited[w] = {}
  /\ life' = [life EXCEPT ![w] = "stopped"]
  /\ UNCHANGED <<job, poll, run, awaited>>

\* A slip: the drain times out and nothing is told to stop.
DrainTimeoutSilent(w) ==
  /\ life[w] = "draining" /\ awaited[w] # {}
  /\ life' = [life EXCEPT ![w] = "aborting"]
  /\ UNCHANGED <<job, poll, run, awaited>>

\* The drain timed out: whatever is in the map now is aborted and waited for.
DrainTimeout(w) ==
  /\ life[w] = "draining" /\ awaited[w] # {}
  /\ life' = [life EXCEPT ![w] = "aborting"]
  /\ run' = [run EXCEPT ![w] = [j \in Jobs |->
       IF run[w][j].pc = "none" THEN NoRun ELSE [run[w][j] EXCEPT !.aborted = TRUE]]]
  /\ awaited' = [awaited EXCEPT ![w] = Running(w)]
  /\ UNCHANGED <<job, poll>>

\* The process ends, by a crash or after its stop() resolved; the table keeps
\* its rows locked.
Exit(w) ==
  /\ \/ "crash" \in Faults /\ life[w] # "down"
     \/ life[w] = "stopped"
  /\ life' = [life EXCEPT ![w] = "down"]
  /\ poll' = [poll EXCEPT ![w] = Idle]
  /\ run' = [run EXCEPT ![w] = [j \in Jobs |-> NoRun]]
  /\ awaited' = [awaited EXCEPT ![w] = {}]
  /\ UNCHANGED job

Start(w) ==
  /\ life[w] = "down"
  /\ life' = [life EXCEPT ![w] = "up"]
  /\ UNCHANGED <<job, poll, run, awaited>>

\* The refreshes are due before a lock that some run is living on goes stale.
LocksKept ==
  \A w \in Workers, j \in Jobs :
    Live(w, j) /\ job[j].lockedBy = w => job[j].lockAge < StaleTicks

OneTickOlder(r) ==
  [r EXCEPT !.wait = IF @ > 0 THEN @ - 1 ELSE 0,
            !.lockAge = IF r.status = "running" /\ @ <= StaleTicks THEN @ + 1 ELSE @]

\* Time passes, but not within the pair of statements of one claim.
Tick ==
  /\ \A w \in Workers : poll[w].pc # "trying"
  /\ "late" \in Faults \/ LocksKept
  /\ job' = [j \in Jobs |-> OneTickOlder(job[j])]
  /\ job' # job
  /\ UNCHANGED <<life, poll, run, awaited>>

-----------------------------------------------------------------------------
RunEnds(w, j) == \/ Complete(w, j) \/ MarkCancelled(w, j)
                 \/ FailRead(w, j) \/ FailWrite(w, j)

ClaimGoesOn(w) == ClaimWin(w) \/ ClaimLose(w) \/ AlreadyRunning(w) \/ Launch(w)

Worker(w) ==
  \/ ClaimSelect(w) \/ ClaimGoesOn(w) \/ ClaimCut(w)
  \/ StopBegin(w) \/ StopResolve(w) \/ DrainTimeout(w) \/ Exit(w) \/ Start(w)
  \/ \E j \in Jobs : \/ RequestCancel(w, j) \/ Refresh(w, j) \/ RunEnds(w, j)
                     \/ BookkeepingCut(w, j) \/ Leave(w, j)

Next ==
  \/ \E j \in Jobs : Enqueue(j) \/ CancelPending(j) \/ Gc(j)
  \/ \E w \in Workers : Worker(w)
  \/ Tick

Spec == Init /\ [][Next]_vars

\* The poll timer fires, statements answer, the refresh timer and the drain's
\* timeout fire, and a process that went down is started again.  A handler
\* returns, but one that is being drained may wait to be told to ("handlers check
\* it between batches"); one that never returns holds its slot for ever, which
\* nothing in the worker ends.
Fairness ==
  /\ WF_vars(Tick)
  /\ \A w \in Workers :
       /\ WF_vars(ClaimSelect(w)) /\ WF_vars(ClaimGoesOn(w))
       /\ WF_vars(DrainTimeout(w)) /\ WF_vars(StopResolve(w)) /\ WF_vars(Start(w))
       /\ WF_vars(life[w] = "stopped" /\ Exit(w))
       /\ \A j \in Jobs : /\ WF_vars((life[w] = "up" \/ run[w][j].aborted) /\ RunEnds(w, j))
                          /\ WF_vars(FailWrite(w, j)) /\ WF_vars(Leave(w, j))
                          /\ WF_vars(Refresh(w, j))

FairSpec == Spec /\ Fairness

-----------------------------------------------------------------------------
(* What the queue promises *)

\* One run at a time: as long as no live run's lock goes stale, no two workers
\* are ever at work on the same job, whatever crashes, drains, lost statements
\* and restarts happen (claim's guarded UPDATE, refreshLock, the stale window).
OneLiveRun ==
  "late" \notin Faults =>
    \A j \in Jobs, v, w \in Workers : Live(v, j) /\ Live(w, j) => v = w

\* A dedupe key is held by at most one row, and only by one that has not ended:
\* enqueue gives back whatever row holds the key, so a key that outlived its
\* job would swallow every later enqueue (complete, fail, cancel and
\* markCancelled must each release it).
KeysAreActive ==
  \A j \in Jobs : job[j].key # NoKey =>
    /\ job[j].status \in Active
    /\ \A i \in Jobs : job[i].key = job[j].key => i = j

\* A waiting job has a try left, and a dead-lettered one has used them all: a
\* failure is judged on the attempts of the run that failed (fail reads the row
\* and writes it in two statements), as long as no live run's lock goes stale.
TriesAccounted ==
  "late" \notin Faults =>
    \A j \in Jobs :
      /\ job[j].status = "pending" => job[j].attempts < MaxAttempts
      /\ job[j].status = "failed" => job[j].attempts >= MaxAttempts

\* An ended job stays ended: a run that outlived its lock, a claim that read
\* the row before it ended and a failure decided on an old read all leave it
\* alone; only retention removes it.
EndedForGood ==
  [][\A j \in Jobs : job[j].status \in Ended =>
       job'[j].status \in {job[j].status, "gone"}]_vars

\* Every try that is counted waited its backoff, several processes polling: a
\* claim trusts a status that may have gone round (taken, failed, put back) since
\* its SELECT, and starts such a row before it is due; but then it writes the
\* attempts it read, so that start is not counted against max_attempts
\* (JOB_BACKOFF_BASE_MS: "retry n waits backoffBaseMs * 2^(n-1)").
CountedTriesWait ==
  [][\A j \in Jobs :
       /\ job[j].status = "pending" /\ job'[j].status = "running"
       /\ job'[j].attempts > job[j].attempts
       => job[j].wait = 0]_vars

\* As long as refreshes land, only the worker whose lock is on the row ends it or
\* puts it back; and when they land late, a job that was reclaimed is still never
\* cancelled by the run that lost it (worker.ts, markCancelled: "Guarded on our own
\* lock so a reclaimed stale job is never clobbered").  complete() and fail() do
\* not ask for the lock.
HolderDecides ==
  [][\A j \in Jobs :
       /\ job[j].status = "running" /\ job'[j].status # "running"
       /\ "late" \notin Faults \/ job'[j].status = "cancelled"
       => \E w \in Workers : job[j].lockedBy = w /\ run[w][j] # run'[w][j]]_vars

\* Every queued job ends (succeeded, dead-lettered or cancelled) once processes
\* stop dying and refreshes land again: crashes leave stale locks, and those are
\* reclaimed.
EveryJobEnds ==
  (<>[](\A w \in Workers : life[w] = "up" /\ \A j \in Jobs : Live(w, j) => ~Stale(j))) =>
    \A j \in Jobs : job[j].status = "pending" ~> job[j].status \notin Active

\* stop() resolves, even over handlers that return only once they are told to:
\* the drain timeout aborts them, and an aborted run settles whatever became of
\* its row.
StopResolves ==
  \A w \in Workers : life[w] = "draining" ~> life[w] \in {"stopped", "down"}

\* The queue implements the lifecycle producers rely on.
Lifecycle ==
  INSTANCE JobLifecycle WITH status <- [j \in Jobs |-> job[j].status],
                             key <- [j \in Jobs |-> job[j].key]

ImplementsLifecycle == Lifecycle!Spec
=============================================================================
