--------------------------- MODULE JobQueue_proofs ---------------------------
(***************************************************************************)
(* Theorems about the job queue, for every number of jobs, workers, keys,  *)
(* attempts and slots, every stale window and every set of faults.         *)
(***************************************************************************)
EXTENDS JobQueue, TLAPS

-----------------------------------------------------------------------------
(* The rows the statements write are rows. *)

\* What complete, fail, cancel and markCancelled write over a row of the table
\* is a row of the table.
LEMMA EndedRowType ==
  ASSUME TypeOK, NEW j \in Jobs, NEW s \in Ended
  PROVE  EndedRow(j, s) \in Row
<1>1. job[j] \in Row BY DEF TypeOK
<1>2. s \in Statuses /\ 0 \in 0 .. StaleTicks + 1
  BY QueueAssumption DEF Statuses, Ended
<1> QED BY <1>1, <1>2 DEF EndedRow, Row

\* What fail writes to try again is a row of the table.
LEMMA PutBackRowType ==
  ASSUME TypeOK, NEW j \in Jobs
  PROVE  PutBackRow(j) \in Row
<1>1. job[j] \in Row BY DEF TypeOK
<1>2. "pending" \in Statuses /\ 0 \in 0 .. StaleTicks + 1 /\ BackoffTicks \in 0 .. BackoffTicks
  BY QueueAssumption DEF Statuses, Active
<1> QED BY <1>1, <1>2 DEF PutBackRow, Row

\* The guarded write of complete and fail keeps the table well typed.
LEMMA WriteIfRunningType ==
  ASSUME TypeOK, NEW j \in Jobs, NEW row \in Row
  PROVE  WriteIfRunning(j, row) \in [Jobs -> Row]
BY DEF TypeOK, WriteIfRunning

\* A candidate the SELECT read has an attempts count in range after its claim.
LEMMA AttemptAfterType ==
  ASSUME NEW c \in Snapshot
  PROVE  AttemptAfter(c) \in Attempts
BY QueueAssumption DEF AttemptAfter, Attempts, Snapshot

\* A run stays a run when it moves on or is told to stop.
LEMMA RunUpdateType ==
  ASSUME NEW r \in Run
  PROVE  /\ [r EXCEPT !.pc = "settled"] \in Run
         /\ [r EXCEPT !.aborted = TRUE] \in Run
BY DEF Run

\* The records a run starts from.
LEMMA NoRunType == NoRun \in Run /\ [NoRun EXCEPT !.pc = "handler"] \in Run
<1>1. 0 \in Attempts BY QueueAssumption DEF Attempts
<1> QED BY <1>1 DEF NoRun, Run

\* A row stays a row when its lock is stamped or it is claimed.
LEMMA LockType ==
  ASSUME NEW r \in Row, NEW w \in Workers, NEW a \in Attempts
  PROVE  /\ [r EXCEPT !.lockAge = 0] \in Row
         /\ [r EXCEPT !.status = "running", !.lockedBy = w,
                      !.lockAge = 0, !.attempts = a] \in Row
<1>1. 0 \in 0 .. StaleTicks + 1 /\ "running" \in Statuses
  BY QueueAssumption DEF Statuses, Active
<1> QED BY <1>1 DEF Row

-----------------------------------------------------------------------------
(* Type correctness *)

LEMMA InitType == Init => TypeOK
BY QueueAssumption
   DEF Init, TypeOK, Row, Statuses, Attempts, Poll, Run, Idle, NoRun, Snapshot

LEMMA ClaimType ==
  ASSUME TypeOK, NEW w \in Workers, ClaimSelect(w) \/ ClaimGoesOn(w) \/ ClaimCut(w)
  PROVE  TypeOK'
<1> USE DEF TypeOK
<1> Idle \in Poll BY DEF Idle, Poll
<1>1. CASE ClaimSelect(w)
  <2> DEFINE C == { [id |-> j, status |-> job[j].status, attempts |-> job[j].attempts] :
                     j \in {i \in Jobs : Claimable(i)} }
  <2>1. \A j \in Jobs : Claimable(j) =>
          [id |-> j, status |-> job[j].status, attempts |-> job[j].attempts] \in Snapshot
    BY DEF Claimable, Row, Snapshot, Active
  <2>2. C \subseteq Snapshot BY <2>1
  <2>3. [pc |-> "trying", cand |-> C] \in Poll BY <2>2 DEF Poll
  <2> QED BY <1>1, <2>3 DEF ClaimSelect
<1>2. CASE ClaimWin(w)
  <2>1. PICK c \in poll[w].cand :
          /\ job' = [job EXCEPT ![c.id] = [@ EXCEPT !.status = "running", !.lockedBy = w,
                                             !.lockAge = 0, !.attempts = AttemptAfter(c)]]
          /\ poll' = [poll EXCEPT ![w] = [pc |-> "reading", cand |-> {c}]]
    BY <1>2 DEF ClaimWin
  <2>2. c \in Snapshot BY DEF Poll
  <2>3. AttemptAfter(c) \in Attempts BY <2>2, AttemptAfterType
  <2>4. c.id \in Jobs BY <2>2 DEF Snapshot
  <2>5. [job[c.id] EXCEPT !.status = "running", !.lockedBy = w,
                          !.lockAge = 0, !.attempts = AttemptAfter(c)] \in Row
    BY <2>3, <2>4, LockType
  <2>6. [pc |-> "reading", cand |-> {c}] \in Poll BY <2>2 DEF Poll
  <2> QED BY <1>2, <2>1, <2>4, <2>5, <2>6 DEF ClaimWin
<1>3. CASE ClaimLose(w)
  <2>1. PICK c \in poll[w].cand :
          poll' = [poll EXCEPT ![w] =
            IF poll[w].cand = {c} THEN Idle
            ELSE [pc |-> "trying", cand |-> poll[w].cand \ {c}]]
    BY <1>3 DEF ClaimLose
  <2>2. [pc |-> "trying", cand |-> poll[w].cand \ {c}] \in Poll BY DEF Poll
  <2> QED BY <1>3, <2>1, <2>2 DEF ClaimLose
<1>4. CASE AlreadyRunning(w) BY <1>4 DEF AlreadyRunning
<1>5. CASE Launch(w)
  <2>1. PICK c \in poll[w].cand :
          run' = [run EXCEPT ![w][c.id] = [NoRun EXCEPT !.pc = "handler"]]
    BY <1>5 DEF Launch, SetRun
  <2>2. c.id \in Jobs BY DEF Poll, Snapshot
  <2> HIDE DEF TypeOK
  <2>3. run' \in [Workers -> [Jobs -> Run]] BY <2>1, <2>2, NoRunType DEF TypeOK
  <2>4. poll' \in [Workers -> Poll] BY <1>5 DEF Launch, TypeOK
  <2> QED BY <1>5, <2>3, <2>4 DEF Launch, TypeOK
<1>6. CASE ClaimCut(w) BY <1>6 DEF ClaimCut
<1> QED BY <1>1, <1>2, <1>3, <1>4, <1>5, <1>6 DEF ClaimGoesOn

LEMMA RunType ==
  ASSUME TypeOK, NEW w \in Workers, NEW j \in Jobs,
         \/ RequestCancel(w, j) \/ Refresh(w, j) \/ RunEnds(w, j)
         \/ BookkeepingCut(w, j) \/ Leave(w, j)
  PROVE  TypeOK'
<1> USE DEF TypeOK
<1>r. run[w][j] \in Run /\ job[j] \in Row OBVIOUS
<1>0. [run[w][j] EXCEPT !.pc = "settled"] \in Run BY <1>r, RunUpdateType
<1>1. CASE RequestCancel(w, j)
  <2>1. [run[w][j] EXCEPT !.aborted = TRUE] \in Run BY <1>r, RunUpdateType
  <2> QED BY <1>1, <2>1 DEF RequestCancel, SetRun
<1>2. CASE Refresh(w, j)
  <2>1. [job[j] EXCEPT !.lockAge = 0] \in Row
    <3>1. \A a \in Attempts : [job[j] EXCEPT !.lockAge = 0] \in Row BY <1>r, LockType
    <3>2. 0 \in Attempts BY QueueAssumption DEF Attempts
    <3> QED BY <3>1, <3>2
  <2> QED BY <1>2, <2>1 DEF Refresh
<1>3. CASE Complete(w, j)
  <2>1. job' \in [Jobs -> Row]
    BY <1>3, EndedRowType, WriteIfRunningType DEF Complete, Ended
  <2> QED BY <1>0, <1>3, <2>1 DEF Complete, Settled, SetRun
<1>4. CASE MarkCancelled(w, j)
  <2>1. EndedRow(j, "cancelled") \in Row BY EndedRowType DEF Ended
  <2> QED BY <1>0, <1>4, <2>1 DEF MarkCancelled, Settled, SetRun
<1>5. CASE FailRead(w, j)
  <2>1. [pc |-> "failing", aborted |-> FALSE, seen |-> job[j].attempts] \in Run
    BY <1>r DEF Run, Row
  <2>2. PICK r \in Run : run' = [run EXCEPT ![w][j] = r]
    BY <1>0, <1>5, <2>1 DEF FailRead, Settled, SetRun
  <2>3. run' \in [Workers -> [Jobs -> Run]] BY <2>2
  <2> QED BY <1>5, <2>3 DEF FailRead
<1>6. CASE FailWrite(w, j)
  <2>1. EndedRow(j, "failed") \in Row BY EndedRowType DEF Ended
  <2>2. PutBackRow(j) \in Row BY PutBackRowType
  <2>3. job' \in [Jobs -> Row]
    BY <1>6, <2>1, <2>2, WriteIfRunningType DEF FailWrite
  <2> QED BY <1>0, <1>6, <2>3 DEF FailWrite, Settled, SetRun
<1>7. CASE BookkeepingCut(w, j) BY <1>0, <1>7 DEF BookkeepingCut, Settled, SetRun
<1>8. CASE Leave(w, j)
  <2> QED BY <1>8, NoRunType DEF Leave, SetRun
<1> QED BY <1>1, <1>2, <1>3, <1>4, <1>5, <1>6, <1>7, <1>8 DEF RunEnds

LEMMA ProcessType ==
  ASSUME TypeOK, NEW w \in Workers,
         StopBegin(w) \/ StopResolve(w) \/ DrainTimeout(w) \/ Exit(w) \/ Start(w)
  PROVE  TypeOK'
<1> USE DEF TypeOK
<1>0. NoRun \in Run BY NoRunType
<1>1. CASE StopBegin(w) BY <1>1 DEF StopBegin, Running
<1>2. CASE StopResolve(w) BY <1>2 DEF StopResolve
<1>3. CASE DrainTimeout(w)
  <2>1. \A j \in Jobs : run[w][j] \in Run OBVIOUS
  <2>2. \A j \in Jobs : [run[w][j] EXCEPT !.aborted = TRUE] \in Run
    BY <2>1, RunUpdateType
  <2> QED BY <1>0, <1>3, <2>2 DEF DrainTimeout, Running
<1>4. CASE Exit(w) BY <1>0, <1>4 DEF Exit, Idle, Poll
<1>5. CASE Start(w) BY <1>5 DEF Start
<1> QED BY <1>1, <1>2, <1>3, <1>4, <1>5

\* A tick keeps a row a row.
LEMMA TickRowType ==
  ASSUME NEW r \in Row
  PROVE  OneTickOlder(r) \in Row
<1>1. (IF r.wait > 0 THEN r.wait - 1 ELSE 0) \in 0 .. BackoffTicks
  BY QueueAssumption DEF Row
<1>2. (IF r.status = "running" /\ r.lockAge <= StaleTicks THEN r.lockAge + 1 ELSE r.lockAge)
        \in 0 .. StaleTicks + 1
  BY QueueAssumption DEF Row
<1> QED BY <1>1, <1>2 DEF OneTickOlder, Row

LEMMA NextType == TypeOK /\ [Next]_vars => TypeOK'
<1> SUFFICES ASSUME TypeOK, [Next]_vars PROVE TypeOK'
  OBVIOUS
<1>1. ASSUME NEW j \in Jobs, Enqueue(j) PROVE TypeOK'
  <2>1. PICK k \in Keys \cup {NoKey}, d \in {0, BackoffTicks} :
          job' = [job EXCEPT ![j] = [status |-> "pending", wait |-> d, attempts |-> 0,
                                     lockedBy |-> Nobody, lockAge |-> 0, key |-> k]]
    BY <1>1 DEF Enqueue
  <2>2. [status |-> "pending", wait |-> d, attempts |-> 0, lockedBy |-> Nobody,
         lockAge |-> 0, key |-> k] \in Row
    BY QueueAssumption DEF Row, Statuses, Active, Attempts
  <2> QED BY <1>1, <2>1, <2>2 DEF Enqueue, TypeOK
<1>2. ASSUME NEW j \in Jobs, CancelPending(j) PROVE TypeOK'
  BY <1>2, EndedRowType DEF CancelPending, TypeOK, Ended
<1>3. ASSUME NEW j \in Jobs, Gc(j) PROVE TypeOK'
  <2>1. [job[j] EXCEPT !.status = "gone"] \in Row BY DEF TypeOK, Row, Statuses
  <2> QED BY <1>3, <2>1 DEF Gc, TypeOK
<1>4. CASE Tick BY <1>4, TickRowType DEF Tick, TypeOK
<1>5. ASSUME NEW w \in Workers, Worker(w) PROVE TypeOK'
  BY <1>5, ClaimType, RunType, ProcessType DEF Worker
<1>6. CASE UNCHANGED vars BY <1>6 DEF vars, TypeOK
<1> QED BY <1>1, <1>2, <1>3, <1>4, <1>5, <1>6 DEF Next

\* Type correctness of the queue and its workers (jobs.ts, worker.ts).
THEOREM TypeCorrect == Spec => []TypeOK
<1>1. Init => TypeOK BY InitType
<1>2. TypeOK /\ [Next]_vars => TypeOK' BY NextType
<1> QED BY <1>1, <1>2, PTL DEF Spec

-----------------------------------------------------------------------------
(* What one step does to the table *)

\* Row j is the only one written, and it moves the way producers may rely on.
RowMoves(j) ==
  /\ \A i \in Jobs \ {j} : job'[i] = job[i]
  /\ \/ /\ job[j].status = "none" /\ job'[j].status = "pending"
        /\ job'[j].key \in Keys \cup {NoKey} /\ KeyFree(job'[j].key)
     \/ /\ job[j].status \in Active /\ job'[j].status = "running"
        /\ job'[j].key = job[j].key
     \/ /\ job[j].status = "running" /\ job'[j].status = "pending"
        /\ job'[j].key = job[j].key
     \/ /\ job[j].status \in Active /\ job'[j].status \in Ended
        /\ job[j].status = "pending" => job'[j].status = "cancelled"
        /\ job'[j].key = NoKey
     \/ /\ job[j].status \in Ended /\ job'[j].status = "gone"
        /\ job'[j].key = job[j].key

\* No row changes its status or its key.
RowsKeep == \A j \in Jobs : /\ job'[j].status = job[j].status
                            /\ job'[j].key = job[j].key

\* The guarded write of a row that ends.
LEMMA EndsRow ==
  ASSUME TypeOK, NEW j \in Jobs, NEW s \in Ended, job[j].status \in Active,
         job[j].status = "pending" => s = "cancelled",
         job' = [job EXCEPT ![j] = EndedRow(j, s)]
  PROVE  RowMoves(j)
<1>1. job[j] \in Row /\ job'[j] = EndedRow(j, s) BY DEF TypeOK
<1>2. job'[j].status = s /\ job'[j].key = NoKey BY <1>1 DEF EndedRow, Row
<1>3. \A i \in Jobs \ {j} : job'[i] = job[i] BY DEF TypeOK
<1> QED BY <1>2, <1>3 DEF RowMoves

\* A claim takes a row that has not ended.
LEMMA ClaimMovesRow ==
  ASSUME TypeOK, NEW w \in Workers, ClaimWin(w)
  PROVE  \E j \in Jobs : RowMoves(j)
<1>1. PICK c \in poll[w].cand :
        /\ StillAsRead(c)
        /\ job' = [job EXCEPT ![c.id] = [@ EXCEPT !.status = "running", !.lockedBy = w,
                                           !.lockAge = 0, !.attempts = AttemptAfter(c)]]
  BY DEF ClaimWin
<1>2. c.id \in Jobs /\ c.status \in Active BY DEF TypeOK, Poll, Snapshot
<1>3. job[c.id] \in Row /\ job[c.id].status \in Active
  BY <1>1, <1>2 DEF TypeOK, StillAsRead
<1>4. job'[c.id].status = "running" /\ job'[c.id].key = job[c.id].key
  BY <1>1, <1>2, <1>3 DEF TypeOK, Row
<1>5. \A i \in Jobs \ {c.id} : job'[i] = job[i] BY <1>1 DEF TypeOK
<1> QED BY <1>2, <1>3, <1>4, <1>5 DEF RowMoves

\* Nothing a run does to its row is a move producers may not rely on.
LEMMA RunMovesRow ==
  ASSUME TypeOK, NEW w \in Workers, NEW j \in Jobs, RunEnds(w, j)
  PROVE  RowsKeep \/ RowMoves(j)
<1>1. CASE Complete(w, j)
  <2>1. CASE job[j].status = "running"
    BY <1>1, <2>1, EndsRow DEF Complete, WriteIfRunning, Active, Ended
  <2> QED BY <1>1, <2>1 DEF Complete, WriteIfRunning, RowsKeep
<1>2. CASE MarkCancelled(w, j)
  <2>1. CASE job[j].status = "running" /\ job[j].lockedBy = w
    BY <1>2, <2>1, EndsRow DEF MarkCancelled, Active, Ended
  <2> QED BY <1>2, <2>1 DEF MarkCancelled, RowsKeep
<1>3. CASE FailRead(w, j) BY <1>3 DEF FailRead, RowsKeep
<1>4. CASE FailWrite(w, j)
  <2>1. CASE job[j].status # "running"
    BY <1>4, <2>1 DEF FailWrite, WriteIfRunning, RowsKeep
  <2>2. CASE job[j].status = "running" /\ GivesUp(run[w][j].seen)
    BY <1>4, <2>2, EndsRow DEF FailWrite, WriteIfRunning, Active, Ended
  <2>3. CASE job[j].status = "running" /\ ~GivesUp(run[w][j].seen)
    <3>1. job' = [job EXCEPT ![j] = PutBackRow(j)]
      BY <1>4, <2>3 DEF FailWrite, WriteIfRunning
    <3>2. job[j] \in Row /\ job'[j] = PutBackRow(j) BY <3>1 DEF TypeOK
    <3>3. job'[j].status = "pending" /\ job'[j].key = job[j].key
      BY <3>2 DEF PutBackRow, Row
    <3>4. \A i \in Jobs \ {j} : job'[i] = job[i] BY <3>1 DEF TypeOK
    <3> QED BY <2>3, <3>3, <3>4 DEF RowMoves
  <2> QED BY <2>1, <2>2, <2>3
<1> QED BY <1>1, <1>2, <1>3, <1>4 DEF RunEnds

\* Every step of the system writes at most one row, and moves it legally.
LEMMA TableStep ==
  ASSUME TypeOK, [Next]_vars
  PROVE  RowsKeep \/ \E j \in Jobs : RowMoves(j)
<1>1. ASSUME NEW j \in Jobs, Enqueue(j) PROVE RowMoves(j)
  <2>1. PICK k \in Keys \cup {NoKey}, d \in {0, BackoffTicks} :
          /\ KeyFree(k)
          /\ job' = [job EXCEPT ![j] = [status |-> "pending", wait |-> d, attempts |-> 0,
                                        lockedBy |-> Nobody, lockAge |-> 0, key |-> k]]
    BY <1>1 DEF Enqueue
  <2>2. job'[j].status = "pending" /\ job'[j].key = k BY <2>1 DEF TypeOK
  <2>3. \A i \in Jobs \ {j} : job'[i] = job[i] BY <2>1 DEF TypeOK
  <2> QED BY <1>1, <2>1, <2>2, <2>3 DEF RowMoves, Enqueue
<1>2. ASSUME NEW j \in Jobs, CancelPending(j) PROVE RowMoves(j)
  BY <1>2, EndsRow DEF CancelPending, Cancellable, Active, Ended
<1>3. ASSUME NEW j \in Jobs, Gc(j) PROVE RowMoves(j)
  <2>1. job[j] \in Row /\ job[j].status \in Ended /\ job' = [job EXCEPT ![j].status = "gone"]
    BY <1>3 DEF Gc, TypeOK
  <2>2. job'[j].status = "gone" /\ job'[j].key = job[j].key BY <2>1 DEF TypeOK, Row
  <2>3. \A i \in Jobs \ {j} : job'[i] = job[i] BY <2>1 DEF TypeOK
  <2> QED BY <2>1, <2>2, <2>3 DEF RowMoves
<1>4. CASE Tick
  <2>1. \A j \in Jobs : job[j] \in Row BY DEF TypeOK
  <2>2. \A r \in Row : OneTickOlder(r).status = r.status /\ OneTickOlder(r).key = r.key
    BY DEF OneTickOlder, Row
  <2> QED BY <1>4, <2>1, <2>2 DEF Tick, RowsKeep
<1>5. ASSUME NEW w \in Workers, Worker(w) PROVE RowsKeep \/ \E j \in Jobs : RowMoves(j)
  <2>1. CASE ClaimGoesOn(w)
    BY <2>1, ClaimMovesRow DEF ClaimGoesOn, ClaimLose, AlreadyRunning, Launch, RowsKeep
  <2>2. ASSUME NEW j \in Jobs, Refresh(w, j) PROVE RowsKeep
    <3>1. \A i \in Jobs : job[i] \in Row BY DEF TypeOK
    <3>2. \A i \in Jobs : /\ job'[i].status = job[i].status
                          /\ job'[i].key = job[i].key
      BY <2>2, <3>1 DEF Refresh, TypeOK, Row
    <3> QED BY <3>2 DEF RowsKeep
  <2>3. ASSUME NEW j \in Jobs, RunEnds(w, j) PROVE RowsKeep \/ RowMoves(j)
    BY <2>3, RunMovesRow
  <2>4. CASE \/ ClaimSelect(w) \/ ClaimCut(w) \/ StopBegin(w) \/ StopResolve(w)
             \/ DrainTimeout(w) \/ Exit(w) \/ Start(w)
             \/ \E j \in Jobs : RequestCancel(w, j) \/ BookkeepingCut(w, j) \/ Leave(w, j)
    BY <2>4 DEF ClaimSelect, ClaimCut, StopBegin, StopResolve, DrainTimeout, Exit,
                Start, RequestCancel, BookkeepingCut, Leave, RowsKeep
  <2> QED BY <1>5, <2>1, <2>2, <2>3, <2>4 DEF Worker
<1>6. CASE UNCHANGED vars BY <1>6 DEF vars, RowsKeep
<1> QED BY <1>1, <1>2, <1>3, <1>4, <1>5, <1>6 DEF Next

-----------------------------------------------------------------------------
(* What follows for producers *)

\* An ended job stays ended, under every fault the model has: a stale run, a
\* late claim or an old failure never brings it back (complete, fail, claim).
THEOREM EndedStaysEnded == Spec => EndedForGood
<1>1. ASSUME TypeOK, [Next]_vars
      PROVE  [\A j \in Jobs : job[j].status \in Ended =>
                job'[j].status \in {job[j].status, "gone"}]_vars
  BY <1>1, TableStep DEF RowsKeep, RowMoves, Active, Ended
<1> QED BY <1>1, TypeCorrect, PTL DEF Spec, EndedForGood

\* A dedupe key is held by one row only, and by none that has ended.
THEOREM KeysFollowActive == Spec => []KeysAreActive
<1>1. Init => KeysAreActive BY DEF Init, KeysAreActive
<1>2. ASSUME TypeOK, KeysAreActive, [Next]_vars PROVE KeysAreActive'
  <2>1. CASE RowsKeep BY <1>2, <2>1 DEF RowsKeep, KeysAreActive
  <2>2. ASSUME NEW j \in Jobs, RowMoves(j) PROVE KeysAreActive'
    <3>1. CASE job[j].status = "none" /\ KeyFree(job'[j].key)
      BY <1>2, <2>2, <3>1 DEF RowMoves, KeysAreActive, KeyFree, Active, Ended
    <3>2. CASE job'[j].key = job[j].key
      BY <1>2, <2>2, <3>2 DEF RowMoves, KeysAreActive, Active, Ended
    <3>3. CASE job'[j].key = NoKey
      BY <1>2, <2>2, <3>3 DEF RowMoves, KeysAreActive, Active, Ended
    <3> QED BY <2>2, <3>1, <3>2, <3>3 DEF RowMoves
  <2> QED BY <1>2, <2>1, <2>2, TableStep
<1> QED BY <1>1, <1>2, TypeCorrect, PTL DEF Spec

\* The queue implements the lifecycle: hidden behind it, workers, locks,
\* crashes and races are all either a lifecycle step or nothing at all.
THEOREM QueueImplementsLifecycle == Spec => ImplementsLifecycle
<1>1. Init => Lifecycle!Init BY DEF Init, Lifecycle!Init
<1>2. ASSUME TypeOK, TypeOK', [Next]_vars PROVE [Lifecycle!Next]_Lifecycle!vars
  <2> DEFINE st == [j \in Jobs |-> job[j].status]
             ky == [j \in Jobs |-> job[j].key]
  <2>1. CASE RowsKeep BY <2>1 DEF RowsKeep, Lifecycle!vars
  <2>2. ASSUME NEW j \in Jobs, RowMoves(j)
        PROVE  Lifecycle!Next \/ UNCHANGED Lifecycle!vars
    <3>1. /\ st' = [st EXCEPT ![j] = job'[j].status]
          /\ ky' = [ky EXCEPT ![j] = job'[j].key]
      BY <2>2 DEF RowMoves
    <3>2. CASE job[j].status = "none"
      <4>1. Lifecycle!Queue(j)
        BY <2>2, <3>1, <3>2 DEF RowMoves, Lifecycle!Queue, KeyFree, Active, Ended
      <4> QED BY <4>1 DEF Lifecycle!Next
    <3>3. CASE job[j].status \in Active /\ job'[j].status = "running"
      <4>1. job'[j].key = job[j].key BY <2>2, <3>3 DEF RowMoves, Active, Ended
      <4>2. ky' = ky BY <3>1, <4>1
      <4>3. CASE job[j].status = "running"
        <5>1. st' = st BY <3>1, <3>3, <4>3
        <5> QED BY <4>2, <5>1 DEF Lifecycle!vars
      <4>4. CASE job[j].status = "pending"
        <5>1. Lifecycle!Take(j) BY <3>1, <3>3, <4>2, <4>4 DEF Lifecycle!Take
        <5> QED BY <5>1 DEF Lifecycle!Next
      <4> QED BY <3>3, <4>3, <4>4 DEF Active
    <3>4. CASE job[j].status = "running" /\ job'[j].status = "pending"
      <4>1. ky' = ky BY <2>2, <3>1, <3>4 DEF RowMoves, Active, Ended
      <4>2. Lifecycle!PutBack(j) BY <3>1, <3>4, <4>1 DEF Lifecycle!PutBack
      <4> QED BY <4>2 DEF Lifecycle!Next
    <3>5. CASE job[j].status \in Active /\ job'[j].status \in Ended
      <4>1. /\ job'[j].key = NoKey
            /\ job[j].status = "pending" => job'[j].status = "cancelled"
        BY <2>2, <3>5 DEF RowMoves, Active, Ended
      <4>2. Lifecycle!End(j)
        BY <3>1, <3>5, <4>1 DEF Lifecycle!End, Lifecycle!Active, Lifecycle!Ended, Active, Ended
      <4> QED BY <4>2 DEF Lifecycle!Next
    <3>6. CASE job[j].status \in Ended
      <4>1. job'[j].status = "gone" /\ job'[j].key = job[j].key
        BY <2>2, <3>6 DEF RowMoves, Active, Ended
      <4>2. ky' = ky BY <3>1, <4>1
      <4>3. Lifecycle!Drop(j)
        BY <3>1, <3>6, <4>1, <4>2 DEF Lifecycle!Drop, Lifecycle!Ended, Ended
      <4> QED BY <4>3 DEF Lifecycle!Next
    <3> QED BY <2>2, <3>2, <3>3, <3>4, <3>5, <3>6 DEF RowMoves
  <2> QED BY <1>2, <2>1, <2>2, TableStep
<1> QED BY <1>1, <1>2, TypeCorrect, PTL DEF Spec, ImplementsLifecycle, Lifecycle!Spec

-----------------------------------------------------------------------------
(* One run at a time *)

\* The strengthening of OneLiveRun that is inductive: whoever is at work on a
\* job holds the lock on its row, and the lock is not stale.
HoldsLock(w, j) ==
  job[j].status = "running" /\ job[j].lockedBy = w /\ ~Stale(j)

LiveHoldLocks == \A w \in Workers, j \in Jobs : Live(w, j) => HoldsLock(w, j)

\* A claim that won is of a job this worker is not at work on already.
ClaimIsNew ==
  \A w \in Workers : poll[w].pc = "reading" =>
    \A c \in poll[w].cand : run[w][c.id].pc \notin {"handler", "failing"}

\* A row nobody is at work on may be written in any way.
LEMMA IdleRowWrite ==
  ASSUME LiveHoldLocks, NEW i \in Jobs, \A w \in Workers : ~Live(w, i),
         \A j \in Jobs \ {i} : job'[j] = job[j],
         UNCHANGED <<poll, run>>
  PROVE  LiveHoldLocks'
<1> SUFFICES ASSUME NEW w \in Workers, NEW j \in Jobs, Live(w, j)' PROVE HoldsLock(w, j)'
  BY DEF LiveHoldLocks
<1>1. Live(w, j) BY DEF Live
<1>2. j # i BY <1>1
<1> QED BY <1>1, <1>2 DEF LiveHoldLocks, HoldsLock, Stale

\* A step that leaves the table alone and starts no run, or only the run of a
\* job already being launched, keeps live runs on their locks.
LEMMA SameTable ==
  ASSUME LiveHoldLocks, UNCHANGED job,
         \A w \in Workers, j \in Jobs : Live(w, j)' => Live(w, j)
  PROVE  LiveHoldLocks'
BY DEF LiveHoldLocks, HoldsLock, Stale

\* A claim wins only a row no live run is on: a pending one, or one whose lock
\* is stale.
LEMMA ClaimHoldsLock ==
  ASSUME TypeOK, LiveHoldLocks, NEW w \in Workers, ClaimWin(w)
  PROVE  LiveHoldLocks'
<1>1. PICK c \in poll[w].cand :
        /\ StillAsRead(c)
        /\ job' = [job EXCEPT ![c.id] = [@ EXCEPT !.status = "running", !.lockedBy = w,
                                           !.lockAge = 0, !.attempts = AttemptAfter(c)]]
        /\ poll' = [poll EXCEPT ![w] = [pc |-> "reading", cand |-> {c}]]
  BY DEF ClaimWin
<1>2. c.id \in Jobs /\ c.status \in Active BY DEF TypeOK, Poll, Snapshot
<1>3. \A v \in Workers : ~HoldsLock(v, c.id)
  BY <1>1, <1>2 DEF StillAsRead, HoldsLock, Active
<1>4. \A v \in Workers : ~Live(v, c.id) BY <1>2, <1>3 DEF LiveHoldLocks
<1>5. run' = run BY DEF ClaimWin
<1>6. HoldsLock(w, c.id)'
  <2>1. job[c.id] \in Row BY <1>2 DEF TypeOK
  <2>2. /\ job'[c.id].status = "running" /\ job'[c.id].lockedBy = w
        /\ job'[c.id].lockAge = 0
    BY <1>1, <1>2, <2>1 DEF TypeOK, Row
  <2> QED BY <2>2, QueueAssumption DEF HoldsLock, Stale
<1> SUFFICES ASSUME NEW v \in Workers, NEW j \in Jobs, Live(v, j)' PROVE HoldsLock(v, j)'
  BY DEF LiveHoldLocks
<1>7. CASE j = c.id
  <2>1. v = w BY <1>1, <1>4, <1>5, <1>7 DEF Live, TypeOK
  <2> QED BY <1>6, <1>7, <2>1
<1>8. CASE j # c.id
  <2>1. Live(v, j) BY <1>1, <1>5, <1>8 DEF Live, TypeOK
  <2>2. job'[j] = job[j] BY <1>1, <1>8 DEF TypeOK
  <2> QED BY <2>1, <2>2 DEF LiveHoldLocks, HoldsLock, Stale
<1> QED BY <1>7, <1>8

\* A run writes only the row whose lock it holds, and is over when it has.
LEMMA RunEndHoldsLock ==
  ASSUME TypeOK, LiveHoldLocks, ClaimIsNew, NEW w \in Workers, NEW j \in Jobs,
         Complete(w, j) \/ MarkCancelled(w, j) \/ FailWrite(w, j)
  PROVE  LiveHoldLocks'
<1>1. /\ run[w][j].pc \in {"handler", "failing"}
      /\ run' = [run EXCEPT ![w][j] = [run[w][j] EXCEPT !.pc = "settled"]]
      /\ poll' = poll
      /\ \A i \in Jobs \ {j} : job'[i] = job[i]
  BY DEF Complete, MarkCancelled, FailWrite, Settled, SetRun, WriteIfRunning, TypeOK
<1>2. HoldsLock(w, j) BY <1>1 DEF LiveHoldLocks, Live
<1>3. run'[w][j].pc = "settled" BY <1>1 DEF TypeOK, Run
<1> SUFFICES ASSUME NEW v \in Workers, NEW i \in Jobs, Live(v, i)' PROVE HoldsLock(v, i)'
  BY DEF LiveHoldLocks
<1>4. CASE i # j
  <2>1. run'[v][i] = run[v][i] BY <1>1, <1>4 DEF TypeOK
  <2>2. Live(v, i) BY <1>1, <2>1 DEF Live
  <2> QED BY <1>1, <1>4, <2>2 DEF LiveHoldLocks, HoldsLock, Stale
<1>5. CASE i = j
  <2>1. v # w => run'[v][i] = run[v][i] BY <1>1 DEF TypeOK
  <2>2. Live(v, j) BY <1>1, <1>3, <1>5, <2>1 DEF Live
  <2>3. v = w BY <1>2, <2>2 DEF LiveHoldLocks, HoldsLock
  <2>4. poll[w].pc = "reading" /\ \E c \in poll[w].cand : c.id = j
    BY <1>1, <1>3, <1>5, <2>3 DEF Live
  <2> QED BY <1>1, <2>4 DEF ClaimIsNew
<1> QED BY <1>4, <1>5

\* As long as refreshes land, a tick makes no live run's lock stale.
LEMMA TickHoldsLock ==
  ASSUME TypeOK, LiveHoldLocks, LocksKept, Tick
  PROVE  LiveHoldLocks'
<1> SUFFICES ASSUME NEW w \in Workers, NEW j \in Jobs, Live(w, j)' PROVE HoldsLock(w, j)'
  BY DEF LiveHoldLocks
<1>1. Live(w, j) BY DEF Live, Tick
<1>2. job[j].status = "running" /\ job[j].lockedBy = w BY <1>1 DEF LiveHoldLocks, HoldsLock
<1>3. job[j].lockAge < StaleTicks BY <1>1, <1>2 DEF LocksKept
<1>4. job[j] \in Row /\ job'[j] = OneTickOlder(job[j]) BY DEF TypeOK, Tick
<1>5. /\ job'[j].status = "running" /\ job'[j].lockedBy = w
      /\ job'[j].lockAge = job[j].lockAge + 1
  BY <1>2, <1>3, <1>4, QueueAssumption DEF OneTickOlder, Row
<1>6. job[j].lockAge \in Nat /\ StaleTicks \in Nat
  BY <1>4, QueueAssumption DEF Row
<1> QED BY <1>3, <1>5, <1>6 DEF HoldsLock, Stale

AtWork(v, i) == run[v][i].pc \in {"handler", "failing"}

\* Only Launch puts a worker to work on a job.
LEMMA OnlyLaunchStarts ==
  ASSUME TypeOK, [Next]_vars, NEW v \in Workers, NEW i \in Jobs, AtWork(v, i)'
  PROVE  AtWork(v, i) \/ (Launch(v) /\ Live(v, i))
<1>r. \A w \in Workers, j \in Jobs : run[w][j] \in Run BY DEF TypeOK
<1>1. ASSUME NEW w \in Workers, Worker(w) PROVE AtWork(v, i) \/ (Launch(v) /\ Live(v, i))
  <2>1. CASE Launch(w)
    <3>1. PICK c \in poll[w].cand :
            run' = [run EXCEPT ![w][c.id] = [NoRun EXCEPT !.pc = "handler"]]
      BY <2>1 DEF Launch, SetRun
    <3>2. CASE w = v /\ c.id = i BY <2>1, <3>2 DEF Launch, Live
    <3>3. CASE ~(w = v /\ c.id = i)
      <4>1. run'[v][i] = run[v][i] BY <3>1, <3>3 DEF TypeOK
      <4> QED BY <4>1 DEF AtWork
    <3> QED BY <3>2, <3>3
  <2>2. CASE DrainTimeout(w)
    <3>1. CASE w = v
      <4>1. run'[v][i] = IF run[v][i].pc = "none" THEN NoRun
                         ELSE [run[v][i] EXCEPT !.aborted = TRUE]
        BY <2>2, <3>1 DEF DrainTimeout, TypeOK
      <4>2. run'[v][i].pc = run[v][i].pc BY <1>r, <4>1 DEF Run, NoRun
      <4> QED BY <4>2 DEF AtWork
    <3>2. CASE w # v
      <4>1. run'[v][i] = run[v][i] BY <2>2, <3>2 DEF DrainTimeout, TypeOK
      <4> QED BY <4>1 DEF AtWork
    <3> QED BY <3>1, <3>2
  <2>3. CASE Exit(w)
    <3>1. w = v => run'[v][i] = NoRun BY <2>3 DEF Exit, TypeOK
    <3>2. w # v => run'[v][i] = run[v][i] BY <2>3 DEF Exit, TypeOK
    <3> QED BY <3>1, <3>2 DEF AtWork, NoRun
  <2>4. ASSUME NEW j \in Jobs,
               RequestCancel(w, j) \/ RunEnds(w, j) \/ BookkeepingCut(w, j) \/ Leave(w, j)
        PROVE  AtWork(v, i)
    <3>0. run[w][j] \in Run /\ [run[w][j] EXCEPT !.pc = "settled"].pc = "settled"
      BY <1>r DEF Run
    <3>1. AtWork(w, j) \/ run' = [run EXCEPT ![w][j] = NoRun]
      BY <2>4 DEF AtWork, RequestCancel, RunEnds, Complete, MarkCancelled, FailRead,
                  FailWrite, BookkeepingCut, Leave, SetRun
    <3>2. CASE v = w /\ i = j
      <4>1. run' # [run EXCEPT ![w][j] = NoRun]
        BY <3>2 DEF AtWork, NoRun, TypeOK
      <4> QED BY <3>1, <3>2, <4>1
    <3>3. CASE ~(v = w /\ i = j)
      <4>1. run'[v][i] = run[v][i]
        BY <2>4, <3>3 DEF RequestCancel, RunEnds, Complete, MarkCancelled, FailRead,
              FailWrite, BookkeepingCut, Leave, SetRun, Settled, TypeOK
      <4> QED BY <4>1 DEF AtWork
    <3> QED BY <3>2, <3>3
  <2>5. CASE UNCHANGED run BY <2>5 DEF AtWork
  <2>6. UNCHANGED run \/ Launch(w) \/ DrainTimeout(w) \/ Exit(w)
        \/ \E j \in Jobs : \/ RequestCancel(w, j) \/ RunEnds(w, j)
                           \/ BookkeepingCut(w, j) \/ Leave(w, j)
    BY <1>1 DEF Worker, ClaimSelect, ClaimGoesOn, ClaimWin, ClaimLose, AlreadyRunning,
                ClaimCut, StopBegin, StopResolve, Start, Refresh
  <2> QED BY <2>1, <2>2, <2>3, <2>4, <2>5, <2>6
<1>2. CASE UNCHANGED run BY <1>2 DEF AtWork
<1> QED BY <1>1, <1>2 DEF Next, Enqueue, CancelPending, Gc, Tick, vars

\* Only a claim that wins begins to read the row it won.
LEMMA OnlyWinReads ==
  ASSUME TypeOK, [Next]_vars, NEW v \in Workers, poll'[v].pc = "reading"
  PROVE  poll'[v] = poll[v] \/ ClaimWin(v)
<1>1. ASSUME NEW w \in Workers, Worker(w) PROVE poll'[v] = poll[v] \/ ClaimWin(v)
  <2>1. CASE \/ ClaimSelect(w) \/ ClaimLose(w) \/ AlreadyRunning(w) \/ Launch(w)
             \/ ClaimCut(w) \/ Exit(w)
    <3>1. w = v => poll'[v].pc # "reading"
      BY <2>1 DEF ClaimSelect, ClaimLose, AlreadyRunning, Launch, ClaimCut, Exit, Idle, TypeOK
    <3>2. w # v => poll'[v] = poll[v]
      BY <2>1 DEF ClaimSelect, ClaimLose, AlreadyRunning, Launch, ClaimCut, Exit, TypeOK
    <3> QED BY <3>1, <3>2
  <2>2. CASE ClaimWin(w)
    <3>1. w # v => poll'[v] = poll[v] BY <2>2 DEF ClaimWin, TypeOK
    <3> QED BY <2>2, <3>1
  <2>3. UNCHANGED poll \/ ClaimWin(w) \/ ClaimSelect(w) \/ ClaimLose(w)
        \/ AlreadyRunning(w) \/ Launch(w) \/ ClaimCut(w) \/ Exit(w)
    BY <1>1 DEF Worker, ClaimGoesOn, StopBegin, StopResolve, DrainTimeout, Start,
                RequestCancel, Refresh, RunEnds, Complete, MarkCancelled, FailRead,
                FailWrite, BookkeepingCut, Leave
  <2> QED BY <2>1, <2>2, <2>3
<1>2. CASE UNCHANGED poll BY <1>2
<1> QED BY <1>1, <1>2 DEF Next, Enqueue, CancelPending, Gc, Tick, vars

\* A step that leaves the table alone leaves every live run on its lock.
LEMMA QuietHoldsLock ==
  ASSUME TypeOK, LiveHoldLocks, [Next]_vars, UNCHANGED job,
         \A w \in Workers : ~ClaimWin(w)
  PROVE  LiveHoldLocks'
<1>1. ASSUME NEW w \in Workers, NEW j \in Jobs, Live(w, j)' PROVE Live(w, j)
  <2>1. CASE AtWork(w, j)' BY <2>1, OnlyLaunchStarts DEF Live, AtWork
  <2>2. CASE poll'[w].pc = "reading" /\ \E c \in poll'[w].cand : c.id = j
    BY <2>2, OnlyWinReads DEF Live
  <2> QED BY <1>1, <2>1, <2>2 DEF Live, AtWork
<1> QED BY <1>1, SameTable

\* What a claim wins is a job nobody is at work on, this worker included.
LEMMA ClaimStaysNew ==
  ASSUME TypeOK, LiveHoldLocks, ClaimIsNew, [Next]_vars
  PROVE  ClaimIsNew'
<1> SUFFICES ASSUME NEW w \in Workers, poll'[w].pc = "reading", NEW c \in poll'[w].cand,
                    AtWork(w, c.id)'
             PROVE  FALSE
  BY DEF ClaimIsNew, AtWork
<1>0. ~Launch(w) BY DEF Launch, TypeOK, Idle
<1>1. CASE poll'[w] = poll[w]
  <2>1. c.id \in Jobs BY <1>1 DEF TypeOK, Poll, Snapshot
  <2>2. AtWork(w, c.id) BY <1>0, <2>1, OnlyLaunchStarts
  <2> QED BY <1>1, <2>2 DEF ClaimIsNew, AtWork
<1>2. CASE ClaimWin(w)
  <2>1. StillAsRead(c) /\ c \in poll[w].cand BY <1>2 DEF ClaimWin, TypeOK
  <2>2. c.id \in Jobs /\ c.status \in Active BY <2>1 DEF TypeOK, Poll, Snapshot
  <2>3. AtWork(w, c.id) BY <1>2, <2>2 DEF ClaimWin, AtWork
  <2>4. HoldsLock(w, c.id) BY <2>2, <2>3 DEF LiveHoldLocks, Live, AtWork
  <2> QED BY <2>1, <2>2, <2>4 DEF StillAsRead, HoldsLock, Active
<1> QED BY <1>1, <1>2, OnlyWinReads

\* While refreshes land, every step keeps live runs on their own, fresh locks.
LEMMA LocksStep ==
  ASSUME "late" \notin Faults, TypeOK, LiveHoldLocks, ClaimIsNew, [Next]_vars
  PROVE  LiveHoldLocks'
<1>1. ASSUME NEW j \in Jobs, Enqueue(j) \/ CancelPending(j) \/ Gc(j) PROVE LiveHoldLocks'
  <2>1. UNCHANGED <<poll, run>> /\ \A i \in Jobs \ {j} : job'[i] = job[i]
    BY <1>1 DEF Enqueue, CancelPending, Gc, TypeOK
  <2>2. job[j].status # "running"
    BY <1>1 DEF Enqueue, CancelPending, Cancellable, Gc, Ended
  <2>3. \A w \in Workers : ~Live(w, j) BY <2>2 DEF LiveHoldLocks, HoldsLock
  <2> QED BY <2>1, <2>3, IdleRowWrite
<1>2. CASE Tick BY <1>2, TickHoldsLock DEF Tick
<1>3. ASSUME NEW w \in Workers, Worker(w) PROVE LiveHoldLocks'
  <2>1. CASE ClaimWin(w) BY <2>1, ClaimHoldsLock
  <2>2. ASSUME NEW j \in Jobs, Complete(w, j) \/ MarkCancelled(w, j) \/ FailWrite(w, j)
        PROVE  LiveHoldLocks'
    BY <2>2, RunEndHoldsLock
  <2>3. ASSUME NEW j \in Jobs, Refresh(w, j) PROVE LiveHoldLocks'
    <3>1. job[j] \in Row /\ job' = [job EXCEPT ![j].lockAge = 0] BY <2>3 DEF Refresh, TypeOK
    <3>2. /\ job'[j].status = job[j].status /\ job'[j].lockedBy = job[j].lockedBy
          /\ job'[j].lockAge = 0
      BY <3>1 DEF TypeOK, Row
    <3>3. \A i \in Jobs \ {j} : job'[i] = job[i] BY <3>1 DEF TypeOK
    <3>4. \A v \in Workers, i \in Jobs : Live(v, i)' => Live(v, i)
      BY <2>3 DEF Refresh, Live
    <3> QED BY <3>2, <3>3, <3>4, QueueAssumption DEF LiveHoldLocks, HoldsLock, Stale
  <2>4. CASE UNCHANGED job /\ \A v \in Workers : ~ClaimWin(v) BY <2>4, QuietHoldsLock
  <2>5. ASSUME NEW v \in Workers, ClaimWin(v) PROVE LiveHoldLocks' BY <2>5, ClaimHoldsLock
  <2>6. \/ UNCHANGED job \/ ClaimWin(w)
        \/ \E j \in Jobs : Complete(w, j) \/ MarkCancelled(w, j) \/ FailWrite(w, j) \/ Refresh(w, j)
    BY <1>3 DEF Worker, ClaimGoesOn, RunEnds, ClaimSelect, ClaimLose, AlreadyRunning, Launch,
                ClaimCut, StopBegin, StopResolve, DrainTimeout, Exit, Start, RequestCancel,
                FailRead, BookkeepingCut, Leave
  <2> QED BY <2>1, <2>2, <2>3, <2>4, <2>5, <2>6
<1>4. CASE UNCHANGED vars BY <1>4, SameTable DEF vars, Live
<1> QED BY <1>1, <1>2, <1>3, <1>4 DEF Next

\* As long as refreshes land within the stale window, no two workers are ever
\* at work on the same job: not after a crash, a drain, a lost statement or a
\* reclaim (claim's guarded UPDATE and keepLock together).
THEOREM OneRunAtATime == Spec => []OneLiveRun
<1> DEFINE Inv == "late" \notin Faults => LiveHoldLocks /\ ClaimIsNew
<1>1. Init => Inv BY DEF Init, LiveHoldLocks, ClaimIsNew, Live, Idle, NoRun
<1>2. TypeOK /\ Inv /\ [Next]_vars => Inv' BY LocksStep, ClaimStaysNew
<1>3. Inv => OneLiveRun BY DEF OneLiveRun, LiveHoldLocks, HoldsLock
<1> HIDE DEF Inv
<1> QED BY <1>1, <1>2, <1>3, TypeCorrect, PTL DEF Spec
-----------------------------------------------------------------------------
(* Failures and the attempts they are judged on *)

\* A failing run decides on the attempts its row still has.
FailuresSeen ==
  \A w \in Workers, j \in Jobs :
    run[w][j].pc = "failing" => run[w][j].seen = job[j].attempts

TriesCounted ==
  \A j \in Jobs : /\ job[j].status = "pending" => job[j].attempts < MaxAttempts
                  /\ job[j].status = "failed" => job[j].attempts >= MaxAttempts

\* A row whose lock a live run holds keeps its attempts; so do all others but
\* the one a claim wins.
LEMMA AttemptsKept ==
  ASSUME TypeOK, [Next]_vars, NEW j \in Jobs, job[j].status # "none",
         \/ job'[j].status # "running"
         \/ \A w \in Workers : \A c \in poll[w].cand : c.id = j => ~StillAsRead(c)
  PROVE  job'[j].attempts = job[j].attempts
<1>r. \A i \in Jobs : job[i] \in Row BY DEF TypeOK
<1>1. ASSUME NEW i \in Jobs, Enqueue(i) PROVE job'[j].attempts = job[j].attempts
  <2>1. i # j BY <1>1 DEF Enqueue
  <2> QED BY <1>1, <2>1 DEF Enqueue, TypeOK
<1>2. ASSUME NEW i \in Jobs, NEW s \in Statuses, job' = [job EXCEPT ![i] = EndedRow(i, s)]
      PROVE  job'[j].attempts = job[j].attempts
  <2>1. EndedRow(i, s).attempts = job[i].attempts BY <1>r DEF EndedRow, Row
  <2> QED BY <1>2, <2>1 DEF TypeOK
<1>3. ASSUME NEW i \in Jobs, Gc(i) PROVE job'[j].attempts = job[j].attempts
  <2>1. job' = [job EXCEPT ![i].status = "gone"] BY <1>3 DEF Gc
  <2> QED BY <1>r, <2>1 DEF TypeOK, Row
<1>4. CASE Tick
  <2>1. job'[j] = OneTickOlder(job[j]) BY <1>4 DEF Tick
  <2> QED BY <1>r, <2>1 DEF OneTickOlder, Row
<1>5. ASSUME NEW w \in Workers, ClaimWin(w) PROVE job'[j].attempts = job[j].attempts
  <2>1. PICK c \in poll[w].cand :
          /\ StillAsRead(c)
          /\ job' = [job EXCEPT ![c.id] = [@ EXCEPT !.status = "running", !.lockedBy = w,
                                             !.lockAge = 0, !.attempts = AttemptAfter(c)]]
    BY <1>5 DEF ClaimWin
  <2>2. c.id = j => job'[j].status = "running" BY <1>r, <2>1 DEF TypeOK, Row
  <2>3. c.id # j BY <2>1, <2>2
  <2> QED BY <2>1, <2>3 DEF TypeOK
<1>6. ASSUME NEW w \in Workers, NEW i \in Jobs, Refresh(w, i)
      PROVE  job'[j].attempts = job[j].attempts
  <2>1. job' = [job EXCEPT ![i].lockAge = 0] BY <1>6 DEF Refresh
  <2> QED BY <1>r, <2>1 DEF TypeOK, Row
<1>7. ASSUME NEW w \in Workers, NEW i \in Jobs, FailWrite(w, i)
      PROVE  job'[j].attempts = job[j].attempts
  <2>1. \/ job' = job \/ job' = [job EXCEPT ![i] = EndedRow(i, "failed")]
        \/ job' = [job EXCEPT ![i] = PutBackRow(i)]
    BY <1>7 DEF FailWrite, WriteIfRunning
  <2>2. PutBackRow(i).attempts = job[i].attempts BY <1>r DEF PutBackRow, Row
  <2>3. CASE job' = [job EXCEPT ![i] = PutBackRow(i)] BY <2>2, <2>3 DEF TypeOK
  <2> QED BY <1>2, <2>1, <2>3 DEF Statuses, Ended
<1>8. CASE \/ UNCHANGED job
           \/ \E i \in Jobs, s \in Ended : job' = [job EXCEPT ![i] = EndedRow(i, s)]
  BY <1>2, <1>8 DEF Statuses
<1>9. ASSUME NEW i \in Jobs, CancelPending(i) PROVE job'[j].attempts = job[j].attempts
  <2>1. job' = [job EXCEPT ![i] = EndedRow(i, "cancelled")] BY <1>9 DEF CancelPending
  <2> QED BY <1>8, <2>1 DEF Ended
<1>10. ASSUME NEW w \in Workers, NEW i \in Jobs, Complete(w, i) \/ MarkCancelled(w, i)
       PROVE  job'[j].attempts = job[j].attempts
  <2>1. \/ UNCHANGED job
        \/ job' = [job EXCEPT ![i] = EndedRow(i, "succeeded")]
        \/ job' = [job EXCEPT ![i] = EndedRow(i, "cancelled")]
    BY <1>10 DEF Complete, MarkCancelled, WriteIfRunning
  <2> QED BY <1>8, <2>1 DEF Ended
<1>11. ASSUME NEW w \in Workers,
              \/ ClaimSelect(w) \/ ClaimLose(w) \/ AlreadyRunning(w) \/ Launch(w) \/ ClaimCut(w)
              \/ StopBegin(w) \/ StopResolve(w) \/ DrainTimeout(w) \/ Exit(w) \/ Start(w)
       PROVE  UNCHANGED job
  BY <1>11 DEF ClaimSelect, ClaimLose, AlreadyRunning, Launch, ClaimCut,
               StopBegin, StopResolve, DrainTimeout, Exit, Start
<1>12. ASSUME NEW w \in Workers, NEW i \in Jobs,
              RequestCancel(w, i) \/ FailRead(w, i) \/ BookkeepingCut(w, i) \/ Leave(w, i)
       PROVE  UNCHANGED job
  BY <1>12 DEF RequestCancel, FailRead, BookkeepingCut, Leave
<1>13. ASSUME NEW w \in Workers, Worker(w) PROVE job'[j].attempts = job[j].attempts
  <2>1. CASE ClaimGoesOn(w) BY <1>5, <1>8, <1>11, <2>1 DEF ClaimGoesOn
  <2>2. ASSUME NEW i \in Jobs, RunEnds(w, i) PROVE job'[j].attempts = job[j].attempts
    BY <1>7, <1>8, <1>10, <1>12, <2>2 DEF RunEnds
  <2> QED BY <1>6, <1>8, <1>11, <1>12, <1>13, <2>1, <2>2 DEF Worker
<1>14. CASE UNCHANGED vars BY <1>8, <1>14 DEF vars
<1> QED BY <1>1, <1>3, <1>4, <1>9, <1>13, <1>14 DEF Next

\* A run that is failing either was, or has just read its row's attempts.
LEMMA FailingStep ==
  ASSUME TypeOK, [Next]_vars, NEW w \in Workers, NEW j \in Jobs,
         run'[w][j].pc = "failing"
  PROVE  \/ run'[w][j].seen = run[w][j].seen /\ run[w][j].pc = "failing"
         \/ run'[w][j].seen = job[j].attempts
<1> DEFINE Goal == \/ run'[w][j].seen = run[w][j].seen /\ run[w][j].pc = "failing"
                   \/ run'[w][j].seen = job[j].attempts
<1>r. \A v \in Workers, i \in Jobs : run[v][i] \in Run BY DEF TypeOK
<1>1. CASE run'[w][j] = run[w][j] BY <1>1
<1>2. ASSUME NEW v \in Workers, NEW c \in poll[v].cand,
             run' = [run EXCEPT ![v][c.id] = [NoRun EXCEPT !.pc = "handler"]]
      PROVE  Goal
  <2>1. [NoRun EXCEPT !.pc = "handler"].pc = "handler" BY DEF NoRun
  <2>2. ~(v = w /\ c.id = j) BY <1>2, <2>1 DEF TypeOK
  <2> QED BY <1>1, <1>2, <2>2 DEF TypeOK
<1>3. ASSUME NEW v \in Workers, DrainTimeout(v) PROVE Goal
  <2>1. CASE v = w
    <3>1. run'[w][j] = IF run[w][j].pc = "none" THEN NoRun
                       ELSE [run[w][j] EXCEPT !.aborted = TRUE]
      BY <1>3, <2>1 DEF DrainTimeout, TypeOK
    <3>2. run'[w][j].pc = run[w][j].pc /\ run'[w][j].seen = run[w][j].seen
      BY <1>r, <3>1 DEF Run, NoRun
    <3> QED BY <3>2
  <2>2. CASE v # w BY <1>1, <1>3, <2>2 DEF DrainTimeout, TypeOK
  <2> QED BY <2>1, <2>2
<1>4. ASSUME NEW v \in Workers, Exit(v) PROVE Goal
  <2>1. v = w => run'[w][j] = NoRun BY <1>4 DEF Exit, TypeOK
  <2>2. v # w => run'[w][j] = run[w][j] BY <1>4 DEF Exit, TypeOK
  <2> QED BY <1>1, <2>1, <2>2 DEF NoRun
<1>5. ASSUME NEW v \in Workers, NEW i \in Jobs, NEW r \in Run,
             run' = [run EXCEPT ![v][i] = r],
             r.pc = "failing" => r.seen = job[i].attempts
      PROVE  Goal
  <2>1. CASE v = w /\ i = j
    <3>1. run'[w][j] = r BY <1>5, <2>1 DEF TypeOK
    <3> QED BY <1>5, <2>1, <3>1
  <2>2. CASE ~(v = w /\ i = j) BY <1>1, <1>5, <2>2 DEF TypeOK
  <2> QED BY <2>1, <2>2
<1>6. ASSUME NEW v \in Workers, NEW i \in Jobs,
             \/ RequestCancel(v, i) \/ RunEnds(v, i) \/ BookkeepingCut(v, i) \/ Leave(v, i)
      PROVE  Goal
  <2>0. run[v][i] \in Run /\ job[i] \in Row BY DEF TypeOK
  <2>1. CASE RequestCancel(v, i)
    <3>1. [run[v][i] EXCEPT !.aborted = TRUE] \in Run BY <2>0, RunUpdateType
    <3>2. [run[v][i] EXCEPT !.aborted = TRUE].pc = "handler"
      BY <2>0, <2>1 DEF RequestCancel, Run
    <3> QED BY <1>5, <2>1, <3>1, <3>2 DEF RequestCancel, SetRun
  <2>2. CASE Settled(v, i)
    <3>1. [run[v][i] EXCEPT !.pc = "settled"] \in Run BY <2>0, RunUpdateType
    <3>2. [run[v][i] EXCEPT !.pc = "settled"].pc = "settled" BY <2>0 DEF Run
    <3> QED BY <1>5, <2>2, <3>1, <3>2 DEF Settled, SetRun
  <2>3. CASE Leave(v, i) BY <1>5, <2>3, NoRunType DEF Leave, SetRun, NoRun
  <2>4. CASE FailRead(v, i)
    <3>1. [pc |-> "failing", aborted |-> FALSE, seen |-> job[i].attempts] \in Run
      BY <2>0 DEF Run, Row
    <3> QED BY <1>5, <2>2, <2>4, <3>1 DEF FailRead, SetRun
  <2> QED BY <1>6, <2>1, <2>2, <2>3, <2>4
       DEF RunEnds, Complete, MarkCancelled, FailWrite, BookkeepingCut
<1>7. \/ UNCHANGED run
      \/ \E v \in Workers :
           \/ \E c \in poll[v].cand : run' = [run EXCEPT ![v][c.id] = [NoRun EXCEPT !.pc = "handler"]]
           \/ DrainTimeout(v) \/ Exit(v)
           \/ \E i \in Jobs : \/ RequestCancel(v, i) \/ RunEnds(v, i)
                              \/ BookkeepingCut(v, i) \/ Leave(v, i)
  BY DEF Next, vars, Enqueue, CancelPending, Gc, Tick, Worker, ClaimSelect, ClaimGoesOn,
         ClaimWin, ClaimLose, AlreadyRunning, Launch, SetRun, ClaimCut, StopBegin,
         StopResolve, Start, Refresh
<1> QED BY <1>1, <1>2, <1>3, <1>4, <1>6, <1>7

\* Between fail's read and its write nobody takes the row.
LEMMA FailuresStaySeen ==
  ASSUME TypeOK, LiveHoldLocks, FailuresSeen, [Next]_vars
  PROVE  FailuresSeen'
<1> SUFFICES ASSUME NEW w \in Workers, NEW j \in Jobs, run'[w][j].pc = "failing"
             PROVE  run'[w][j].seen = job'[j].attempts
  BY DEF FailuresSeen
<1>1. ~Launch(w) \/ run'[w][j] = run[w][j]
  <2>1. ASSUME NEW c \in poll[w].cand,
               run' = [run EXCEPT ![w][c.id] = [NoRun EXCEPT !.pc = "handler"]]
        PROVE  run'[w][j] = run[w][j]
    <3>1. [NoRun EXCEPT !.pc = "handler"].pc = "handler" BY DEF NoRun
    <3>2. c.id # j BY <2>1, <3>1 DEF TypeOK
    <3> QED BY <2>1, <3>2 DEF TypeOK
  <2> QED BY <2>1 DEF Launch, SetRun
<1>2. Live(w, j)
  <2>1. AtWork(w, j)' BY DEF AtWork
  <2> QED BY <2>1, OnlyLaunchStarts DEF AtWork, Live
<1>3. HoldsLock(w, j) BY <1>2 DEF LiveHoldLocks
<1>4. job'[j].attempts = job[j].attempts
  <2>1. ASSUME NEW v \in Workers, NEW c \in poll[v].cand, c.id = j, StillAsRead(c)
        PROVE  FALSE
    <3>1. c.status \in Active BY DEF TypeOK, Poll, Snapshot
    <3> QED BY <1>3, <2>1, <3>1 DEF StillAsRead, HoldsLock, Active
  <2> QED BY <1>3, <2>1, AttemptsKept DEF HoldsLock
<1>5. \/ run'[w][j].seen = run[w][j].seen /\ run[w][j].pc = "failing"
      \/ run'[w][j].seen = job[j].attempts
  BY FailingStep
<1> QED BY <1>4, <1>5 DEF FailuresSeen

\* Only enqueue and a failure with tries left make a job wait, and only a
\* failure without any dead-letters it.
LEMMA WaitsOrDies ==
  ASSUME TypeOK, [Next]_vars, NEW j \in Jobs, job'[j].status # job[j].status,
         job'[j].status \in {"pending", "failed"}
  PROVE  \/ job'[j].status = "pending" /\ job'[j].attempts = 0
         \/ \E w \in Workers : /\ run[w][j].pc = "failing"
                               /\ IF job'[j].status = "failed" THEN GivesUp(run[w][j].seen)
                                  ELSE ~GivesUp(run[w][j].seen)
<1>r. \A i \in Jobs : job[i] \in Row BY DEF TypeOK
<1>1. ASSUME NEW i \in Jobs, Enqueue(i)
      PROVE  job'[j].status = "pending" /\ job'[j].attempts = 0
  <2>1. i = j BY <1>1 DEF Enqueue, TypeOK
  <2> QED BY <1>1, <2>1 DEF Enqueue, TypeOK
<1>2. ASSUME NEW i \in Jobs, NEW s \in {"succeeded", "cancelled"},
             job' = [job EXCEPT ![i] = EndedRow(i, s)]
      PROVE  FALSE
  <2>1. EndedRow(i, s).status = s BY <1>r DEF EndedRow, Row
  <2>2. i = j => job'[j].status = s BY <1>2, <2>1 DEF TypeOK
  <2> QED BY <1>2, <2>2 DEF TypeOK
<1>3. ASSUME NEW i \in Jobs, Gc(i) PROVE FALSE
  <2>1. job' = [job EXCEPT ![i].status = "gone"] BY <1>3 DEF Gc
  <2> QED BY <1>r, <2>1 DEF TypeOK, Row
<1>4. ~Tick
  <2>1. Tick => job'[j] = OneTickOlder(job[j]) BY DEF Tick
  <2> QED BY <1>r, <2>1 DEF OneTickOlder, Row
<1>5. ASSUME NEW w \in Workers, ClaimWin(w) PROVE FALSE
  <2>1. PICK c \in poll[w].cand :
          job' = [job EXCEPT ![c.id] = [@ EXCEPT !.status = "running", !.lockedBy = w,
                                             !.lockAge = 0, !.attempts = AttemptAfter(c)]]
    BY <1>5 DEF ClaimWin
  <2>2. c.id = j => job'[j].status = "running" BY <1>r, <2>1 DEF TypeOK, Row
  <2> QED BY <2>1, <2>2 DEF TypeOK
<1>6. ASSUME NEW w \in Workers, NEW i \in Jobs, Refresh(w, i) PROVE FALSE
  <2>1. job' = [job EXCEPT ![i].lockAge = 0] BY <1>6 DEF Refresh
  <2> QED BY <1>r, <2>1 DEF TypeOK, Row
<1>7. ASSUME NEW w \in Workers, NEW i \in Jobs, FailWrite(w, i)
      PROVE  /\ run[w][j].pc = "failing"
             /\ IF job'[j].status = "failed" THEN GivesUp(run[w][j].seen)
                ELSE ~GivesUp(run[w][j].seen)
  <2>1. job' = [job EXCEPT ![i] = IF GivesUp(run[w][i].seen) THEN EndedRow(i, "failed")
                                  ELSE PutBackRow(i)]
    BY <1>7 DEF FailWrite, WriteIfRunning
  <2>2. i = j BY <2>1 DEF TypeOK
  <2>3. job'[j] = IF GivesUp(run[w][j].seen) THEN EndedRow(j, "failed") ELSE PutBackRow(j)
    BY <2>1, <2>2 DEF TypeOK
  <2>4. EndedRow(j, "failed").status = "failed" /\ PutBackRow(j).status = "pending"
    BY <1>r DEF EndedRow, PutBackRow, Row
  <2> QED BY <1>7, <2>2, <2>3, <2>4 DEF FailWrite
<1>8. ASSUME NEW w \in Workers, NEW i \in Jobs,
             CancelPending(i) \/ Complete(w, i) \/ MarkCancelled(w, i)
      PROVE  FALSE
  BY <1>2, <1>8 DEF CancelPending, Complete, MarkCancelled, WriteIfRunning
<1>9. ASSUME NEW i \in Jobs, CancelPending(i) PROVE FALSE BY <1>2, <1>9 DEF CancelPending
<1>10. CASE UNCHANGED job BY <1>10
<1>11. \/ UNCHANGED job \/ Tick
       \/ \E i \in Jobs : Enqueue(i) \/ Gc(i) \/ CancelPending(i)
       \/ \E w \in Workers : \/ ClaimWin(w)
                              \/ \E i \in Jobs : \/ Refresh(w, i) \/ FailWrite(w, i)
                                                 \/ Complete(w, i) \/ MarkCancelled(w, i)
  BY DEF Next, vars, Worker, ClaimGoesOn, RunEnds, ClaimSelect, ClaimLose, AlreadyRunning,
         Launch, ClaimCut, StopBegin, StopResolve, DrainTimeout, Exit, Start, RequestCancel,
         FailRead, BookkeepingCut, Leave
<1> QED BY <1>1, <1>3, <1>4, <1>5, <1>6, <1>7, <1>8, <1>9, <1>10, <1>11

LEMMA TriesStep ==
  ASSUME TypeOK, LiveHoldLocks, FailuresSeen, TriesCounted, [Next]_vars
  PROVE  TriesCounted'
<1> SUFFICES ASSUME NEW j \in Jobs, job'[j].status \in {"pending", "failed"}
             PROVE  /\ job'[j].status = "pending" => job'[j].attempts < MaxAttempts
                    /\ job'[j].status = "failed" => job'[j].attempts >= MaxAttempts
  BY DEF TriesCounted
<1>0. MaxAttempts \in Nat \ {0} /\ job[j].attempts \in Nat
  BY QueueAssumption DEF TypeOK, Row, Attempts
<1>2. CASE job'[j].status = job[j].status
  <2>1. job'[j].attempts = job[j].attempts BY <1>2, AttemptsKept
  <2> QED BY <1>2, <2>1 DEF TriesCounted
<1>3. CASE job'[j].status # job[j].status /\ job'[j].attempts = 0 /\ job'[j].status = "pending"
  BY <1>0, <1>3
<1>4. ASSUME job'[j].status # job[j].status, NEW w \in Workers, run[w][j].pc = "failing",
             IF job'[j].status = "failed" THEN GivesUp(run[w][j].seen)
                                          ELSE ~GivesUp(run[w][j].seen)
      PROVE  /\ job'[j].status = "pending" => job'[j].attempts < MaxAttempts
             /\ job'[j].status = "failed" => job'[j].attempts >= MaxAttempts
  <2>1. run[w][j].seen = job[j].attempts BY <1>4 DEF FailuresSeen
  <2>2. job[j].status = "running" BY <1>4 DEF LiveHoldLocks, HoldsLock, Live
  <2>3. job'[j].attempts = job[j].attempts BY <2>2, AttemptsKept
  <2> QED BY <1>0, <1>4, <2>1, <2>3 DEF GivesUp
<1> QED BY <1>2, <1>3, <1>4, WaitsOrDies

\* As long as refreshes land, a waiting job has a try left and a dead-lettered
\* one has none: each failure is judged on the attempts of its own run, though
\* fail reads the row and writes it in two statements.
THEOREM TriesAlwaysAccounted == Spec => []TriesAccounted
<1> DEFINE Inv == "late" \notin Faults =>
                    LiveHoldLocks /\ ClaimIsNew /\ FailuresSeen /\ TriesCounted
<1>1. Init => Inv
  BY DEF Init, LiveHoldLocks, ClaimIsNew, FailuresSeen, TriesCounted, Live, Idle, NoRun
<1>2. TypeOK /\ Inv /\ [Next]_vars => Inv'
  BY LocksStep, ClaimStaysNew, FailuresStaySeen, TriesStep
<1>3. Inv => TriesAccounted BY DEF TriesAccounted, TriesCounted
<1> HIDE DEF Inv
<1> QED BY <1>1, <1>2, <1>3, TypeCorrect, PTL DEF Spec
-----------------------------------------------------------------------------
(* Who ends a row, and when a waiting one starts *)

\* Of the steps that write the table, a claim writes the row it wins and a run
\* its own; the others leave every status alone.
LEMMA StatusWriters ==
  ASSUME TypeOK, [Next]_vars, NEW j \in Jobs, job'[j].status # job[j].status
  PROVE  \/ job[j].status = "none" /\ job'[j].status = "pending"
         \/ job[j].status \in Ended \cup { "pending" } /\ job'[j].status \in Ended \cup { "gone" }
         \/ \E w \in Workers : ClaimWin(w) /\ job'[j].status = "running" /\ job'[j].lockedBy = w
         \/ /\ job[j].status = "running"
            /\ \E w \in Workers : Complete(w, j) \/ MarkCancelled(w, j) \/ FailWrite(w, j)
<1>r. \A i \in Jobs : job[i] \in Row BY DEF TypeOK
<1>1. ASSUME NEW i \in Jobs, Enqueue(i) PROVE job[j].status = "none" /\ job'[j].status = "pending"
  <2>1. i = j BY <1>1 DEF Enqueue, TypeOK
  <2>2. job[j].status = "none" /\ job'[j].status = "pending" BY <1>1, <2>1 DEF Enqueue, TypeOK
  <2> QED BY <2>2
<1>2. ASSUME NEW i \in Jobs, CancelPending(i) \/ Gc(i)
      PROVE  job[j].status \in Ended \cup { "pending" } /\ job'[j].status \in Ended \cup { "gone" }
  <2>1. i = j BY <1>2 DEF CancelPending, Gc, TypeOK
  <2>2. job[j].status \in Ended \cup { "pending" }
    BY <1>2, <2>1 DEF CancelPending, Cancellable, Gc
  <2>3. job'[j] = EndedRow(j, "cancelled") \/ job'[j] = [job[j] EXCEPT !.status = "gone"]
    BY <1>2, <2>1 DEF CancelPending, Gc, TypeOK
  <2>4. job'[j].status \in Ended \cup { "gone" }
    BY <1>r, <2>3 DEF EndedRow, Ended, Row
  <2> QED BY <2>2, <2>4
<1>3. ASSUME Tick PROVE FALSE
  BY <1>3, <1>r DEF Tick, OneTickOlder, Row
<1>4. ASSUME NEW w \in Workers, ClaimWin(w)
      PROVE  job'[j].status = "running" /\ job'[j].lockedBy = w
  <2>1. PICK c \in poll[w].cand :
          job' = [job EXCEPT ![c.id] = [@ EXCEPT !.status = "running", !.lockedBy = w,
                                             !.lockAge = 0, !.attempts = AttemptAfter(c)]]
    BY <1>4 DEF ClaimWin
  <2>2. c.id = j BY <2>1 DEF TypeOK
  <2> QED BY <1>r, <2>1, <2>2 DEF TypeOK, Row
<1>5. ASSUME NEW w \in Workers, NEW i \in Jobs, Complete(w, i) \/ MarkCancelled(w, i) \/ FailWrite(w, i)
      PROVE  i = j /\ job[j].status = "running"
  BY <1>5 DEF Complete, MarkCancelled, FailWrite, WriteIfRunning, TypeOK
<1>6. ASSUME NEW w \in Workers, NEW i \in Jobs, Refresh(w, i) PROVE FALSE
  BY <1>6, <1>r DEF Refresh, TypeOK, Row
<1>7. job' # job OBVIOUS
<1>8. \/ \E i \in Jobs : Enqueue(i) \/ CancelPending(i) \/ Gc(i)
      \/ Tick
      \/ \E w \in Workers : ClaimWin(w) \/ \E i \in Jobs : \/ Refresh(w, i) \/ FailWrite(w, i)
                                                           \/ Complete(w, i) \/ MarkCancelled(w, i)
  BY <1>7 DEF Next, vars, Worker, ClaimGoesOn, RunEnds, ClaimSelect, ClaimLose, AlreadyRunning,
         Launch, ClaimCut, StopBegin, StopResolve, DrainTimeout, Exit, Start, RequestCancel,
         FailRead, BookkeepingCut, Leave
<1> QED BY <1>1, <1>2, <1>3, <1>4, <1>5, <1>6, <1>8

\* The worker whose lock is on a row ends it or puts it back as long as refreshes
\* land, though complete and fail ask for the status alone; late refreshes or not,
\* only the holder cancels it (worker.ts, markCancelled).
THEOREM HolderAlwaysDecides == Spec => HolderDecides
<1> DEFINE Inv == "late" \notin Faults => LiveHoldLocks /\ ClaimIsNew
<1>1. Init => Inv
  BY DEF Init, LiveHoldLocks, ClaimIsNew, Live, Idle, NoRun
<1>2. TypeOK /\ Inv /\ [Next]_vars => Inv' BY LocksStep, ClaimStaysNew
<1>3. ASSUME TypeOK, Inv, [Next]_vars, NEW j \in Jobs,
             job[j].status = "running", job'[j].status # "running",
             "late" \notin Faults \/ job'[j].status = "cancelled"
      PROVE  \E w \in Workers : job[j].lockedBy = w /\ run[w][j] # run'[w][j]
  <2>1. PICK w \in Workers : Complete(w, j) \/ MarkCancelled(w, j) \/ FailWrite(w, j)
    BY <1>3, StatusWriters DEF Ended
  <2>2. run[w][j].pc \in { "handler", "failing" } /\ run'[w][j].pc = "settled"
    BY <1>3, <2>1 DEF Complete, MarkCancelled, FailWrite, Settled, SetRun, TypeOK, Run
  <2>3. job[j].lockedBy = w
    <3>1. CASE "late" \notin Faults BY <1>3, <2>2, <3>1 DEF LiveHoldLocks, HoldsLock, Live
    <3>2. CASE job'[j].status = "cancelled"
      <4>0. job[j] \in Row BY <1>3 DEF TypeOK
      <4>1. ~Complete(w, j)
        <5>1. Complete(w, j) => job'[j] = EndedRow(j, "succeeded")
          BY <1>3 DEF Complete, WriteIfRunning, TypeOK
        <5> QED BY <3>2, <4>0, <5>1 DEF EndedRow, Row
      <4>2. ~FailWrite(w, j)
        <5>1. FailWrite(w, j) => job'[j] \in { EndedRow(j, "failed"), PutBackRow(j) }
          BY <1>3 DEF FailWrite, WriteIfRunning, TypeOK
        <5> QED BY <3>2, <4>0, <5>1 DEF EndedRow, PutBackRow, Row
      <4>3. MarkCancelled(w, j) BY <2>1, <4>1, <4>2
      <4> QED BY <1>3, <4>3 DEF MarkCancelled
    <3> QED BY <1>3, <3>1, <3>2
  <2> QED BY <2>2, <2>3
<1>4. TypeOK /\ Inv /\ [Next]_vars =>
        [\A j \in Jobs :
           /\ job[j].status = "running" /\ job'[j].status # "running"
           /\ "late" \notin Faults \/ job'[j].status = "cancelled"
           => \E w \in Workers : job[j].lockedBy = w /\ run[w][j] # run'[w][j]]_vars
  BY <1>3
<1> HIDE DEF Inv
<1> QED BY <1>1, <1>2, <1>4, TypeCorrect, PTL DEF Spec, HolderDecides

-----------------------------------------------------------------------------
(* What a claim read, and what has become of it when the claim writes *)

\* The statements that write row j between two ticks: a claim that trusts what it
\* read of it, the end of it, a failure that puts it back, a refresh of its lock.
LEMMA RowStep ==
  ASSUME TypeOK, [Next]_vars, NEW j \in Jobs, job[j].status # "none", ~Tick
  PROVE  \/ job'[j] = job[j]
         \/ \E w \in Workers : \E c \in poll[w].cand :
              /\ poll[w].pc = "trying" /\ c.id = j /\ StillAsRead(c)
              /\ job'[j].status = "running" /\ job'[j].lockAge = 0
              /\ job'[j].attempts = AttemptAfter(c)
         \/ job'[j].status \in Ended \cup { "gone" }
         \/ /\ job[j].status = "running" /\ job'[j].status = "pending"
            /\ job'[j].wait = BackoffTicks /\ job'[j].attempts = job[j].attempts
         \/ /\ job[j].status = "running" /\ job'[j].status = "running"
            /\ job'[j].lockAge = 0 /\ job'[j].attempts = job[j].attempts
<1>r. \A i \in Jobs : job[i] \in Row BY DEF TypeOK
<1> SUFFICES ASSUME job'[j] # job[j], job'[j].status \notin Ended \cup { "gone" }
             PROVE  \/ \E w \in Workers : \E c \in poll[w].cand :
                         /\ poll[w].pc = "trying" /\ c.id = j /\ StillAsRead(c)
                         /\ job'[j].status = "running" /\ job'[j].lockAge = 0
                         /\ job'[j].attempts = AttemptAfter(c)
                    \/ /\ job[j].status = "running" /\ job'[j].status = "pending"
                       /\ job'[j].wait = BackoffTicks /\ job'[j].attempts = job[j].attempts
                    \/ /\ job[j].status = "running" /\ job'[j].status = "running"
                       /\ job'[j].lockAge = 0 /\ job'[j].attempts = job[j].attempts
  OBVIOUS
<1>1. ASSUME NEW i \in Jobs, Enqueue(i) PROVE FALSE
  <2>1. i # j BY <1>1 DEF Enqueue
  <2> QED BY <1>1, <2>1 DEF Enqueue, TypeOK
<1>2. ASSUME NEW i \in Jobs, CancelPending(i) \/ Gc(i) PROVE FALSE
  <2>1. i = j BY <1>2 DEF CancelPending, Gc, TypeOK
  <2>2. job'[j] = EndedRow(j, "cancelled") \/ job'[j] = [job[j] EXCEPT !.status = "gone"]
    BY <1>2, <2>1 DEF CancelPending, Gc, TypeOK
  <2>3. job'[j].status \in Ended \cup { "gone" } BY <1>r, <2>2 DEF EndedRow, Ended, Row
  <2> QED BY <2>3
<1>3. ASSUME NEW w \in Workers, ClaimWin(w)
      PROVE  \E c \in poll[w].cand :
               /\ poll[w].pc = "trying" /\ c.id = j /\ StillAsRead(c)
               /\ job'[j].status = "running" /\ job'[j].lockAge = 0
               /\ job'[j].attempts = AttemptAfter(c)
  <2>1. PICK c \in poll[w].cand :
          /\ StillAsRead(c)
          /\ job' = [job EXCEPT ![c.id] = [@ EXCEPT !.status = "running", !.lockedBy = w,
                                             !.lockAge = 0, !.attempts = AttemptAfter(c)]]
    BY <1>3 DEF ClaimWin
  <2>2. c.id = j BY <2>1 DEF TypeOK
  <2>3. job'[j] = [job[j] EXCEPT !.status = "running", !.lockedBy = w,
                                 !.lockAge = 0, !.attempts = AttemptAfter(c)]
    BY <2>1, <2>2 DEF TypeOK
  <2>4. /\ job'[j].status = "running" /\ job'[j].lockAge = 0
        /\ job'[j].attempts = AttemptAfter(c)
    BY <1>r, <2>3 DEF Row
  <2>5. poll[w].pc = "trying" BY <1>3 DEF ClaimWin
  <2> QED BY <2>1, <2>2, <2>4, <2>5
<1>4. ASSUME NEW w \in Workers, NEW i \in Jobs, Complete(w, i) \/ MarkCancelled(w, i) PROVE FALSE
  <2>1. i = j BY <1>4 DEF Complete, MarkCancelled, WriteIfRunning, TypeOK
  <2>2. job'[j] \in { EndedRow(j, "succeeded"), EndedRow(j, "cancelled") }
    BY <1>4, <2>1 DEF Complete, MarkCancelled, WriteIfRunning, TypeOK
  <2>3. job'[j].status \in Ended BY <1>r, <2>2 DEF EndedRow, Ended, Row
  <2> QED BY <2>3
<1>5. ASSUME NEW w \in Workers, NEW i \in Jobs, FailWrite(w, i)
      PROVE  /\ job[j].status = "running" /\ job'[j].status = "pending"
             /\ job'[j].wait = BackoffTicks /\ job'[j].attempts = job[j].attempts
  <2>1. i = j /\ job[j].status = "running"
    BY <1>5 DEF FailWrite, WriteIfRunning, TypeOK
  <2>2. job'[j] \in { EndedRow(j, "failed"), PutBackRow(j) }
    BY <1>5, <2>1 DEF FailWrite, WriteIfRunning, TypeOK
  <2>3. job'[j] # EndedRow(j, "failed")
    <3>1. EndedRow(j, "failed").status = "failed" BY <1>r DEF EndedRow, Row
    <3> QED BY <3>1 DEF Ended
  <2>4. job'[j] = PutBackRow(j) BY <2>2, <2>3
  <2> QED BY <1>r, <2>1, <2>4 DEF PutBackRow, Row
<1>6. ASSUME NEW w \in Workers, NEW i \in Jobs, Refresh(w, i)
      PROVE  /\ job[j].status = "running" /\ job'[j].status = "running"
             /\ job'[j].lockAge = 0 /\ job'[j].attempts = job[j].attempts
  <2>1. i = j /\ job'[j] = [job[j] EXCEPT !.lockAge = 0] BY <1>6 DEF Refresh, TypeOK
  <2> QED BY <1>r, <1>6, <2>1 DEF Refresh, Row
<1>7. job' # job OBVIOUS
<1>8. \/ \E i \in Jobs : Enqueue(i) \/ CancelPending(i) \/ Gc(i)
      \/ \E w \in Workers : ClaimWin(w) \/ \E i \in Jobs : \/ Refresh(w, i) \/ FailWrite(w, i)
                                                           \/ Complete(w, i) \/ MarkCancelled(w, i)
  BY <1>7 DEF Next, vars, Worker, ClaimGoesOn, RunEnds, ClaimSelect, ClaimLose, AlreadyRunning,
         Launch, ClaimCut, StopBegin, StopResolve, DrainTimeout, Exit, Start, RequestCancel,
         FailRead, BookkeepingCut, Leave
<1> QED BY <1>1, <1>2, <1>3, <1>4, <1>5, <1>6, <1>8

\* A claim that goes on tries what it tried before, without the one it lost.
LEMMA CandidatesShrink ==
  ASSUME TypeOK, [Next]_vars, NEW w \in Workers, poll'[w].pc = "trying"
  PROVE  \/ ClaimSelect(w)
         \/ poll[w].pc = "trying" /\ poll'[w].cand \subseteq poll[w].cand /\ ~ClaimWin(w)
<1>1. ASSUME NEW v \in Workers, Worker(v)
      PROVE  \/ ClaimSelect(w)
             \/ poll[w].pc = "trying" /\ poll'[w].cand \subseteq poll[w].cand
  <2>1. CASE AlreadyRunning(v) \/ Launch(v) \/ ClaimCut(v) \/ Exit(v) \/ ClaimWin(v)
    <3>1. v # w
      <4>1. CASE ClaimWin(v)
        <5>1. PICK c \in poll[v].cand : poll' = [poll EXCEPT ![v] = [pc |-> "reading", cand |-> {c}]]
          BY <4>1 DEF ClaimWin
        <5>2. poll'[v].pc = "reading" BY <5>1 DEF TypeOK
        <5> QED BY <5>2
      <4>2. CASE AlreadyRunning(v) \/ Launch(v) \/ ClaimCut(v) \/ Exit(v)
        <5>1. poll' = [poll EXCEPT ![v] = Idle]
          BY <4>2 DEF AlreadyRunning, Launch, ClaimCut, Exit
        <5>2. poll'[v].pc = "idle" BY <5>1 DEF TypeOK, Idle
        <5> QED BY <5>2
      <4> QED BY <2>1, <4>1, <4>2
    <3>2. poll'[w] = poll[w]
      BY <2>1, <3>1 DEF AlreadyRunning, Launch, ClaimCut, Exit, ClaimWin, TypeOK
    <3> QED BY <3>2
  <2>2. CASE ClaimSelect(v)
    <3>1. v # w => poll'[w] = poll[w] BY <2>2 DEF ClaimSelect, TypeOK
    <3> QED BY <2>2, <3>1
  <2>3. CASE ClaimLose(v)
    <3>1. v # w => poll'[w] = poll[w] BY <2>3 DEF ClaimLose, TypeOK
    <3>2. v = w => poll[w].pc = "trying" /\ poll'[w].cand \subseteq poll[w].cand
      BY <2>3 DEF ClaimLose, TypeOK, Idle
    <3> QED BY <3>1, <3>2
  <2>4. \/ UNCHANGED poll \/ AlreadyRunning(v) \/ Launch(v) \/ ClaimCut(v) \/ Exit(v)
        \/ ClaimWin(v) \/ ClaimSelect(v) \/ ClaimLose(v)
    BY <1>1 DEF Worker, ClaimGoesOn, StopBegin, StopResolve, DrainTimeout, Start,
                RequestCancel, Refresh, RunEnds, Complete, MarkCancelled, FailRead,
                FailWrite, BookkeepingCut, Leave
  <2> QED BY <2>1, <2>2, <2>3, <2>4
<1>2. ASSUME ClaimWin(w) PROVE FALSE
  <2>1. PICK c \in poll[w].cand : poll' = [poll EXCEPT ![w] = [pc |-> "reading", cand |-> {c}]]
    BY <1>2 DEF ClaimWin
  <2>2. poll'[w].pc = "reading" BY <2>1 DEF TypeOK
  <2> QED BY <2>2
<1>3. UNCHANGED poll => poll[w].pc = "trying" /\ poll'[w].cand \subseteq poll[w].cand OBVIOUS
<1> QED BY <1>1, <1>2, <1>3 DEF Next, Enqueue, CancelPending, Gc, Tick, vars

\* What has become of a row since a claim read it as c: one read as waiting that
\* waits again, or runs, has been counted at least as far as c's claim would count
\* it; one whose stale lock was not stamped again has the attempts c read.
Followed(c) ==
  /\ job[c.id].status # "none"
  /\ c.status = "running" /\ job[c.id].status = "running" /\ Stale(c.id) =>
       job[c.id].attempts = c.attempts
  /\ c.status = "pending" =>
       /\ job[c.id].status = "pending" /\ job[c.id].wait = 0 => job[c.id].attempts = c.attempts
       /\ \/ job[c.id].status = "pending" /\ job[c.id].wait > 0
          \/ job[c.id].status = "running"
          => job[c.id].attempts >= AttemptAfter(c)

Trying(w) == IF poll[w].pc = "trying" THEN poll[w].cand ELSE {}

\* No tick passes within a claim, so a row put back is not due before it ends: all
\* claims that read a row as waiting read the same attempts.
CandidatesFollowed ==
  \A w \in Workers : \A c \in Trying(w) :
    /\ Followed(c)
    /\ \A v \in Workers : \A d \in Trying(v) :
         c.id = d.id /\ c.status = "pending" /\ d.status = "pending" => c.attempts = d.attempts

LEMMA TryingType ==
  ASSUME TypeOK, NEW w \in Workers, NEW c \in Trying(w)
  PROVE  /\ poll[w].pc = "trying" /\ c \in poll[w].cand
         /\ c.id \in Jobs /\ c.status \in Active /\ c.attempts \in Attempts
<1>1. poll[w].pc = "trying" /\ c \in poll[w].cand BY DEF Trying
<1>2. c \in Snapshot BY <1>1 DEF TypeOK, Poll
<1> QED BY <1>1, <1>2 DEF Snapshot

\* Whatever is written to the row between two ticks, what a claim in flight read
\* of it stays followed.
LEMMA FollowedStep ==
  ASSUME TypeOK, CandidatesFollowed, [Next]_vars, ~Tick, NEW w \in Workers, NEW c \in Trying(w)
  PROVE  Followed(c)'
<1>t. c.id \in Jobs /\ c.status \in Active /\ c.attempts \in Attempts BY TryingType
<1>f. Followed(c) BY DEF CandidatesFollowed
<1>r. job[c.id] \in Row /\ job[c.id].attempts \in Attempts BY <1>t DEF TypeOK, Row
<1>a. AttemptAfter(c)' = AttemptAfter(c) BY DEF AttemptAfter
<1>b. StaleTicks \in Nat /\ BackoffTicks \in Nat \ {0} BY QueueAssumption
<1>1. CASE job'[c.id] = job[c.id] BY <1>1, <1>f, <1>a DEF Followed, Stale
<1>2. ASSUME NEW v \in Workers, NEW d \in poll[v].cand, poll[v].pc = "trying", d.id = c.id,
             StillAsRead(d), job'[c.id].status = "running", job'[c.id].lockAge = 0,
             job'[c.id].attempts = AttemptAfter(d)
      PROVE  Followed(c)'
  <2>1. ~(Stale(c.id)') BY <1>2, <1>b DEF Stale
  <2>2. d \in Trying(v) BY <1>2 DEF Trying
  <2>3. d.attempts \in Attempts /\ d.status \in Active BY <2>2, TryingType
  <2>4. ASSUME c.status = "pending" PROVE job'[c.id].attempts >= AttemptAfter(c)
    <3>1. CASE d.status = "pending"
      <4>1. c.attempts = d.attempts BY <1>2, <2>2, <2>4, <3>1 DEF CandidatesFollowed
      <4>2. AttemptAfter(c) = AttemptAfter(d) BY <4>1 DEF AttemptAfter
      <4> QED BY <1>2, <1>t, <4>2, QueueAssumption DEF AttemptAfter, Attempts
    <3>2. CASE d.status = "running"
      <4>1. job[c.id].status = "running" /\ Stale(c.id) BY <1>2, <3>2 DEF StillAsRead
      <4>2. Followed(d) BY <2>2 DEF CandidatesFollowed
      <4>3. job[c.id].attempts = d.attempts BY <1>2, <3>2, <4>1, <4>2 DEF Followed
      <4>4. job[c.id].attempts >= AttemptAfter(c) BY <1>f, <2>4, <4>1 DEF Followed
      <4>5. d.attempts <= AttemptAfter(d) /\ AttemptAfter(d) \in Attempts
        BY <2>3, QueueAssumption DEF AttemptAfter, Attempts
      <4>6. AttemptAfter(c) \in Attempts BY <1>t, QueueAssumption DEF AttemptAfter, Attempts
      <4> QED BY <1>2, <1>r, <4>3, <4>4, <4>5, <4>6 DEF Attempts
    <3> QED BY <2>3, <3>1, <3>2 DEF Active
  <2> QED BY <1>2, <1>a, <2>1, <2>4 DEF Followed
<1>3. CASE job'[c.id].status \in Ended \cup { "gone" } BY <1>3 DEF Followed, Ended
<1>4. CASE /\ job[c.id].status = "running" /\ job'[c.id].status = "pending"
           /\ job'[c.id].wait = BackoffTicks /\ job'[c.id].attempts = job[c.id].attempts
  BY <1>4, <1>f, <1>a, <1>b DEF Followed
<1>5. CASE /\ job[c.id].status = "running" /\ job'[c.id].status = "running"
           /\ job'[c.id].lockAge = 0 /\ job'[c.id].attempts = job[c.id].attempts
  <2>1. ~(Stale(c.id)') BY <1>5, <1>b DEF Stale
  <2> QED BY <1>5, <1>f, <1>a, <2>1 DEF Followed
<1>6. job[c.id].status # "none" BY <1>f DEF Followed
<1> QED BY <1>1, <1>2, <1>3, <1>4, <1>5, <1>6, <1>t, RowStep

\* The candidates of a claim are those of the step before, or are read now.
LEMMA TryingStep ==
  ASSUME TypeOK, [Next]_vars, NEW w \in Workers, NEW c \in Trying(w)'
  PROVE  /\ ~Tick
         /\ \/ c \in Trying(w)
            \/ UNCHANGED job /\ \E j \in Jobs : /\ Claimable(j) /\ c.id = j
                                                /\ c.status = job[j].status
                                                /\ c.attempts = job[j].attempts
<1>1. poll'[w].pc = "trying" /\ c \in poll'[w].cand BY DEF Trying
<1>2. ~Tick BY <1>1 DEF Tick
<1>3. CASE ClaimSelect(w)
  <2>1. c \in { [id |-> j, status |-> job[j].status, attempts |-> job[j].attempts] :
                  j \in {i \in Jobs : Claimable(i)} }
    BY <1>1, <1>3 DEF ClaimSelect, TypeOK
  <2>2. PICK j \in Jobs : /\ Claimable(j) /\ c.id = j /\ c.status = job[j].status
                          /\ c.attempts = job[j].attempts
    BY <2>1
  <2>3. job' = job BY <1>3 DEF ClaimSelect
  <2> QED BY <1>2, <2>2, <2>3
<1>4. CASE poll[w].pc = "trying" /\ poll'[w].cand \subseteq poll[w].cand /\ ~ClaimWin(w)
  BY <1>1, <1>2, <1>4 DEF Trying
<1> QED BY <1>1, <1>3, <1>4, CandidatesShrink

LEMMA CandidatesStayFollowed ==
  ASSUME TypeOK, CandidatesFollowed, [Next]_vars
  PROVE  CandidatesFollowed'
<1>1. ASSUME NEW w \in Workers, NEW c \in Trying(w)' PROVE Followed(c)'
  <2>1. CASE c \in Trying(w) BY <1>1, <2>1, TryingStep, FollowedStep
  <2>2. ASSUME UNCHANGED job, NEW j \in Jobs, Claimable(j), c.id = j,
               c.status = job[j].status, c.attempts = job[j].attempts
        PROVE  Followed(c)'
    <3>1. Claimable(j)' BY <2>2 DEF Claimable, Stale
    <3>2. c.status = job'[j].status /\ c.attempts = job'[j].attempts BY <2>2
    <3> QED BY <2>2, <3>1, <3>2 DEF Followed, Claimable
  <2> QED BY <1>1, <2>1, <2>2, TryingStep
<1>2. ASSUME NEW w \in Workers, NEW c \in Trying(w)', NEW v \in Workers, NEW d \in Trying(v)',
             c.id = d.id, c.status = "pending", d.status = "pending",
             ~(c \in Trying(w) /\ d \in Trying(v))
      PROVE  c.attempts = d.attempts
  <2>1. Followed(c)' /\ Followed(d)' BY <1>1, <1>2
  <2>2. PICK j \in Jobs : Claimable(j)' /\ c.id = j /\ job'[j].status = "pending"
    <3>1. UNCHANGED job /\ \E j \in Jobs : /\ Claimable(j) /\ c.id = j /\ job[j].status = "pending"
      BY <1>2, TryingStep
    <3> QED BY <3>1 DEF Claimable, Stale
  <2>3. job'[j].wait = 0 BY <2>2 DEF Claimable
  <2> QED BY <1>2, <2>1, <2>2, <2>3 DEF Followed
<1>3. ASSUME NEW w \in Workers, NEW c \in Trying(w)', NEW v \in Workers, NEW d \in Trying(v)',
             c.id = d.id, c.status = "pending", d.status = "pending"
      PROVE  c.attempts = d.attempts
  BY <1>2, <1>3 DEF CandidatesFollowed
<1> QED BY <1>1, <1>3 DEF CandidatesFollowed

\* Every try that is counted waited its backoff, whatever the processes and the
\* faults: a claim that starts a row put back since its SELECT writes an attempts
\* count the row already has (jobs.ts, claim).
THEOREM CountedTriesAlwaysWait == Spec => CountedTriesWait
<1>1. Init => CandidatesFollowed BY DEF Init, CandidatesFollowed, Trying, Idle
<1>2. TypeOK /\ CandidatesFollowed /\ [Next]_vars => CandidatesFollowed'
  BY CandidatesStayFollowed
<1>3. ASSUME TypeOK, CandidatesFollowed, [Next]_vars, NEW j \in Jobs,
             job[j].status = "pending", job'[j].status = "running",
             job'[j].attempts > job[j].attempts
      PROVE  job[j].wait = 0
  <2>1. ~Tick
    <3>1. Tick => job'[j] = OneTickOlder(job[j]) BY DEF Tick
    <3>2. job[j] \in Row BY <1>3 DEF TypeOK
    <3> QED BY <1>3, <3>1, <3>2 DEF OneTickOlder, Row
  <2>9. PICK w \in Workers : \E c \in poll[w].cand :
          /\ poll[w].pc = "trying" /\ c.id = j /\ StillAsRead(c)
          /\ job'[j].attempts = AttemptAfter(c)
    BY <1>3, <2>1, RowStep DEF Ended
  <2>2. PICK c \in poll[w].cand :
          /\ poll[w].pc = "trying" /\ c.id = j /\ StillAsRead(c)
          /\ job'[j].attempts = AttemptAfter(c)
    BY <2>9
  <2>3. c \in Trying(w) BY <2>2 DEF Trying
  <2>4. Followed(c) BY <2>3, <1>3 DEF CandidatesFollowed
  <2>5. c.status = "pending" BY <1>3, <2>2 DEF StillAsRead
  <2>6. job[j].wait > 0 => job[j].attempts >= AttemptAfter(c)
    BY <1>3, <2>2, <2>4, <2>5 DEF Followed
  <2>7. c.attempts \in Attempts BY <1>3, <2>3, TryingType
  <2>8. job[j].wait \in Nat /\ job[j].attempts \in Nat /\ AttemptAfter(c) \in Nat
    BY <1>3, <2>7, QueueAssumption DEF TypeOK, Row, Attempts, AttemptAfter
  <2> QED BY <1>3, <2>2, <2>6, <2>8
<1>4. TypeOK /\ CandidatesFollowed /\ [Next]_vars =>
        [\A j \in Jobs :
           /\ job[j].status = "pending" /\ job'[j].status = "running"
           /\ job'[j].attempts > job[j].attempts
           => job[j].wait = 0]_vars
  BY <1>3
<1> QED BY <1>1, <1>2, <1>4, TypeCorrect, PTL DEF Spec, CountedTriesWait
=============================================================================
