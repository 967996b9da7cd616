-------------------------- MODULE CampaignRun_proofs --------------------------
(***************************************************************************)
(* Theorems about one campaign run, for any number of people and batch     *)
(* jobs, any batch size, and every fault, however often it comes.          *)
(***************************************************************************)
EXTENDS CampaignRun, FiniteSetTheorems, SumTheorems, TLAPS

-----------------------------------------------------------------------------
(* The inductive invariant *)

\* The batch has seen a run that was moved from `scheduled`.
Working == { "check", "refuse", "claim", "take", "hand", "close", "decide", "sent", "failed", "next" }

Settled(p) == ledger[p].state \in { "sent", "skipped", "failed", "noticed" }
Untouched(p) == mail[p] = 0 /\ ledger[p].state \in { "absent", "queued" }

\* What a batch settled and what it still holds are people of the ledger, each once.
WorkFits(j) ==
  /\ batch[j].skipped + batch[j].failed + Cardinality(batch[j].mine) <= Cardinality(People)
  /\ batch[j].pc \notin { "hand", "close" } => batch[j].skipped = 0 /\ batch[j].failed = 0

\* A run that is over does not go on; one that was not sent has no batch and
\* nobody asks about it.
RunFits ==
  /\ run.status \in Over => run.state \in { "stopped", "done" }
  /\ run.status \notin Over => run.state \in { "running", "paused" }
  /\ run.status = "none" => run.head = NoBatch /\ asked.pc = "none"

\* A batch that starts the run is the only one at work on it, until the run is over.
StartFits(j) ==
  batch[j].pc \in Starting =>
    /\ (run.status = "scheduled" /\ run.head = j) \/ run.status \in { "failed", "cancelled" }
    /\ \A k \in Batches : batch[k].pc \notin Working /\ (batch[k].pc \in Starting => k = j)

WorksLater(j) == batch[j].pc \in Working => run.status \notin { "none", "scheduled" }

\* Nobody's row was claimed before the run was started.
NotStarted ==
  run.status \in { "none", "scheduled" } \/ (\E j \in Batches : batch[j].pc \in Starting)
    => \A p \in People : Untouched(p)

\* The ledger is complete when the run starts.
Written ==
  /\ \A j \in Batches : batch[j].pc = "write" =>
       \A p \in People \ batch[j].mine : ledger[p].state # "absent"
  /\ run.status \in { "running", "sent" } => \A p \in People : ledger[p].state # "absent"

\* A verdict is drawn when nobody is left, and nobody comes back.
VerdictFits ==
  run.status = "sent" \/ (\E j \in Batches : batch[j].pc \in { "sent", "failed" })
    => \A p \in People : Settled(p)

IInv ==
  /\ RunFits
  /\ \A j \in Batches : StartFits(j) /\ WorksLater(j)
  /\ NotStarted
  /\ AtMostOnce /\ HandedIsMarked
  /\ Written
  /\ VerdictFits

\* As long as no job ends before its batch did its part, and every resume that
\* moved a run goes on, the head of a run that is to go on is alive.
Alive(j) == queue[j] \in { "pending", "running" } /\ batch[j].pc # "done"

HeadFits ==
  /\ asked.pc # "resume" /\ RunFits
  /\ \A j \in Batches :
       /\ WorksLater(j)
       /\ batch[j].pc \in Starting /\ run.head = j => run.status \in {"scheduled"} \cup Over
       /\ batch[j].pc = "undo" /\ run.head = j => run.status \in Over
  /\ run.status \in {"scheduled", "running"} /\ run.state = "running"
       /\ ~(asked.pc = "head" /\ asked.head = run.head)
     => run.head # NoBatch /\ Alive(run.head)

-----------------------------------------------------------------------------
(* Types *)

Steps == { "none", "begin", "done" } \cup Starting \cup Working

RunType ==
  [ status : {"none", "scheduled", "running"} \cup Over,
    state : {"running", "paused", "stopped", "done"},
    head : Batches \cup {NoBatch}, sent : Count, failed : Count, skipped : Count ]

RowType ==
  [ state : {"absent", "queued", "sending", "sent", "skipped", "failed", "noticed"},
    token : Batches \cup {NoBatch} ]

WorkType == [ pc : Steps, mine : SUBSET People, skipped : Count, failed : Count ]
JobType == { "none", "pending", "running", "ended" }
AskType == [ pc : {"none", "resume", "head", "cancel"}, head : Batches \cup {NoBatch} ]

BatchOK == batch \in [Batches -> WorkType] /\ \A j \in Batches : WorkFits(j)

TypeInv == TypeOK /\ \A j \in Batches : WorkFits(j)

\* The types, one variable at a time.
LEMMA Types ==
  TypeInv <=>
    /\ run \in RunType
    /\ ledger \in [People -> RowType]
    /\ content \in BOOLEAN
    /\ mail \in [People -> 0 .. 2]
    /\ owed \subseteq People \X {"failed", "skipped"}
    /\ queue \in [Batches -> JobType]
    /\ BatchOK
    /\ asked \in AskType
<1>1. Steps = {"none", "begin", "check", "refuse", "claim", "take", "hand", "close",
               "decide", "sent", "failed", "next", "done"} \cup Starting
  BY DEF Steps, Working
<1>. QED  BY <1>1, Zenon DEF TypeInv, TypeOK, BatchOK, RunType, RowType, WorkType, JobType, AskType

\* How many people there are.
LEMMA HowMany ==
  /\ Cardinality(People) \in Nat /\ Count = 0 .. Cardinality(People)
  /\ \A S \in SUBSET People : IsFiniteSet(S) /\ Cardinality(S) \in Count
  /\ IsFiniteSet({}) /\ Cardinality({}) = 0
<1>1. IsFiniteSet(People)
  BY CampaignAssumption
<1>2. Cardinality(People) \in Nat
  BY <1>1, FS_CardinalityType
<1>3. ASSUME NEW S \in SUBSET People
      PROVE  IsFiniteSet(S) /\ Cardinality(S) \in Count
  <2>1. IsFiniteSet(S) /\ Cardinality(S) <= Cardinality(People)
    BY <1>1, FS_Subset
  <2>2. Cardinality(S) \in Nat
    BY <2>1, FS_CardinalityType
  <2>. QED  BY <1>2, <2>1, <2>2 DEF Count
<1>. QED  BY <1>2, <1>3, FS_EmptySet DEF Count

\* One person less to hand.
LEMMA OneLess ==
  ASSUME NEW S \in SUBSET People, NEW p \in S
  PROVE  Cardinality(S \ {p}) = Cardinality(S) - 1
BY HowMany, FS_RemoveElement

\* The first place of a set of places is one of them.
LEMMA FirstPlace ==
  ASSUME NEW S \in SUBSET People, S # {}
  PROVE  Min(S) \in S
<1>1. People \subseteq Nat
  BY CampaignAssumption, HowMany
<1>2. \E x \in S : \A y \in S : ~(<<y, x>> \in OpToRel(<, Nat))
  BY <1>1, NatLessThanWellFounded, WFMin
<1>3. PICK x \in S : \A y \in S : ~(<<y, x>> \in OpToRel(<, Nat))
  BY <1>2
<1>4. x \in Nat /\ \A y \in S : y \in Nat
  BY <1>1
<1>5. \A y \in S : ~(y < x)
  BY <1>3, <1>4, Zenon DEF OpToRel
<1>6. \A y \in S : x <= y
  BY <1>4, <1>5
<1>. QED  BY <1>6 DEF Min

\* A batch moves on, with nothing it has to count.
LEMMA GotoFits ==
  ASSUME BatchOK, NEW j \in Batches, NEW pc \in Steps, Goto(j, pc),
         batch[j].pc \in {"hand", "close"} => pc \in {"hand", "close"}
  PROVE  BatchOK'
<1>1. batch' \in [Batches -> WorkType]
  BY DEF Goto, BatchOK, WorkType
<1>2. ASSUME NEW k \in Batches
      PROVE  WorkFits(k)'
  BY DEF Goto, BatchOK, WorkType, WorkFits
<1>. QED  BY <1>1, <1>2 DEF BatchOK

\* A batch is taken, ends, fails or dies: it forgets.
LEMMA ForgetsFits ==
  ASSUME BatchOK, NEW j \in Batches, NEW pc \in Steps, pc \notin {"hand", "close"},
         batch' = [batch EXCEPT ![j] = [NoWork EXCEPT !.pc = pc]]
  PROVE  BatchOK'
<1>1. [NoWork EXCEPT !.pc = pc] \in WorkType
  BY HowMany DEF NoWork, WorkType
<1>2. batch' \in [Batches -> WorkType]
  BY <1>1 DEF BatchOK
<1>3. ASSUME NEW k \in Batches
      PROVE  WorkFits(k)'
  BY HowMany DEF BatchOK, WorkType, WorkFits, NoWork
<1>. QED  BY <1>2, <1>3 DEF BatchOK

\* A handler that throws.
LEMMA ThrowFits ==
  ASSUME TypeInv, NEW j \in Batches, Throw(j)
  PROVE  BatchOK' /\ queue' \in [Batches -> JobType]
<1>1. [NoWork EXCEPT !.pc = "none"] = NoWork
  BY DEF NoWork
<1>2. BatchOK'
  BY <1>1, ForgetsFits, Types DEF Throw, Steps
<1>3. queue' \in [Batches -> JobType]
  BY Types DEF Throw, JobType
<1>. QED  BY <1>2, <1>3

\* A batch job is cancelled while it waits.
LEMMA CancelType ==
  ASSUME TypeInv, NEW j, CancelWaiting(j) \/ UNCHANGED queue
  PROVE  queue' \in [Batches -> JobType]
BY Types DEF CancelWaiting, JobType

\* Claims go back.
LEMMA BackType ==
  ASSUME TypeInv
  PROVE  /\ ReleaseClaims \in [People -> RowType]
         /\ \A j \in Batches : UnclaimAll(j) \in [People -> RowType]
BY Types DEF ReleaseClaims, UnclaimAll, Queued, RowType

\* A row is settled.
LEMMA SettleType ==
  ASSUME TypeInv, NEW j \in Batches, NEW p \in People, NEW s \in {"sent", "skipped", "failed"}
  PROVE  Settle(j, p, s) \in [People -> RowType]
BY Types DEF Settle, RowType

\* The same, of the next state.
LEMMA TypesNext ==
  ASSUME run' \in RunType, ledger' \in [People -> RowType], content' \in BOOLEAN,
         mail' \in [People -> 0 .. 2], owed' \subseteq People \X {"failed", "skipped"},
         queue' \in [Batches -> JobType], BatchOK', asked' \in AskType
  PROVE  TypeInv'
<1>1. Steps = {"none", "begin", "check", "refuse", "claim", "take", "hand", "close",
               "decide", "sent", "failed", "next", "done"} \cup Starting
  BY DEF Steps, Working
<1>. QED  BY <1>1, Zenon DEF TypeInv, TypeOK, BatchOK, RunType, RowType, WorkType, JobType, AskType

\* A step that leaves the executions alone.
LEMMA SameBatches ==
  ASSUME BatchOK, UNCHANGED batch
  PROVE  BatchOK'
BY DEF BatchOK, WorkFits

\* A run begins well typed.
LEMMA InitType == Init => TypeInv
<1>. SUFFICES ASSUME Init PROVE TypeInv
  OBVIOUS
<1>1. run \in RunType /\ asked \in AskType /\ queue \in [Batches -> JobType]
  BY HowMany DEF Init, RunType, AskType, JobType, NoRequest
<1>2. ledger \in [People -> RowType] /\ mail \in [People -> 0 .. 2] /\ owed \subseteq People \X {"failed", "skipped"}
  BY DEF Init, RowType, Absent
<1>3. content \in BOOLEAN
  BY Zenon DEF Init
<1>4. BatchOK
  <2>1. NoWork \in WorkType
    BY HowMany DEF WorkType, NoWork, Steps
  <2>2. batch \in [Batches -> WorkType]
    BY <2>1 DEF Init
  <2>3. ASSUME NEW j \in Batches
        PROVE  WorkFits(j)
    <3>1. batch[j].skipped = 0 /\ batch[j].failed = 0 /\ batch[j].mine = {}
      BY DEF Init, NoWork
    <3>. QED  BY <3>1, HowMany DEF WorkFits
  <2>. QED  BY <2>2, <2>3 DEF BatchOK
<1>. QED  BY <1>1, <1>2, <1>3, <1>4, Types

\* What the operator's steps do to the types.
LEMMA OperatorTypes ==
  ASSUME TypeInv, Operator
  PROVE  TypeInv'
<1>. USE DEF vars
<1>1. BatchOK' /\ UNCHANGED <<content, mail, owed>>
  BY Types, SameBatches
     DEF Operator, Send, Pause, ResumeRead, ResumeMove, ResumeQueue, ResumeLost, Stop, CancelRead, CancelWrite
<1>2. asked' \in AskType
  <2>1. CASE ResumeMove
    BY <2>1, Types DEF ResumeMove, AskType, NoRequest, RunType
  <2>2. CASE ResumeRead \/ CancelRead
    BY <2>2, Types DEF ResumeRead, CancelRead, AskType, RunType
  <2>3. CASE ResumeQueue \/ ResumeLost \/ CancelWrite
    BY <2>3, Types DEF ResumeQueue, ResumeLost, CancelWrite, AskType, NoRequest
  <2>4. CASE Send \/ Pause \/ Stop
    BY <2>4, Types DEF Send, Pause, Stop
  <2>. QED  BY <2>1, <2>2, <2>3, <2>4 DEF Operator
<1>3. ledger' \in [People -> RowType]
  BY Types, BackType
     DEF Operator, Send, Pause, ResumeRead, ResumeMove, ResumeQueue, ResumeLost, Stop, CancelRead, CancelWrite
<1>4. run' \in RunType
  <2>1. CASE Send \/ ResumeQueue
    BY <2>1, Types DEF Send, ResumeQueue, RunType
  <2>2. CASE Pause \/ Stop \/ CancelWrite
    BY <2>2, Types DEF Pause, Stop, CancelWrite, RunType, Over
  <2>3. CASE ResumeRead \/ ResumeMove \/ ResumeLost \/ CancelRead
    BY <2>3, Types DEF ResumeRead, ResumeMove, ResumeLost, CancelRead, RunType
  <2>. QED  BY <2>1, <2>2, <2>3 DEF Operator
<1>5. queue' \in [Batches -> JobType]
  <2>1. CASE Send \/ ResumeQueue
    BY <2>1, Types DEF Send, ResumeQueue, JobType
  <2>2. CASE Pause \/ Stop \/ CancelWrite
    BY <2>2, CancelType DEF Pause, Stop, CancelWrite
  <2>3. CASE ResumeRead \/ ResumeMove \/ ResumeLost \/ CancelRead
    BY <2>3, Types DEF ResumeRead, ResumeMove, ResumeLost, CancelRead
  <2>. QED  BY <2>1, <2>2, <2>3 DEF Operator
<1>. QED  BY <1>1, <1>2, <1>3, <1>4, <1>5, Types, TypesNext

\* What a batch that starts the run does to the types.
LEMMA StartTypes ==
  ASSUME TypeInv, NEW j \in Batches, Take(j) \/ Begin(j) \/ Starts(j)
  PROVE  TypeInv'
<1>. USE DEF Starting, Working, Steps
<1>1. CASE Take(j)
  <2>1. BatchOK /\ "begin" \in Steps /\ "begin" \notin {"hand", "close"}
    BY Types
  <2>2. batch' = [batch EXCEPT ![j] = [NoWork EXCEPT !.pc = "begin"]]
    BY <1>1, Zenon DEF Take
  <2>3. BatchOK'
    BY <2>1, <2>2, ForgetsFits, Zenon
  <2>4. queue' \in [Batches -> JobType]
    BY <1>1, Types DEF Take, JobType
  <2>. QED  BY <1>1, <2>3, <2>4, Types, TypesNext DEF Take
<1>2. CASE Begin(j)
  <2>1. BatchOK'
    BY <1>2, Types, GotoFits DEF Begin, At
  <2>. QED  BY <1>2, <2>1, Types, TypesNext DEF Begin
<1>3. CASE StartRefused(j)
  <2>1. BatchOK'
    BY <1>3, Types, GotoFits DEF StartRefused, At
  <2>2. run' \in RunType
    BY <1>3, Types DEF StartRefused, RunType, Over
  <2>. QED  BY <1>3, <2>1, <2>2, Types, TypesNext DEF StartRefused
<1>4. CASE Clear(j) \/ Undo(j)
  <2>1. BatchOK'
    BY <1>4, Types, GotoFits DEF Clear, Undo, At
  <2>2. ledger' \in [People -> RowType]
    BY <1>4, Types DEF Clear, Undo, RowType, Absent
  <2>3. content' \in BOOLEAN
    BY <1>4, Zenon DEF Clear, Undo
  <2>. QED  BY <1>4, <2>1, <2>2, <2>3, Types, TypesNext DEF Clear, Undo
<1>5. CASE Freeze(j)
  <2>1. CASE Throw(j) /\ UNCHANGED content
    BY <1>5, <2>1, ThrowFits, Types, TypesNext DEF Freeze
  <2>2. CASE content' = TRUE /\ batch' = [batch EXCEPT ![j].pc = "write", ![j].mine = People] /\ UNCHANGED queue
    <3>1. batch[j].skipped = 0 /\ batch[j].failed = 0 /\ BatchOK
      BY <1>5, Types DEF Freeze, At, BatchOK, WorkFits
    <3>2. batch' \in [Batches -> WorkType]
      BY <2>2, <3>1 DEF BatchOK, WorkType
    <3>3. ASSUME NEW k \in Batches
          PROVE  WorkFits(k)'
      BY <2>2, <3>1, HowMany DEF BatchOK, WorkType, WorkFits
    <3>4. content' \in BOOLEAN
      BY <2>2, Zenon
    <3>. QED  BY <1>5, <2>2, <3>2, <3>3, <3>4, Types, TypesNext DEF Freeze, BatchOK
  <2>. QED  BY <1>5, <2>1, <2>2 DEF Freeze
<1>6. CASE Write(j)
  <2>1. CASE Throw(j) /\ UNCHANGED ledger
    BY <1>6, <2>1, ThrowFits, Types, TypesNext DEF Write
  <2>2. CASE ~(Throw(j) /\ UNCHANGED ledger)
    <3>. DEFINE p == Min(batch[j].mine)
    <3>1. /\ batch[j].skipped = 0 /\ batch[j].failed = 0 /\ BatchOK
          /\ batch[j].mine \in SUBSET People /\ p \in batch[j].mine
      BY <1>6, Types, FirstPlace DEF Write, At, BatchOK, WorkFits, WorkType
    <3>2. /\ ledger' = [ledger EXCEPT ![p] = Queued]
          /\ batch' = [batch EXCEPT ![j].mine = @ \ {p}] /\ UNCHANGED queue
      BY <1>6, <2>2 DEF Write
    <3>3. ledger' \in [People -> RowType]
      BY <3>2, Types DEF RowType, Queued
    <3>4. batch' \in [Batches -> WorkType]
      BY <3>1, <3>2 DEF BatchOK, WorkType
    <3>5. Cardinality(batch[j].mine \ {p}) \in Count
      BY <3>1, HowMany
    <3>6. ASSUME NEW k \in Batches
          PROVE  WorkFits(k)'
      BY <3>1, <3>2, <3>5, HowMany DEF BatchOK, WorkType, WorkFits
    <3>. QED  BY <1>6, <3>2, <3>3, <3>4, <3>6, Types, TypesNext DEF Write, BatchOK
  <2>. QED  BY <2>1, <2>2
<1>7. CASE StartRun(j)
  <2>1. BatchOK'
    BY <1>7, Types, GotoFits DEF StartRun, At
  <2>2. run' = run \/ run' = [run EXCEPT !.status = "running", !.sent = 0, !.failed = 0, !.skipped = 0]
    BY <1>7 DEF StartRun
  <2>3. run \in RunType /\ 0 \in Count
    BY Types, HowMany
  <2>4. run' \in RunType
    BY <2>2, <2>3 DEF RunType
  <2>. QED  BY <1>7, <2>1, <2>4, Types, TypesNext DEF StartRun
<1>. QED  BY <1>1, <1>2, <1>3, <1>4, <1>5, <1>6, <1>7 DEF Starts

\* What a batch that goes on, and not with a row, does to the types.
LEMMA WorkTypes ==
  ASSUME TypeInv, NEW j \in Batches,
         \/ Check(j) \/ Refuse(j) \/ CapFull(j) \/ ClaimSelect(j) \/ Claim(j)
         \/ Decide(j) \/ Finish(j) \/ QueueNext(j)
  PROVE  TypeInv'
<1>. USE DEF Starting, Working, Steps
<1>1. CASE Check(j)
  <2>1. BatchOK'
    BY <1>1, Types, GotoFits DEF Check, At
  <2>2. ledger' \in [People -> RowType]
    BY <1>1, BackType DEF Check
  <2>. QED  BY <1>1, <2>1, <2>2, Types, TypesNext DEF Check
<1>2. CASE Refuse(j)
  <2>1. BatchOK'
    BY <1>2, Types, GotoFits DEF Refuse, At
  <2>2. run' \in RunType
    BY <1>2, Types DEF Refuse, RunType, Over
  <2>. QED  BY <1>2, <2>1, <2>2, Types, TypesNext DEF Refuse
<1>3. CASE CapFull(j) \/ Decide(j)
  <2>1. BatchOK'
    BY <1>3, Types, GotoFits DEF CapFull, Decide, At
  <2>. QED  BY <1>3, <2>1, Types, TypesNext DEF CapFull, Decide
<1>4. CASE ClaimSelect(j)
  <2>1. PICK first \in SUBSET InState({"queued"}) :
          batch' = [batch EXCEPT ![j].pc = "take", ![j].mine = first]
    BY <1>4 DEF ClaimSelect
  <2>2. first \in SUBSET People /\ Cardinality(first) \in Count
    BY <2>1, HowMany DEF InState
  <2>3. batch[j].skipped = 0 /\ batch[j].failed = 0 /\ BatchOK
    BY <1>4, Types DEF ClaimSelect, At, BatchOK, WorkFits
  <2>4. batch' \in [Batches -> WorkType]
    BY <2>1, <2>2, <2>3 DEF BatchOK, WorkType
  <2>5. ASSUME NEW k \in Batches
        PROVE  WorkFits(k)'
    BY <2>1, <2>2, <2>3, HowMany DEF BatchOK, WorkType, WorkFits
  <2>. QED  BY <1>4, <2>4, <2>5, Types, TypesNext DEF ClaimSelect, BatchOK
<1>5. CASE Claim(j)
  <2>. DEFINE mine == batch[j].mine \cap InState({"queued"})
  <2>1. ledger' \in [People -> RowType]
    BY <1>5, Types DEF Claim, RowType
  <2>2. CASE Throw(j)
    BY <1>5, <2>1, <2>2, ThrowFits, Types, TypesNext DEF Claim
  <2>3. CASE batch' = [batch EXCEPT ![j].pc = "hand", ![j].mine = mine] /\ UNCHANGED queue
    <3>1. mine \in SUBSET People /\ Cardinality(mine) \in Count
      BY HowMany DEF InState
    <3>2. batch[j].skipped = 0 /\ batch[j].failed = 0 /\ BatchOK
      BY <1>5, Types DEF Claim, At, BatchOK, WorkFits
    <3>3. batch' \in [Batches -> WorkType]
      BY <2>3, <3>1, <3>2 DEF BatchOK, WorkType
    <3>4. ASSUME NEW k \in Batches
          PROVE  WorkFits(k)'
      BY <2>3, <3>1, <3>2, HowMany DEF BatchOK, WorkType, WorkFits
    <3>. QED  BY <1>5, <2>1, <2>3, <3>3, <3>4, Types, TypesNext DEF Claim, BatchOK
  <2>. QED  BY <1>5, <2>2, <2>3 DEF Claim
<1>6. CASE Finish(j)
  <2>1. BatchOK'
    BY <1>6, Types, GotoFits DEF Finish, At
  <2>2. run' \in RunType
    BY <1>6, Types DEF Finish, At, RunType, Over
  <2>. QED  BY <1>6, <2>1, <2>2, Types, TypesNext DEF Finish
<1>7. CASE QueueNext(j)
  <2>1. BatchOK'
    BY <1>7, Types, GotoFits DEF QueueNext, At
  <2>2. run' \in RunType
    BY <1>7, Types DEF QueueNext, RunType
  <2>3. queue' \in [Batches -> JobType]
    BY <1>7, Types DEF QueueNext, JobType
  <2>. QED  BY <1>7, <2>1, <2>2, <2>3, Types, TypesNext DEF QueueNext
<1>. QED  BY <1>1, <1>2, <1>3, <1>4, <1>5, <1>6, <1>7

\* A batch is done with a row: it holds one person less, and may count one more.
LEMMA RowFits ==
  ASSUME BatchOK, NEW j \in Batches, NEW p \in People, AtRow(j, p),
         \/ batch' = [batch EXCEPT ![j].mine = NextRow(j, p), ![j].pc = IF MayHand(j) THEN "hand" ELSE "close"]
         \/ batch' = [batch EXCEPT ![j].mine = NextRow(j, p), ![j].skipped = IF Holds(j, p) THEN @ + 1 ELSE @]
         \/ batch' = [batch EXCEPT ![j].mine = NextRow(j, p), ![j].failed = IF Holds(j, p) THEN @ + 1 ELSE @]
  PROVE  BatchOK'
<1>. DEFINE s == batch[j].skipped  f == batch[j].failed  S == batch[j].mine  N == Cardinality(People)
<1>1. S \in SUBSET People /\ p \in S /\ batch[j].pc = "hand" /\ batch[j] \in WorkType
  BY FirstPlace DEF BatchOK, WorkType, AtRow, At
<1>2. /\ Cardinality(S \ {p}) = Cardinality(S) - 1 /\ Cardinality(S) \in Nat /\ N \in Nat
      /\ Cardinality(S \ {p}) \in Nat /\ s \in Nat /\ f \in Nat /\ s + f + Cardinality(S) <= N
  <2>1. Cardinality(S \ {p}) = Cardinality(S) - 1 /\ S \ {p} \in SUBSET People
    BY <1>1, OneLess
  <2>2. Cardinality(S) \in Count /\ Cardinality(S \ {p}) \in Count /\ s \in Count /\ f \in Count
    BY <1>1, <2>1, HowMany DEF WorkType
  <2>3. s + f + Cardinality(S) <= N
    BY DEF BatchOK, WorkFits
  <2>. QED  BY <2>1, <2>2, <2>3, HowMany
<1>3. PICK b \in WorkType :
         /\ batch' = [batch EXCEPT ![j] = b] /\ b.mine = S \ {p} /\ b.pc \in {"hand", "close"}
         /\ b.skipped + b.failed <= s + f + 1
  <2>. USE DEF NextRow, WorkType, Steps, Working
  <2>1. CASE batch' = [batch EXCEPT ![j].mine = NextRow(j, p), ![j].pc = IF MayHand(j) THEN "hand" ELSE "close"]
    <3>. DEFINE b == [batch[j] EXCEPT !.mine = S \ {p}, !.pc = IF MayHand(j) THEN "hand" ELSE "close"]
    <3>1. b \in WorkType /\ b.mine = S \ {p} /\ b.pc \in {"hand", "close"} /\ b.skipped = s /\ b.failed = f
      BY <1>1
    <3>2. b.skipped + b.failed <= s + f + 1
      BY <1>2, <3>1
    <3>3. batch' = [batch EXCEPT ![j] = b]
      BY <1>1, <2>1 DEF BatchOK
    <3>. QED  BY <3>2, <3>3, <3>1
  <2>2. CASE batch' = [batch EXCEPT ![j].mine = NextRow(j, p), ![j].skipped = IF Holds(j, p) THEN @ + 1 ELSE @]
    <3>. DEFINE b == [batch[j] EXCEPT !.mine = S \ {p}, !.skipped = IF Holds(j, p) THEN @ + 1 ELSE @]
    <3>1. s + 1 \in Count
      BY <1>2, HowMany
    <3>2. /\ b \in WorkType /\ b.mine = S \ {p} /\ b.pc \in {"hand", "close"}
          /\ b.skipped \in {s, s + 1} /\ b.failed = f
      BY <1>1, <3>1
    <3>3. b.skipped + b.failed <= s + f + 1
      BY <1>2, <3>2
    <3>4. batch' = [batch EXCEPT ![j] = b]
      BY <1>1, <2>2 DEF BatchOK
    <3>. QED  BY <3>3, <3>4, <3>2
  <2>3. CASE batch' = [batch EXCEPT ![j].mine = NextRow(j, p), ![j].failed = IF Holds(j, p) THEN @ + 1 ELSE @]
    <3>. DEFINE b == [batch[j] EXCEPT !.mine = S \ {p}, !.failed = IF Holds(j, p) THEN @ + 1 ELSE @]
    <3>1. f + 1 \in Count
      BY <1>2, HowMany
    <3>2. /\ b \in WorkType /\ b.mine = S \ {p} /\ b.pc \in {"hand", "close"}
          /\ b.failed \in {f, f + 1} /\ b.skipped = s
      BY <1>1, <3>1
    <3>3. b.skipped + b.failed <= s + f + 1
      BY <1>2, <3>2
    <3>4. batch' = [batch EXCEPT ![j] = b]
      BY <1>1, <2>3 DEF BatchOK
    <3>. QED  BY <3>3, <3>4, <3>2
  <2>. QED  BY <2>1, <2>2, <2>3
<1>4. batch' \in [Batches -> WorkType]
  BY <1>3 DEF BatchOK
<1>5. b.skipped \in Nat /\ b.failed \in Nat
  BY <1>3, HowMany DEF WorkType
<1>6. ASSUME NEW k \in Batches
      PROVE  WorkFits(k)'
  <2>1. CASE k = j
    <3>1. batch'[j] = b
      BY <1>3 DEF BatchOK
    <3>2. b.skipped + b.failed + Cardinality(S \ {p}) <= N
      BY <1>2, <1>3, <1>5
    <3>. QED  BY <1>3, <2>1, <3>1, <3>2 DEF WorkFits
  <2>2. CASE k # j
    BY <1>3, <2>2 DEF BatchOK, WorkFits
  <2>. QED  BY <2>1, <2>2
<1>. QED  BY <1>4, <1>6 DEF BatchOK

\* What a batch does to the types at a row.
LEMMA RowTypes ==
  ASSUME TypeInv, NEW j \in Batches, NEW p \in People, HandOver(j, p) \/ Skip(j, p) \/ FailRow(j, p)
  PROVE  TypeInv'
<1>1. BatchOK'
  BY Types, RowFits DEF HandOver, Skip, FailRow
<1>2. ledger' \in [People -> RowType]
  BY Types, SettleType DEF HandOver, Skip, FailRow
<1>3. run' \in RunType /\ mail' \in [People -> 0 .. 2]
  <2>1. CASE HandOver(j, p)
    <3>1. \/ UNCHANGED <<run, mail>>
          \/ /\ run' = [run EXCEPT !.sent = IF @ < Cardinality(People) THEN @ + 1 ELSE @]
             /\ mail' = [mail EXCEPT ![p] = IF @ < 2 THEN @ + 1 ELSE 2]
      BY <2>1 DEF HandOver
    <3>2. mail' \in [People -> 0 .. 2]
      BY <3>1, Types
    <3>3. run \in RunType /\ Cardinality(People) \in Nat /\ Count = 0 .. Cardinality(People)
      BY Types, HowMany
    <3>4. run' \in RunType
      BY <3>1, <3>3 DEF RunType
    <3>. QED  BY <3>2, <3>4
  <2>2. CASE Skip(j, p) \/ FailRow(j, p)
    BY <2>2, Types DEF Skip, FailRow
  <2>. QED  BY <2>1, <2>2
<1>. QED  BY <1>1, <1>2, <1>3, Types, TypesNext DEF HandOver, Skip, FailRow

\* What the end of a batch, or of its server, does to the types.
LEMMA EndTypes ==
  ASSUME TypeInv, NEW j \in Batches, Close(j) \/ Complete(j) \/ Break(j) \/ Cut(j) \/ Crash(j)
  PROVE  TypeInv'
<1>1. CASE Close(j)
  <2>1. BatchOK /\ "decide" \in Steps /\ "decide" \notin {"hand", "close"}
    BY Types DEF Steps, Working
  <2>2. batch' = [batch EXCEPT ![j] = [NoWork EXCEPT !.pc = "decide"]]
    BY <1>1, Zenon DEF Close
  <2>3. BatchOK'
    BY <2>1, <2>2, ForgetsFits, Zenon
  <2>4. run \in RunType /\ batch[j].skipped \in Count /\ batch[j].failed \in Count
    BY <2>1, Types DEF BatchOK, WorkType
  <2>5. \A n, m \in Count : (IF n + m <= Cardinality(People) THEN n + m ELSE Cardinality(People)) \in Count
    BY HowMany
  <2>6. CountSettled(j) \in RunType
    BY <2>4, <2>5 DEF CountSettled, RunType
  <2>7. ledger' \in [People -> RowType]
    BY <1>1, BackType DEF Close
  <2>. QED  BY <1>1, <2>3, <2>6, <2>7, Types, TypesNext DEF Close
<1>2. CASE Complete(j) \/ Crash(j)
  <2>1. BatchOK /\ "none" \in Steps /\ "none" \notin {"hand", "close"}
    BY Types DEF Steps
  <2>2. NoWork = [NoWork EXCEPT !.pc = "none"]
    BY DEF NoWork
  <2>3. batch' = [batch EXCEPT ![j] = [NoWork EXCEPT !.pc = "none"]]
    BY <1>2, <2>2, Zenon DEF Complete, Crash
  <2>4. BatchOK'
    BY <2>1, <2>3, ForgetsFits, Zenon
  <2>5. queue' \in [Batches -> JobType]
    BY <1>2, Types DEF Complete, Crash, JobType
  <2>. QED  BY <1>2, <2>4, <2>5, Types, TypesNext DEF Complete, Crash
<1>3. CASE Break(j)
  <2>1. BatchOK'
    BY <1>3, Types, GotoFits DEF Break, At, Steps, Working
  <2>. QED  BY <1>3, <2>1, Types, TypesNext DEF Break
<1>4. CASE Cut(j)
  BY <1>4, ThrowFits, Types, TypesNext DEF Cut
<1>. QED  BY <1>1, <1>2, <1>3, <1>4

\* What the mail queue and the mail service do to the types.
LEMMA AfterTypes ==
  ASSUME TypeInv, NEW p \in People,
         \/ Notice(p)
         \/ \E as \in {"failed", "skipped"} : GiveUp(p, as) \/ CountGivenUp(p, as) \/ GiveUpLost(p, as)
  PROVE  TypeInv'
<1>1. BatchOK'
  BY Types, SameBatches DEF Notice, GiveUp, CountGivenUp, GiveUpLost
<1>2. ledger' \in [People -> RowType]
  BY Types DEF Notice, GiveUp, CountGivenUp, GiveUpLost, RowType
<1>3. owed' \subseteq People \X {"failed", "skipped"}
  BY Types DEF Notice, GiveUp, CountGivenUp, GiveUpLost
<1>4. run' \in RunType
  <2>1. /\ run \in RunType
        /\ \A n \in Count : /\ (IF n > 0 THEN n - 1 ELSE 0) \in Count
                            /\ (IF n < Cardinality(People) THEN n + 1 ELSE n) \in Count
    BY Types, HowMany
  <2>2. ASSUME NEW as \in {"failed", "skipped"}, CountGivenUp(p, as)
        PROVE  run' \in RunType
    BY <2>1, <2>2 DEF CountGivenUp, RunType
  <2>3. CASE UNCHANGED run
    BY <2>1, <2>3
  <2>. QED  BY <2>2, <2>3 DEF Notice, GiveUp, GiveUpLost
<1>. QED  BY <1>1, <1>2, <1>3, <1>4, Types, TypesNext DEF Notice, GiveUp, CountGivenUp, GiveUpLost

\* Every step keeps the types.
LEMMA TypeStep == TypeInv /\ [Next]_vars => TypeInv'
<1>. SUFFICES ASSUME TypeInv, [Next]_vars PROVE TypeInv'
  OBVIOUS
<1>1. CASE Operator
  BY <1>1, OperatorTypes
<1>2. ASSUME NEW j \in Batches, Take(j) \/ BatchStep(j) \/ Break(j) \/ Cut(j) \/ Crash(j)
      PROVE  TypeInv'
  <2>1. CASE Rows(j)
    BY <2>1, RowTypes DEF Rows
  <2>2. CASE ~Rows(j)
    BY <1>2, <2>2, StartTypes, WorkTypes, EndTypes DEF BatchStep
  <2>. QED  BY <2>1, <2>2
<1>3. ASSUME NEW p \in People,
             \/ Notice(p)
             \/ \E as \in {"failed", "skipped"} : GiveUp(p, as) \/ CountGivenUp(p, as) \/ GiveUpLost(p, as)
      PROVE  TypeInv'
  BY <1>3, AfterTypes
<1>4. CASE UNCHANGED vars
  <2>1. BatchOK'
    BY <1>4, Types, SameBatches DEF vars
  <2>. QED  BY <1>4, <2>1, Types, TypesNext DEF vars
<1>. QED  BY <1>1, <1>2, <1>3, <1>4 DEF Next

\* TypeOK holds of every state of every run: what a batch counts and holds
\* never exceeds the audience.
THEOREM TypeCorrect == Spec => []TypeOK
<1>1. TypeInv /\ [Next]_vars => TypeInv'
  BY TypeStep
<1>2. TypeInv => TypeOK
  BY DEF TypeInv
<1>. QED  BY InitType, <1>1, <1>2, PTL DEF Spec

-----------------------------------------------------------------------------
(* The invariant *)

\* Some batch works on a run that was started.
Begun == \E j \in Batches : batch[j].pc \in Working

\* What a step may do to a row of a run that is not being started: a claim comes
\* or goes, or the row is settled.
RowGoes(p) ==
  \/ mail'[p] = mail[p] /\ ledger'[p].state = ledger[p].state
  \/ /\ mail'[p] = mail[p]
     /\ ledger[p].state = "sending" \/ (ledger[p].state = "queued" /\ Begun)
     /\ ledger'[p].state \in { "queued", "sending" }
  \/ ledger[p].state \in { "sending", "sent" } /\ Settled(p)'

\* ... to the run: it stays where it is, or ends without having been sent.
RunGoes ==
  /\ RunFits'
  /\ \/ run'.status \in { "failed", "cancelled" }
     \/ /\ run'.status = run.status
        /\ run'.head = run.head \/ \A j \in Batches : batch[j].pc \notin Starting

\* ... and to a batch: it goes on with its work, draws no verdict, or leaves.
BatchGoes(j) ==
  \/ batch'[j] = batch[j]
  \/ batch'[j].pc \notin Starting \cup Working
  \/ batch[j].pc \in Working /\ batch'[j].pc \in Working \ { "sent", "failed" }

\* Most steps do no more.
LEMMA Goes ==
  ASSUME IInv, RunGoes, \A p \in People : RowGoes(p), \A j \in Batches : BatchGoes(j),
         AtMostOnce', HandedIsMarked'
  PROVE  IInv'
<1>1. RunFits'
  BY DEF RunGoes
<1>2. /\ \A j \in Batches : batch'[j].pc \in Starting => batch'[j] = batch[j]
      /\ \A j \in Batches : batch'[j].pc \in Working => batch[j].pc \in Working
      /\ \A j \in Batches : batch'[j].pc \in {"sent", "failed"} => batch'[j] = batch[j]
      /\ \A j \in Batches : batch'[j].pc = "write" => batch'[j] = batch[j]
  BY DEF BatchGoes, Starting, Working
<1>3. ASSUME NEW j \in Batches
      PROVE  StartFits(j)' /\ WorksLater(j)'
  <2>1. StartFits(j)'
    <3>. SUFFICES ASSUME batch'[j].pc \in Starting
                  PROVE  /\ (run'.status = "scheduled" /\ run'.head = j) \/ run'.status \in { "failed", "cancelled" }
                         /\ \A k \in Batches : batch'[k].pc \notin Working /\ (batch'[k].pc \in Starting => k = j)
      BY DEF StartFits
    <3>1. batch[j].pc \in Starting /\ StartFits(j)
      BY <1>2 DEF IInv
    <3>. QED  BY <1>2, <3>1 DEF StartFits, RunGoes
  <2>2. WorksLater(j)'
    BY <1>2 DEF IInv, WorksLater, RunGoes
  <2>. QED  BY <2>1, <2>2
<1>4. NotStarted'
  <2>. SUFFICES ASSUME run'.status \in { "none", "scheduled" } \/ (\E j \in Batches : batch'[j].pc \in Starting),
                       NEW p \in People
                PROVE  Untouched(p)'
    BY DEF NotStarted
  <2>1. run.status \in { "none", "scheduled" } \/ (\E j \in Batches : batch[j].pc \in Starting)
    BY <1>2 DEF RunGoes
  <2>2. Untouched(p) /\ ~Begun
    BY <2>1 DEF IInv, NotStarted, StartFits, WorksLater, Begun
  <2>. QED  BY <2>2 DEF RowGoes, Untouched
<1>5. \A p \in People : ledger[p].state # "absent" => ledger'[p].state # "absent"
  BY DEF RowGoes, Settled
<1>6. Written'
  BY <1>2, <1>5 DEF IInv, Written, RunGoes
<1>7. \A p \in People : Settled(p) => Settled(p)'
  BY DEF RowGoes, Settled
<1>8. VerdictFits'
  BY <1>2, <1>7 DEF IInv, VerdictFits, RunGoes
<1>. QED  BY <1>1, <1>3, <1>4, <1>6, <1>8 DEF IInv

\* Mail and ledger, where neither changes but for claims.
LEMMA MarksStay ==
  ASSUME IInv, UNCHANGED mail,
         \A p \in People :
           \/ ledger'[p].state = ledger[p].state
           \/ {ledger[p].state, ledger'[p].state} \subseteq {"queued", "sending"}
  PROVE  AtMostOnce' /\ HandedIsMarked'
<1>1. AtMostOnce'
  BY DEF IInv, AtMostOnce
<1>2. HandedIsMarked'
  BY DEF IInv, HandedIsMarked
<1>. QED  BY <1>1, <1>2

\* Claims that go back.
LEMMA ClaimsBack ==
  ASSUME IInv, TypeInv, UNCHANGED mail,
         \/ UNCHANGED ledger
         \/ ledger' = ReleaseClaims
         \/ \E j \in Batches : ledger' = UnclaimAll(j)
  PROVE  (\A p \in People : RowGoes(p)) /\ AtMostOnce' /\ HandedIsMarked'
<1>1. ASSUME NEW p \in People
      PROVE  \/ ledger'[p].state = ledger[p].state
             \/ ledger[p].state = "sending" /\ ledger'[p].state = "queued"
  <2>1. CASE ledger' = ReleaseClaims
    BY <2>1 DEF ReleaseClaims, Queued
  <2>2. ASSUME NEW j \in Batches, ledger' = UnclaimAll(j)
        PROVE  \/ ledger'[p].state = ledger[p].state
               \/ ledger[p].state = "sending" /\ ledger'[p].state = "queued"
    <3>1. Holds(j, p) => ledger[p].state = "sending"
      BY DEF Holds
    <3>2. ledger'[p] = IF Holds(j, p) THEN Queued ELSE ledger[p]
      BY <2>2 DEF UnclaimAll
    <3>. QED  BY <3>1, <3>2 DEF Queued
  <2>. QED  BY <2>1, <2>2
<1>2. \A p \in People : RowGoes(p)
  BY <1>1 DEF RowGoes
<1>. QED  BY <1>1, <1>2, MarksStay

\* The operator's steps, but for Send.
LEMMA OperatorGoes ==
  ASSUME "early" \notin Events, TypeInv, IInv, Operator, ~Send
  PROVE  IInv'
<1>1. /\ UNCHANGED <<mail, batch>>
      /\ UNCHANGED ledger \/ ledger' = ReleaseClaims
  BY DEF Operator, Pause, ResumeRead, ResumeMove, ResumeQueue, ResumeLost, Stop, CancelRead, CancelWrite
<1>2. run \in RunType /\ RunFits
  BY Types DEF IInv
<1>3. RunGoes
  <2>1. CASE Pause
    BY <1>2, <2>1 DEF Pause, RunGoes, RunFits, RunType, Over
  <2>2. CASE ResumeMove
    BY <1>2, <2>2 DEF ResumeMove, Resumable, RunGoes, RunFits, RunType, Over
  <2>3. CASE ResumeQueue
    BY <1>2, <2>3 DEF ResumeQueue, RunGoes, RunFits, RunType
  <2>4. CASE Stop \/ CancelWrite
    BY <1>2, <2>4 DEF Stop, CancelWrite, RunGoes, RunFits, RunType, Over
  <2>5. CASE ResumeRead \/ ResumeLost \/ CancelRead
    BY <1>2, <2>5 DEF ResumeRead, ResumeLost, CancelRead, Resumable, NoRequest, RunGoes, RunFits
  <2>. QED  BY <2>1, <2>2, <2>3, <2>4, <2>5 DEF Operator
<1>4. \A j \in Batches : BatchGoes(j)
  BY <1>1 DEF BatchGoes
<1>. QED  BY <1>1, <1>3, <1>4, ClaimsBack, Goes

\* Send: nobody's row is there.
LEMMA SendKeeps ==
  ASSUME TypeInv, IInv, Send
  PROVE  IInv'
<1>1. /\ UNCHANGED <<ledger, mail, batch>> /\ run.status = "none" /\ run'.status = "scheduled"
      /\ run'.state = run.state /\ run \in RunType
  BY Types DEF Send, RunType
<1>2. \A j \in Batches : batch[j].pc \notin Starting /\ batch[j].pc \notin Working
  BY <1>1 DEF IInv, StartFits, WorksLater
<1>3. RunFits'
  BY <1>1 DEF IInv, RunFits, Over
<1>4. \A j \in Batches : StartFits(j)' /\ WorksLater(j)'
  BY <1>1, <1>2 DEF StartFits, WorksLater
<1>5. NotStarted'
  BY <1>1 DEF IInv, NotStarted, Untouched
<1>6. AtMostOnce' /\ HandedIsMarked'
  BY <1>1, MarksStay
<1>7. Written'
  BY <1>1 DEF IInv, Written
<1>8. VerdictFits'
  BY <1>1 DEF IInv, VerdictFits, Settled
<1>. QED  BY <1>3, <1>4, <1>5, <1>6, <1>7, <1>8 DEF IInv

\* A batch that leaves, or goes on with its work, leaves the others alone.
LEMMA MovesOn ==
  ASSUME TypeInv, NEW j \in Batches, NEW pc \in Steps, Goto(j, pc),
         pc \in {"none", "begin", "done"} \/ (batch[j].pc \in Working /\ pc \in Working \ {"sent", "failed"})
  PROVE  \A k \in Batches : BatchGoes(k)
<1>1. batch \in [Batches -> WorkType]
  BY Types DEF BatchOK
<1>. QED  BY <1>1 DEF Goto, BatchGoes, WorkType, Steps, Starting, Working

\* A batch that forgets what it held leaves the others alone.
LEMMA Forgets ==
  ASSUME TypeInv, NEW j \in Batches, NEW pc \in {"none", "begin", "decide"},
         batch' = [batch EXCEPT ![j] = [NoWork EXCEPT !.pc = pc]],
         pc = "decide" => batch[j].pc \in Working
  PROVE  \A k \in Batches : BatchGoes(k)
<1>1. batch \in [Batches -> WorkType]
  BY Types DEF BatchOK
<1>2. batch'[j].pc = pc
  BY <1>1 DEF NoWork
<1>3. \A k \in Batches : k # j => batch'[k] = batch[k]
  BY <1>1
<1>. QED  BY <1>2, <1>3 DEF BatchGoes, Starting, Working

\* So does one that throws.
LEMMA ThrowForgets ==
  ASSUME TypeInv, NEW j \in Batches, batch' = [batch EXCEPT ![j] = NoWork]
  PROVE  \A k \in Batches : BatchGoes(k)
<1>1. NoWork = [NoWork EXCEPT !.pc = "none"]
  BY DEF NoWork
<1>. QED  BY <1>1, Forgets, Zenon

\* The run stays as it is.
LEMMA RunStays ==
  ASSUME IInv, run'.status = run.status, run'.state = run.state, run'.head = run.head, UNCHANGED asked
  PROVE  RunGoes
BY DEF IInv, RunFits, RunGoes

\* A step of a batch that only moves the batch.
LEMMA BatchOnly ==
  ASSUME TypeInv, IInv, NEW j \in Batches, UNCHANGED <<run, ledger, mail, asked>>,
         \A k \in Batches : BatchGoes(k)
  PROVE  IInv'
BY RunStays, ClaimsBack, Goes, Zenon

\* The steps of a batch that wait, leave, fail or die.
LEMMA LeaveKeeps ==
  ASSUME TypeInv, IInv, NEW j \in Batches,
         \/ Take(j) \/ CapFull(j) \/ Complete(j) \/ Break(j) \/ Cut(j) \/ Crash(j)
         \/ Begin(j) /\ Goto(j, "done")
         \/ (Freeze(j) \/ Write(j)) /\ Throw(j) /\ UNCHANGED ledger
  PROVE  IInv'
<1>1. UNCHANGED <<run, ledger, mail, asked>>
  BY DEF Take, CapFull, Complete, Break, Cut, Crash, Begin, Freeze, Write
<1>2. \A k \in Batches : BatchGoes(k)
  <2>1. CASE Take(j)
    <3>1. batch' = [batch EXCEPT ![j] = [NoWork EXCEPT !.pc = "begin"]]
      BY <2>1, Zenon DEF Take
    <3>. QED  BY <3>1, Forgets, Zenon
  <2>2. CASE CapFull(j) \/ Break(j)
    BY <2>2, MovesOn DEF CapFull, Break, At, Working, Steps
  <2>3. CASE Complete(j) \/ Cut(j) \/ Crash(j) \/ Throw(j)
    <3>1. batch' = [batch EXCEPT ![j] = NoWork]
      BY <2>3, Zenon DEF Complete, Cut, Crash, Throw
    <3>. QED  BY <3>1, ThrowForgets
  <2>4. CASE Begin(j) /\ Goto(j, "done")
    BY <2>4, MovesOn DEF Steps
  <2>. QED  BY <2>1, <2>2, <2>3, <2>4
<1>. QED  BY <1>1, <1>2, BatchOnly

\* The batch that begins finds the run started, or starts it.
LEMMA BeginKeeps ==
  ASSUME TypeInv, IInv, NEW j \in Batches, Begin(j)
  PROVE  IInv'
<1>1. batch \in [Batches -> WorkType] /\ run \in RunType
  BY Types DEF BatchOK
<1>2. CASE Goto(j, "done")
  BY <1>2, LeaveKeeps
<1>3. CASE ~Goto(j, "done")
  <2>1. /\ UNCHANGED <<run, ledger, mail, asked>> /\ batch[j].pc = "begin" /\ run.head = j /\ run.status \notin Over
        /\ \/ run.status = "scheduled" /\ batch' = [batch EXCEPT ![j].pc = "clear"]
           \/ run.status # "scheduled" /\ batch' = [batch EXCEPT ![j].pc = "check"]
    BY <1>3 DEF Begin, At, Goto
  <2>2. /\ \A k \in Batches : k # j => batch'[k] = batch[k]
        /\ batch'[j].pc \in {"clear", "check"}
        /\ batch'[j].pc = "clear" <=> run.status = "scheduled"
    BY <1>1, <2>1 DEF WorkType
  <2>3. \A k \in Batches : batch[k].pc \notin Starting
    <3>. SUFFICES ASSUME NEW k \in Batches, batch[k].pc \in Starting
                  PROVE  FALSE
      OBVIOUS
    <3>1. run.status = "scheduled" /\ run.head = k
      BY <2>1 DEF IInv, StartFits, Over
    <3>. QED  BY <2>1, <3>1 DEF Starting
  <2>4. run.status \in {"scheduled", "running"}
    BY <1>1, <2>1, CampaignAssumption DEF IInv, RunFits, RunType
  <2>5. run.status = "scheduled" => \A k \in Batches : batch[k].pc \notin Working
    BY DEF IInv, WorksLater
  <2>6. RunFits'
    BY <2>1 DEF IInv, RunFits
  <2>7. ASSUME NEW k \in Batches
        PROVE  StartFits(k)' /\ WorksLater(k)'
    <3>1. StartFits(k)'
      BY <2>1, <2>2, <2>3, <2>5 DEF StartFits, Starting, Working
    <3>2. WorksLater(k)'
      BY <2>1, <2>2, <2>4 DEF IInv, WorksLater, Working
    <3>. QED  BY <3>1, <3>2
  <2>8. NotStarted'
    BY <2>1, <2>2, <2>3, <2>4 DEF IInv, NotStarted, Untouched, Starting
  <2>9. AtMostOnce' /\ HandedIsMarked'
    BY <2>1, MarksStay
  <2>10. Written'
    BY <2>1, <2>2 DEF IInv, Written
  <2>11. VerdictFits'
    BY <2>1, <2>2 DEF IInv, VerdictFits, Settled
  <2>. QED  BY <2>6, <2>7, <2>8, <2>9, <2>10, <2>11 DEF IInv
<1>. QED  BY <1>2, <1>3

\* The batch that starts the run is alone with it, and nobody's row was claimed.
LEMMA StartsAlone ==
  ASSUME TypeInv, IInv, NEW j \in Batches, batch[j].pc \in Starting
  PROVE  /\ \A k \in Batches : batch[k].pc \notin Working /\ (batch[k].pc \in Starting => k = j)
         /\ \A p \in People : Untouched(p)
         /\ run.status \notin {"none", "running", "sent"}
<1>1. StartFits(j)
  BY DEF IInv
<1>. QED  BY <1>1 DEF IInv, NotStarted, StartFits

\* A step of the batch that starts the run, while it does so: rows come and go,
\* and nobody's is claimed.
LEMMA StartGoes ==
  ASSUME TypeInv, IInv, NEW j \in Batches, batch[j].pc \in Starting,
         UNCHANGED <<run, mail, asked>>,
         \A k \in Batches : k # j => batch'[k] = batch[k],
         batch'[j].pc \in Starting \/ batch'[j].pc = "done",
         \A p \in People : ledger'[p].state \in {"absent", "queued"},
         batch'[j].pc = "write" => \A p \in People \ batch'[j].mine : ledger'[p].state # "absent"
  PROVE  IInv'
<1>1. /\ \A k \in Batches : batch[k].pc \notin Working /\ (batch[k].pc \in Starting => k = j)
      /\ \A p \in People : Untouched(p)
      /\ run.status \notin {"none", "running", "sent"}
  BY StartsAlone
<1>2. \A k \in Batches : batch'[k].pc \notin Working /\ (batch'[k].pc \in Starting => k = j)
  BY <1>1 DEF Starting, Working
<1>3. RunFits'
  BY DEF IInv, RunFits
<1>4. \A k \in Batches : StartFits(k)' /\ WorksLater(k)'
  BY <1>2 DEF IInv, StartFits, WorksLater
<1>5. \A p \in People : Untouched(p)'
  BY <1>1 DEF Untouched
<1>6. NotStarted' /\ AtMostOnce' /\ HandedIsMarked'
  BY <1>5 DEF NotStarted, AtMostOnce, HandedIsMarked, Untouched
<1>7. Written'
  BY <1>1, <1>2 DEF Written, Starting
<1>8. VerdictFits'
  BY <1>1, <1>2 DEF VerdictFits, Working
<1>. QED  BY <1>3, <1>4, <1>6, <1>7, <1>8 DEF IInv

\* The batch that starts the run.
LEMMA StartKeeps ==
  ASSUME TypeInv, IInv, NEW j \in Batches, Starts(j)
  PROVE  IInv'
<1>1. batch \in [Batches -> WorkType] /\ run \in RunType /\ batch[j].pc \in Starting
  BY Types DEF BatchOK, Starts, StartRefused, Clear, Freeze, Write, StartRun, Undo, At, Starting
<1>2. /\ \A k \in Batches : batch[k].pc \notin Working /\ (batch[k].pc \in Starting => k = j)
      /\ \A p \in People : Untouched(p)
  BY <1>1, StartsAlone
<1>3. CASE StartRefused(j)
  <2>1. run' = [run EXCEPT !.status = "failed", !.state = "done"] /\ UNCHANGED <<ledger, mail, asked>>
    BY <1>3 DEF StartRefused
  <2>2. RunGoes
    BY <1>1, <2>1 DEF RunGoes, RunFits, RunType, Over
  <2>3. \A k \in Batches : BatchGoes(k)
    BY <1>3, MovesOn DEF StartRefused, Steps
  <2>. QED  BY <2>1, <2>2, <2>3, ClaimsBack, Goes
<1>4. CASE Clear(j) \/ Undo(j)
  <2>1. /\ UNCHANGED <<run, mail, asked>> /\ ledger' = [p \in People |-> Absent]
        /\ batch' = [batch EXCEPT ![j].pc = "freeze"] \/ batch' = [batch EXCEPT ![j].pc = "done"]
    BY <1>4 DEF Clear, Undo, Goto
  <2>2. /\ \A k \in Batches : k # j => batch'[k] = batch[k]
        /\ batch'[j].pc \in {"freeze", "done"}
    BY <1>1, <2>1 DEF WorkType
  <2>3. \A p \in People : ledger'[p].state \in {"absent", "queued"}
    BY <2>1 DEF Absent
  <2>. QED  BY <1>1, <2>1, <2>2, <2>3, StartGoes DEF Starting
<1>5. CASE Freeze(j)
  <2>1. CASE Throw(j)
    BY <1>5, <2>1, LeaveKeeps DEF Freeze
  <2>2. CASE ~Throw(j)
    <3>1. /\ UNCHANGED <<run, mail, asked, ledger>>
          /\ batch' = [batch EXCEPT ![j].pc = "write", ![j].mine = People]
      BY <1>5, <2>2 DEF Freeze
    <3>2. /\ \A k \in Batches : k # j => batch'[k] = batch[k]
          /\ batch'[j].pc = "write" /\ batch'[j].mine = People
      BY <1>1, <3>1 DEF WorkType
    <3>3. \A p \in People : ledger'[p].state \in {"absent", "queued"}
      BY <1>2, <3>1 DEF Untouched
    <3>. QED  BY <1>1, <3>1, <3>2, <3>3, StartGoes DEF Starting
  <2>. QED  BY <2>1, <2>2
<1>6. CASE Write(j)
  <2>1. CASE Throw(j) /\ UNCHANGED ledger
    BY <1>6, <2>1, LeaveKeeps
  <2>2. CASE ~(Throw(j) /\ UNCHANGED ledger)
    <3>. DEFINE p == Min(batch[j].mine)
    <3>1. /\ UNCHANGED <<run, mail, asked>> /\ batch[j].pc = "write"
          /\ ledger' = [ledger EXCEPT ![p] = Queued]
          /\ batch' = [batch EXCEPT ![j].mine = @ \ {p}]
      BY <1>6, <2>2 DEF Write, At
    <3>2. /\ \A k \in Batches : k # j => batch'[k] = batch[k]
          /\ batch'[j].pc = "write" /\ batch'[j].mine = batch[j].mine \ {p}
      BY <1>1, <3>1 DEF WorkType
    <3>3. ledger \in [People -> RowType]
      BY Types
    <3>4. \A q \in People : ledger'[q].state = "queued" \/ (q # p /\ ledger'[q] = ledger[q])
      BY <3>1, <3>3 DEF Queued
    <3>5. \A q \in People : ledger'[q].state \in {"absent", "queued"}
      BY <1>2, <3>4 DEF Untouched
    <3>6. \A q \in People \ batch[j].mine : ledger[q].state # "absent"
      BY <3>1 DEF IInv, Written
    <3>7. \A q \in People \ batch'[j].mine : ledger'[q].state # "absent"
      BY <3>2, <3>4, <3>6
    <3>. QED  BY <1>1, <3>1, <3>2, <3>5, <3>7, StartGoes DEF Starting
  <2>. QED  BY <2>1, <2>2
<1>7. CASE StartRun(j)
  <2>1. UNCHANGED <<mail, asked, ledger>> /\ batch[j].pc = "write" /\ batch[j].mine = {}
    BY <1>7 DEF StartRun, At
  <2>2. CASE UNCHANGED run
    <3>1. batch' = [batch EXCEPT ![j].pc = "undo"]
      BY <1>1, <1>7, <2>2 DEF StartRun, Goto, RunType
    <3>2. /\ \A k \in Batches : k # j => batch'[k] = batch[k]
          /\ batch'[j].pc = "undo"
      BY <1>1, <3>1 DEF WorkType
    <3>3. \A p \in People : ledger'[p].state \in {"absent", "queued"}
      BY <1>2, <2>1 DEF Untouched
    <3>. QED  BY <1>1, <2>1, <2>2, <3>2, <3>3, StartGoes DEF Starting
  <2>3. CASE ~UNCHANGED run
    <3>1. /\ run.status = "scheduled" /\ batch' = [batch EXCEPT ![j].pc = "check"]
          /\ run' = [run EXCEPT !.status = "running", !.sent = 0, !.failed = 0, !.skipped = 0]
      BY <1>7, <2>3 DEF StartRun, Goto
    <3>2. /\ \A k \in Batches : k # j => batch'[k] = batch[k]
          /\ batch'[j].pc = "check"
      BY <1>1, <3>1 DEF WorkType
    <3>3. run'.status = "running" /\ run'.state = run.state
      BY <1>1, <3>1 DEF RunType
    <3>4. \A k \in Batches : batch'[k].pc \notin Starting /\ batch'[k].pc \notin {"sent", "failed"}
      BY <1>2, <3>2 DEF Starting, Working
    <3>5. RunFits'
      BY <3>1, <3>3 DEF IInv, RunFits, Over
    <3>6. \A k \in Batches : StartFits(k)' /\ WorksLater(k)'
      BY <3>3, <3>4 DEF StartFits, WorksLater
    <3>7. NotStarted' /\ VerdictFits'
      BY <3>3, <3>4 DEF NotStarted, VerdictFits
    <3>8. AtMostOnce' /\ HandedIsMarked'
      BY <2>1, MarksStay
    <3>9. \A p \in People : ledger'[p].state # "absent"
      BY <2>1 DEF IInv, Written
    <3>10. Written'
      BY <3>9 DEF Written
    <3>. QED  BY <3>5, <3>6, <3>7, <3>8, <3>10 DEF IInv
  <2>. QED  BY <2>2, <2>3
<1>. QED  BY <1>3, <1>4, <1>5, <1>6, <1>7 DEF Starts

\* What is known while a batch works on the run: nobody starts it, and an open
\* run is running.
LEMMA WorksOn ==
  ASSUME TypeInv, IInv, NEW j \in Batches, batch[j].pc \in Working
  PROVE  /\ Begun /\ \A k \in Batches : batch[k].pc \notin Starting
         /\ run.status \notin {"none", "scheduled"}
         /\ run.state \in {"running", "paused"} => run.status = "running"
<1>1. WorksLater(j) /\ run \in RunType /\ RunFits
  BY Types DEF IInv
<1>2. \A k \in Batches : batch[k].pc \notin Starting
  BY DEF IInv, StartFits
<1>. QED  BY <1>1, <1>2 DEF WorksLater, Begun, RunFits, RunType, Over

\* The checks, claims and leaves of a batch at work.
LEMMA WorkKeeps ==
  ASSUME TypeInv, IInv, NEW j \in Batches,
         \/ Check(j) \/ Refuse(j) \/ ClaimSelect(j) \/ Close(j) \/ QueueNext(j)
         \/ Decide(j) /\ batch'[j].pc \notin {"sent", "failed"}
         \/ Finish(j) /\ run'.status # "sent"
  PROVE  IInv'
<1>1. batch \in [Batches -> WorkType] /\ run \in RunType /\ UNCHANGED <<mail, asked>> /\ batch[j].pc \in Working
  BY Types DEF BatchOK, Check, Refuse, ClaimSelect, Close, QueueNext, Decide, Finish, At, Working
<1>2. UNCHANGED ledger \/ ledger' = ReleaseClaims \/ ledger' = UnclaimAll(j)
  BY DEF Check, Refuse, ClaimSelect, Close, QueueNext, Decide, Finish
<1>3. RunGoes
  <2>1. CASE Check(j) \/ ClaimSelect(j) \/ Decide(j)
    BY <2>1, <1>1, RunStays DEF Check, ClaimSelect, Decide
  <2>2. CASE Refuse(j) \/ (Finish(j) /\ run'.status # "sent")
    <3>1. run' = run \/ (run'.status \in {"failed", "cancelled", "sent"} /\ run'.state \in {"stopped", "done"})
      BY <1>1, <2>2 DEF Refuse, Finish, At, RunType
    <3>2. CASE run' = run
      BY <1>1, <3>2, RunStays
    <3>3. CASE run' # run
      <4>1. run'.status \in {"failed", "cancelled"}
        BY <2>2, <1>1, <3>1, <3>3 DEF Refuse, RunType
      <4>. QED  BY <3>1, <3>3, <4>1 DEF RunGoes, RunFits, Over
    <3>. QED  BY <3>2, <3>3
  <2>3. CASE Close(j)
    <3>1. run'.status = run.status /\ run'.state = run.state /\ run'.head = run.head
      BY <1>1, <2>3 DEF Close, CountSettled, RunType
    <3>. QED  BY <1>1, <3>1, RunStays
  <2>4. CASE QueueNext(j)
    <3>1. run'.status = run.status /\ run'.state = run.state
      BY <1>1, <2>4 DEF QueueNext, RunType
    <3>. QED  BY <1>1, <3>1, WorksOn DEF IInv, RunGoes, RunFits
  <2>. QED  BY <2>1, <2>2, <2>3, <2>4
<1>4. \A k \in Batches : BatchGoes(k)
  <2>1. CASE Check(j)
    BY <2>1, <1>1, MovesOn DEF Check, Working, Steps
  <2>2. CASE Refuse(j) \/ Finish(j) \/ QueueNext(j)
    BY <2>2, MovesOn DEF Refuse, Finish, QueueNext, Steps
  <2>3. CASE ClaimSelect(j)
    BY <2>3, <1>1 DEF ClaimSelect, BatchGoes, WorkType, Working
  <2>4. CASE Close(j)
    <3>1. batch' = [batch EXCEPT ![j] = [NoWork EXCEPT !.pc = "decide"]]
      BY <2>4, Zenon DEF Close
    <3>. QED  BY <1>1, <3>1, Forgets, Zenon
  <2>5. CASE Decide(j) /\ batch'[j].pc \notin {"sent", "failed"}
    <3>1. PICK pc \in {"done", "next", "sent", "failed"} : Goto(j, pc)
      BY <2>5 DEF Decide
    <3>2. pc \in {"done", "next"}
      BY <1>1, <2>5, <3>1 DEF Goto, WorkType
    <3>. QED  BY <1>1, <3>1, <3>2, MovesOn DEF Working, Steps
  <2>. QED  BY <2>1, <2>2, <2>3, <2>4, <2>5
<1>. QED  BY <1>1, <1>2, <1>3, <1>4, ClaimsBack, Goes

\* Rows are claimed.
LEMMA ClaimKeeps ==
  ASSUME TypeInv, IInv, NEW j \in Batches, Claim(j)
  PROVE  IInv'
<1>1. /\ batch \in [Batches -> WorkType] /\ UNCHANGED <<run, mail, asked>> /\ batch[j].pc = "take"
      /\ Begun
  BY Types DEF BatchOK, Claim, At, Begun, Working
<1>2. RunGoes
  BY <1>1, RunStays
<1>3. ASSUME NEW p \in People
      PROVE  \/ ledger'[p] = ledger[p]
             \/ ledger[p].state = "queued" /\ ledger'[p].state = "sending"
  BY DEF Claim, InState
<1>4. \A p \in People : RowGoes(p)
  BY <1>1, <1>3 DEF RowGoes
<1>5. AtMostOnce' /\ HandedIsMarked'
  BY <1>1, <1>3, MarksStay
<1>6. \A k \in Batches : BatchGoes(k)
  <2>1. CASE Throw(j)
    BY <2>1, ThrowForgets DEF Throw
  <2>2. CASE ~Throw(j)
    BY <2>2, <1>1 DEF Claim, BatchGoes, WorkType, Working
  <2>. QED  BY <2>1, <2>2
<1>. QED  BY <1>2, <1>4, <1>5, <1>6, Goes

\* A row is handed over, skipped or failed: whoever is mailed was not yet.
LEMMA RowKeeps ==
  ASSUME TypeInv, IInv, NEW j \in Batches, NEW p \in People,
         HandOver(j, p) \/ Skip(j, p) \/ FailRow(j, p)
  PROVE  IInv'
<1>1. /\ batch \in [Batches -> WorkType] /\ run \in RunType /\ ledger \in [People -> RowType]
      /\ mail \in [People -> 0 .. 2] /\ UNCHANGED asked /\ batch[j].pc = "hand"
  BY Types DEF BatchOK, HandOver, Skip, FailRow, AtRow, At
<1>2. RunGoes
  <2>1. run'.status = run.status /\ run'.state = run.state /\ run'.head = run.head
    BY <1>1 DEF HandOver, Skip, FailRow, RunType
  <2>. QED  BY <1>1, <2>1, RunStays
<1>3. \A k \in Batches : BatchGoes(k)
  <2>1. \A k \in Batches : k # j => batch'[k] = batch[k]
    BY <1>1 DEF HandOver, Skip, FailRow
  <2>2. batch'[j].pc \in {"hand", "close"}
    BY <1>1 DEF HandOver, Skip, FailRow, WorkType
  <2>. QED  BY <1>1, <2>1, <2>2 DEF BatchGoes, Working
<1>4. \/ UNCHANGED <<ledger, mail>>
      \/ /\ Holds(j, p)
         /\ \/ mail' = [mail EXCEPT ![p] = IF @ < 2 THEN @ + 1 ELSE 2] /\ ledger' = Settle(j, p, "sent")
            \/ UNCHANGED mail /\ ledger' \in {Settle(j, p, "skipped"), Settle(j, p, "failed")}
  BY DEF HandOver, Skip, FailRow, Hands, Settle
<1>5. CASE UNCHANGED <<ledger, mail>>
  BY <1>2, <1>3, <1>5, ClaimsBack, Goes
<1>6. CASE /\ Holds(j, p)
           /\ \/ mail' = [mail EXCEPT ![p] = IF @ < 2 THEN @ + 1 ELSE 2] /\ ledger' = Settle(j, p, "sent")
              \/ UNCHANGED mail /\ ledger' \in {Settle(j, p, "skipped"), Settle(j, p, "failed")}
  <2>1. ledger[p].state = "sending" /\ mail[p] = 0
    <3>1. ledger[p].state = "sending"
      BY <1>6 DEF Holds
    <3>. QED  BY <1>1, <3>1 DEF IInv, HandedIsMarked
  <2>2. \A q \in People : q # p => ledger'[q] = ledger[q] /\ mail'[q] = mail[q]
    BY <1>1, <1>6 DEF Settle
  <2>3. \/ ledger'[p].state = "sent" /\ mail'[p] = 1
        \/ ledger'[p].state \in {"skipped", "failed"} /\ mail'[p] = 0
    BY <1>1, <1>6, <2>1 DEF Settle
  <2>4. \A q \in People : RowGoes(q)
    BY <2>1, <2>2, <2>3 DEF RowGoes, Settled
  <2>5. AtMostOnce'
    BY <2>2, <2>3 DEF IInv, AtMostOnce
  <2>6. HandedIsMarked'
    BY <2>2, <2>3 DEF IInv, HandedIsMarked
  <2>. QED  BY <1>2, <1>3, <2>4, <2>5, <2>6, Goes
<1>. QED  BY <1>4, <1>5, <1>6

\* The verdict: nobody is left when it is drawn.
LEMMA VerdictKeeps ==
  ASSUME TypeInv, IInv, NEW j \in Batches, Decide(j) \/ Finish(j)
  PROVE  IInv'
<1>1. /\ batch \in [Batches -> WorkType] /\ run \in RunType /\ ledger \in [People -> RowType]
      /\ UNCHANGED <<ledger, mail, asked>> /\ batch[j].pc \in Working
  BY Types DEF BatchOK, Decide, Finish, At, Working
<1>2. CASE Decide(j) /\ batch'[j].pc \in {"sent", "failed"}
  <2>1. PICK pc \in {"done", "next", "sent", "failed"} :
          Goto(j, pc) /\ (pc \in {"sent", "failed"} => MayHand(j) /\ ~Left)
    BY <1>2 DEF Decide
  <2>2. /\ UNCHANGED run /\ batch' = [batch EXCEPT ![j].pc = pc] /\ pc \in {"sent", "failed"}
        /\ \A k \in Batches : k # j => batch'[k] = batch[k]
    BY <1>1, <1>2, <2>1 DEF Decide, Goto, WorkType
  <2>3. run.status = "running" /\ \A k \in Batches : batch[k].pc \notin Starting
    BY <1>1, <2>1, <2>2, WorksOn DEF MayHand
  <2>4. \A p \in People : Settled(p)
    <3>1. \A p \in People : ledger[p].state \notin {"absent", "queued", "sending"}
      BY <2>1, <2>2, <2>3 DEF IInv, Written, Left, Remaining, InState
    <3>. QED  BY <1>1, <3>1 DEF Settled, RowType
  <2>5. batch'[j].pc \in {"sent", "failed"}
    BY <1>2
  <2>6. RunFits'
    BY <1>1, <2>2 DEF IInv, RunFits
  <2>7. \A k \in Batches : StartFits(k)' /\ WorksLater(k)'
    BY <2>2, <2>3, <2>5 DEF StartFits, WorksLater, Starting
  <2>8. NotStarted'
    BY <2>2, <2>3, <2>5 DEF NotStarted, Starting
  <2>9. AtMostOnce' /\ HandedIsMarked'
    BY <1>1, MarksStay
  <2>10. Written'
    BY <1>1, <2>2, <2>5 DEF IInv, Written
  <2>11. VerdictFits'
    BY <1>1, <2>4 DEF VerdictFits, Settled
  <2>. QED  BY <2>6, <2>7, <2>8, <2>9, <2>10, <2>11 DEF IInv
<1>3. CASE Finish(j) /\ run'.status = "sent"
  <2>1. batch' = [batch EXCEPT ![j].pc = "done"] /\ batch[j].pc \in {"sent", "failed"}
    BY <1>3 DEF Finish, Goto, At
  <2>2. /\ \A k \in Batches : k # j => batch'[k] = batch[k]
        /\ batch'[j].pc = "done"
    BY <1>1, <2>1 DEF WorkType
  <2>3. \A p \in People : Settled(p)
    BY <2>1 DEF IInv, VerdictFits
  <2>4. \A k \in Batches : batch[k].pc \notin Starting
    BY <1>1, WorksOn
  <2>5. \A k \in Batches : batch'[k].pc \notin Starting
    BY <2>2, <2>4 DEF Starting
  <2>6. run' = run \/ run'.state = "done"
    BY <1>1, <1>3 DEF Finish, RunType
  <2>7. RunFits'
    BY <1>1, <1>3, <2>6 DEF IInv, RunFits, Over
  <2>8. \A k \in Batches : StartFits(k)' /\ WorksLater(k)'
    BY <1>3, <2>5 DEF StartFits, WorksLater
  <2>9. NotStarted'
    BY <1>3, <2>5 DEF NotStarted
  <2>10. AtMostOnce' /\ HandedIsMarked'
    BY <1>1, MarksStay
  <2>11. Written'
    BY <1>1, <2>3, <2>5 DEF Written, Settled, Starting
  <2>12. VerdictFits'
    BY <1>1, <2>3 DEF VerdictFits, Settled
  <2>. QED  BY <2>7, <2>8, <2>9, <2>10, <2>11, <2>12 DEF IInv
<1>. QED  BY <1>2, <1>3, WorkKeeps

\* What comes after the hand-over.
LEMMA AfterKeeps ==
  ASSUME TypeInv, IInv, NEW p \in People,
         \/ Notice(p)
         \/ \E as \in {"failed", "skipped"} : GiveUp(p, as) \/ CountGivenUp(p, as) \/ GiveUpLost(p, as)
  PROVE  IInv'
<1>1. /\ run \in RunType /\ ledger \in [People -> RowType] /\ UNCHANGED <<mail, batch, asked>>
  BY Types DEF Notice, GiveUp, CountGivenUp, GiveUpLost
<1>2. RunGoes
  <2>1. run'.status = run.status /\ run'.state = run.state /\ run'.head = run.head
    BY <1>1 DEF Notice, GiveUp, CountGivenUp, GiveUpLost, RunType
  <2>. QED  BY <1>1, <2>1, RunStays
<1>3. \A k \in Batches : BatchGoes(k)
  BY <1>1 DEF BatchGoes
<1>4. \/ UNCHANGED ledger
      \/ /\ ledger[p].state = "sent" /\ ledger'[p].state \in {"failed", "skipped", "noticed"}
         /\ \A q \in People : q # p => ledger'[q] = ledger[q]
  BY <1>1 DEF Notice, GiveUp, CountGivenUp, GiveUpLost, RowType
<1>5. \A q \in People : RowGoes(q)
  BY <1>1, <1>4 DEF RowGoes, Settled
<1>6. AtMostOnce'
  BY <1>1 DEF IInv, AtMostOnce
<1>7. HandedIsMarked'
  BY <1>1, <1>4 DEF IInv, HandedIsMarked
<1>. QED  BY <1>2, <1>3, <1>5, <1>6, <1>7, Goes

\* Every step keeps the invariant.
LEMMA InvStep ==
  ASSUME "early" \notin Events, TypeInv, IInv, [Next]_vars
  PROVE  IInv'
<1>1. CASE Operator
  BY <1>1, OperatorGoes, SendKeeps
<1>2. ASSUME NEW j \in Batches, Take(j) \/ BatchStep(j) \/ Break(j) \/ Cut(j) \/ Crash(j)
      PROVE  IInv'
  <2>1. CASE Rows(j)
    BY <2>1, RowKeeps DEF Rows
  <2>2. CASE ~Rows(j)
    BY <1>2, <2>2, LeaveKeeps, BeginKeeps, StartKeeps, WorkKeeps, ClaimKeeps, VerdictKeeps DEF BatchStep
  <2>. QED  BY <2>1, <2>2
<1>3. ASSUME NEW p \in People,
             \/ Notice(p)
             \/ \E as \in {"failed", "skipped"} : GiveUp(p, as) \/ CountGivenUp(p, as) \/ GiveUpLost(p, as)
      PROVE  IInv'
  BY <1>3, AfterKeeps
<1>4. CASE UNCHANGED vars
  <2>1. UNCHANGED <<run, ledger, mail, batch, asked>>
    BY <1>4 DEF vars
  <2>. QED  BY <2>1, RunStays, ClaimsBack, Goes DEF BatchGoes
<1>. QED  BY <1>1, <1>2, <1>3, <1>4 DEF Next

\* A run that is not started fits.
LEMMA InvInit == Init => IInv
<1>. SUFFICES ASSUME Init PROVE IInv
  OBVIOUS
<1>1. /\ run.status = "none" /\ run.state = "running" /\ run.head = NoBatch /\ asked.pc = "none"
      /\ \A p \in People : mail[p] = 0 /\ ledger[p].state = "absent"
      /\ \A j \in Batches : batch[j].pc = "none"
  BY DEF Init, Absent, NoWork, NoRequest
<1>2. RunFits /\ NotStarted
  BY <1>1 DEF RunFits, Over, NotStarted, Untouched
<1>3. \A j \in Batches : StartFits(j) /\ WorksLater(j)
  BY <1>1 DEF StartFits, WorksLater, Starting, Working
<1>4. AtMostOnce /\ HandedIsMarked
  BY <1>1 DEF AtMostOnce, HandedIsMarked
<1>5. Written /\ VerdictFits
  BY <1>1 DEF Written, VerdictFits
<1>. QED  BY <1>2, <1>3, <1>4, <1>5 DEF IInv

\* Who was sent to, skipped or failed: a run that says it was sent left nobody out.
LEMMA SentLeftNobody == TypeInv /\ IInv => NeverLost
<1>. SUFFICES ASSUME TypeInv, IInv, run.status = "sent", NEW p \in People
              PROVE  \/ ledger[p].state \in {"skipped", "failed"}
                     \/ ledger[p].state \in {"sent", "noticed"} /\ mail[p] > 0
  BY DEF NeverLost
<1>1. Settled(p)
  BY DEF IInv, VerdictFits
<1>. QED  BY <1>1 DEF IInv, HandedIsMarked, Settled

\* Unless a resume queues a head beside a batch that still starts the run, the
\* invariant holds of every state.
LEMMA Inductive ==
  ASSUME "early" \notin Events
  PROVE  Spec => [](TypeInv /\ IInv)
<1>1. Init => TypeInv /\ IInv
  BY InitType, InvInit
<1>2. TypeInv /\ IInv /\ [Next]_vars => (TypeInv /\ IInv)'
  BY TypeStep, InvStep
<1>. QED  BY <1>1, <1>2, PTL DEF Spec

\* Nobody is mailed twice, whoever dies, stops, pauses or resumes the run, as long
\* as no resume queues a head beside a batch that still starts the run.
THEOREM MailedAtMostOnce ==
  ASSUME "early" \notin Events
  PROVE  Spec => []AtMostOnce
<1>1. IInv => AtMostOnce
  BY DEF IInv
<1>. QED  BY <1>1, Inductive, PTL

\* The message and the ledger agree.
THEOREM HandedStaysMarked ==
  ASSUME "early" \notin Events
  PROVE  Spec => []HandedIsMarked
<1>1. IInv => HandedIsMarked
  BY DEF IInv
<1>. QED  BY <1>1, Inductive, PTL

\* A run that says it was sent left nobody out.
THEOREM NobodyLost ==
  ASSUME "early" \notin Events
  PROVE  Spec => []NeverLost
BY SentLeftNobody, Inductive, PTL

-----------------------------------------------------------------------------
(* The promise *)

Mailed == { p \in People : mail[p] > 0 }
Excused == { p \in InState({"skipped", "failed"}) : mail[p] = 0 }

\* Who is mailed or excused, where rows change only by claims.
LEMMA PeopleStay ==
  ASSUME TypeInv, IInv, UNCHANGED mail,
         \A p \in People :
           \/ ledger'[p].state = ledger[p].state
           \/ {ledger[p].state, ledger'[p].state} \subseteq {"absent", "queued", "sending"}
  PROVE  UNCHANGED <<Mailed, Excused>>
<1>1. Mailed' = Mailed
  BY DEF Mailed
<1>2. \A p \in People : ledger'[p].state \in {"skipped", "failed"} <=> ledger[p].state \in {"skipped", "failed"}
  OBVIOUS
<1>3. Excused' = Excused
  BY <1>2 DEF Excused, InState
<1>. QED  BY <1>1, <1>3

\* What a step may do to the phase, by itself.
PhaseGoes ==
  \/ Phase' = Phase
  \/ Phase' = "halted"
  \/ /\ Phase \in {"waiting", "open", "paused"} /\ Phase' \in {"waiting", "open", "paused"}
     /\ Phase # "waiting" => Phase' # "waiting"

\* Such a step is a step of the promise, or none.
LEMMA PhaseStep ==
  ASSUME UNCHANGED <<Mailed, Excused>>, PhaseGoes
  PROVE  [Promise!Next]_Promise!vars
<1>. USE DEF Mailed, Excused
<1>1. CASE Phase' = Phase
  BY <1>1 DEF Promise!vars
<1>2. CASE Phase' = "halted"
  <2>1. Promise!Halt
    BY <1>2 DEF Promise!Halt
  <2>. QED  BY <2>1 DEF Promise!Next
<1>3. CASE /\ Phase \in {"waiting", "open", "paused"} /\ Phase' \in {"waiting", "open", "paused"}
           /\ Phase # "waiting" => Phase' # "waiting"
  <2>1. Promise!Move(Phase')
    BY <1>3 DEF Promise!Move
  <2>. QED  BY <1>3, <2>1 DEF Promise!Next
<1>. QED  BY <1>1, <1>2, <1>3 DEF PhaseGoes

\* The phase goes with the run's status and state.
LEMMA SamePhase ==
  ASSUME run'.status = run.status, run'.state = run.state
  PROVE  Phase' = Phase
BY DEF Phase

\* The operator keeps the promise.
LEMMA OperatorPromise ==
  ASSUME TypeInv, IInv, Operator
  PROVE  [Promise!Next]_Promise!vars
<1>1. /\ run \in RunType /\ UNCHANGED mail
      /\ UNCHANGED ledger \/ ledger' = ReleaseClaims
  BY Types
     DEF Operator, Send, Pause, ResumeRead, ResumeMove, ResumeQueue, ResumeLost, Stop, CancelRead, CancelWrite
<1>2. UNCHANGED <<Mailed, Excused>>
  <2>1. \A p \in People : \/ ledger'[p].state = ledger[p].state
                          \/ {ledger[p].state, ledger'[p].state} \subseteq {"absent", "queued", "sending"}
    <3>1. CASE UNCHANGED ledger
      BY <3>1
    <3>2. CASE ledger' = ReleaseClaims
      BY <3>2 DEF ReleaseClaims, Queued
    <3>. QED  BY <1>1, <3>1, <3>2
  <2>. QED  BY <1>1, <2>1, PeopleStay
<1>3. PhaseGoes
  <2>1. CASE Send \/ ResumeQueue
    <3>1. \/ run'.status = run.status /\ run'.state = run.state
          \/ run.status = "none" /\ run'.status = "scheduled"
      BY <1>1, <2>1 DEF Send, ResumeQueue, RunType
    <3>. QED  BY <3>1 DEF PhaseGoes, Phase
  <2>2. CASE Pause
    <3>1. run'.status = run.status /\ run.status \in {"scheduled", "running"}
      BY <1>1, <2>2 DEF Pause, RunType
    <3>. QED  BY <3>1 DEF PhaseGoes, Phase
  <2>3. CASE ResumeMove
    <3>1. \/ UNCHANGED run
          \/ run'.status = run.status /\ run.status \in {"scheduled", "running"}
      BY <1>1, <2>3 DEF ResumeMove, Resumable, RunType
    <3>. QED  BY <3>1 DEF PhaseGoes, Phase
  <2>4. CASE Stop \/ CancelWrite
    <3>1. run'.status = "cancelled"
      BY <1>1, <2>4 DEF Stop, CancelWrite, RunType
    <3>. QED  BY <3>1 DEF PhaseGoes, Phase
  <2>5. CASE ResumeRead \/ ResumeLost \/ CancelRead
    BY <2>5, SamePhase DEF ResumeRead, ResumeLost, CancelRead, PhaseGoes
  <2>. QED  BY <2>1, <2>2, <2>3, <2>4, <2>5 DEF Operator
<1>. QED  BY <1>2, <1>3, PhaseStep

\* A row that is settled is mailed or excused while the run is open, or excused
\* while it is paused or ended.
LEMMA RowPromise ==
  ASSUME TypeInv, IInv, NEW j \in Batches, NEW p \in People,
         HandOver(j, p) \/ Skip(j, p) \/ FailRow(j, p)
  PROVE  [Promise!Next]_Promise!vars
<1>1. /\ batch \in [Batches -> WorkType] /\ run \in RunType /\ ledger \in [People -> RowType]
      /\ mail \in [People -> 0 .. 2] /\ batch[j].pc = "hand"
  BY Types DEF BatchOK, HandOver, Skip, FailRow, AtRow, At
<1>2. Phase' = Phase
  BY <1>1, SamePhase DEF HandOver, Skip, FailRow, RunType
<1>3. CASE ~Holds(j, p)
  <2>1. UNCHANGED <<ledger, mail>>
    BY <1>3 DEF HandOver, Skip, FailRow, Hands, Settle
  <2>. QED  BY <1>2, <2>1, PeopleStay, PhaseStep DEF PhaseGoes
<1>4. CASE Holds(j, p)
  <2>1. ledger[p].state = "sending" /\ mail[p] = 0
    <3>1. ledger[p].state = "sending"
      BY <1>4 DEF Holds
    <3>. QED  BY <1>1, <3>1 DEF IInv, HandedIsMarked
  <2>2. p \notin Mailed \cup Excused
    BY <2>1 DEF Mailed, Excused, InState
  <2>3. run.status \notin {"none", "scheduled", "sent"}
    <3>1. run.status # "sent"
      BY <2>1 DEF IInv, VerdictFits, Settled
    <3>. QED  BY <1>1, <3>1, WorksOn DEF Working
  <2>4. CASE HandOver(j, p) /\ Hands(j, p)
    <3>1. ledger' = Settle(j, p, "sent") /\ mail' = [mail EXCEPT ![p] = IF @ < 2 THEN @ + 1 ELSE 2]
      BY <2>4 DEF HandOver
    <3>2. ledger'[p].state = "sent" /\ mail'[p] = 1 /\ \A q \in People : q # p => ledger'[q] = ledger[q] /\ mail'[q] = mail[q]
      BY <1>1, <1>4, <2>1, <3>1 DEF Settle
    <3>3. Mailed' = Mailed \cup {p}
      BY <3>2 DEF Mailed
    <3>4. Excused' = Excused
      BY <2>1, <3>2 DEF Excused, InState
    <3>5. Phase = "open"
      <4>1. run.state = "running" /\ run.status = "running"
        BY <1>1, <2>4, WorksOn DEF Hands, MayHand, Working
      <4>. QED  BY <4>1 DEF Phase
    <3>6. Promise!Mail(p)
      BY <1>2, <2>2, <3>3, <3>4, <3>5 DEF Promise!Mail, Mailed, Excused
    <3>. QED  BY <3>6 DEF Promise!Next
  <2>5. CASE HandOver(j, p) /\ ~Hands(j, p)
    <3>1. UNCHANGED <<ledger, mail>>
      BY <2>5 DEF HandOver
    <3>. QED  BY <1>2, <3>1, PeopleStay, PhaseStep DEF PhaseGoes
  <2>6. CASE Skip(j, p) \/ FailRow(j, p)
    <3>1. UNCHANGED mail /\ ledger' \in {Settle(j, p, "skipped"), Settle(j, p, "failed")}
      BY <2>6 DEF Skip, FailRow
    <3>2. ledger'[p].state \in {"skipped", "failed"} /\ \A q \in People : q # p => ledger'[q] = ledger[q]
      BY <1>1, <1>4, <3>1 DEF Settle
    <3>3. Mailed' = Mailed
      BY <3>1 DEF Mailed
    <3>4. Excused' = Excused \cup {p}
      BY <2>1, <3>1, <3>2 DEF Excused, InState
    <3>5. Phase \notin {"waiting", "sent"}
      BY <2>3 DEF Phase
    <3>6. Promise!Excuse(p)
      BY <1>2, <2>2, <3>3, <3>4, <3>5 DEF Promise!Excuse, Mailed, Excused
    <3>. QED  BY <3>6 DEF Promise!Next
  <2>. QED  BY <2>4, <2>5, <2>6
<1>. QED  BY <1>3, <1>4

\* The other steps of a batch: they start the run, end it, or say nothing.
LEMMA BatchPromise ==
  ASSUME TypeInv, IInv, NEW j \in Batches,
         Take(j) \/ (BatchStep(j) /\ ~Rows(j)) \/ Break(j) \/ Cut(j) \/ Crash(j)
  PROVE  [Promise!Next]_Promise!vars
<1>1. batch \in [Batches -> WorkType] /\ run \in RunType
  BY Types DEF BatchOK
<1>2. UNCHANGED mail
  BY DEF Take, BatchStep, Break, Cut, Crash, Begin, Starts, StartRefused, Clear, Freeze, Write, StartRun, Undo,
         Check, Refuse, CapFull, ClaimSelect, Claim, Close, Decide, Finish, QueueNext, Complete
<1>3. UNCHANGED <<Mailed, Excused>>
  <2>1. CASE Clear(j) \/ Undo(j)
    <3>1. \A p \in People : ledger'[p].state = "absent" /\ ledger[p].state \in {"absent", "queued"}
      BY <2>1, StartsAlone DEF Clear, Undo, Absent, Untouched, At, Starting
    <3>. QED  BY <1>2, <3>1, PeopleStay
  <2>2. CASE Write(j)
    <3>1. \A p \in People : ledger[p].state \in {"absent", "queued"}
      BY <2>2, StartsAlone DEF Write, Untouched, At, Starting
    <3>2. ledger \in [People -> RowType]
      BY Types
    <3>3. UNCHANGED ledger \/ ledger' = [ledger EXCEPT ![Min(batch[j].mine)] = Queued]
      BY <2>2 DEF Write
    <3>4. \A p \in People : ledger'[p].state \in {"absent", "queued"}
      BY <3>1, <3>2, <3>3 DEF Queued
    <3>. QED  BY <1>2, <3>1, <3>4, PeopleStay
  <2>3. CASE Check(j) \/ Close(j)
    <3>1. ledger' = ReleaseClaims \/ ledger' = UnclaimAll(j)
      BY <2>3 DEF Check, Close
    <3>2. \A p \in People : Holds(j, p) => ledger[p].state = "sending"
      BY DEF Holds
    <3>3. \A p \in People : ledger'[p] = ledger[p] \/ (ledger[p].state = "sending" /\ ledger'[p] = Queued)
      BY <3>1, <3>2 DEF ReleaseClaims, UnclaimAll
    <3>. QED  BY <1>2, <3>3, PeopleStay DEF Queued
  <2>4. CASE Claim(j)
    <3>1. \A p \in People : ledger'[p] = ledger[p] \/ (ledger[p].state = "queued" /\ ledger'[p].state = "sending")
      BY <2>4 DEF Claim, InState
    <3>. QED  BY <1>2, <3>1, PeopleStay
  <2>5. CASE UNCHANGED ledger
    BY <1>2, <2>5, PeopleStay
  <2>. QED  BY <2>1, <2>2, <2>3, <2>4, <2>5
            DEF Take, BatchStep, Break, Cut, Crash, Begin, Starts, StartRefused, Freeze, StartRun,
                Refuse, CapFull, ClaimSelect, Decide, Finish, QueueNext, Complete
<1>4. CASE Finish(j)
  <2>1. CASE run'.status = run.status /\ run'.state = run.state
    BY <1>3, <2>1, SamePhase, PhaseStep DEF PhaseGoes
  <2>2. CASE ~(run'.status = run.status /\ run'.state = run.state)
    <3>1. /\ batch[j].pc \in {"sent", "failed"} /\ run.state = "running" /\ run.status = "running"
          /\ run' = [run EXCEPT !.status = batch[j].pc, !.state = "done"]
      BY <1>4, <2>2 DEF Finish, At
    <3>2. CASE batch[j].pc = "failed"
      BY <1>1, <1>3, <3>1, <3>2, PhaseStep DEF PhaseGoes, Phase, RunType
    <3>3. CASE batch[j].pc = "sent"
      <4>1. Phase = "open" /\ Phase' = "sent"
        BY <1>1, <3>1, <3>3 DEF Phase, RunType
      <4>2. \A p \in People : Settled(p)
        BY <3>1 DEF IInv, VerdictFits
      <4>3. mail \in [People -> 0 .. 2]
        BY Types
      <4>4. Mailed \cup Excused = People
        BY <4>2, <4>3 DEF Mailed, Excused, InState, Settled, IInv, HandedIsMarked
      <4>5. Promise!Finish
        BY <1>3, <4>1, <4>4 DEF Promise!Finish, Mailed, Excused
      <4>. QED  BY <4>5 DEF Promise!Next
    <3>. QED  BY <3>1, <3>2, <3>3
  <2>. QED  BY <2>1, <2>2
<1>5. CASE StartRun(j)
  <2>1. \/ UNCHANGED run
        \/ /\ run.status = "scheduled"
           /\ run' = [run EXCEPT !.status = "running", !.sent = 0, !.failed = 0, !.skipped = 0]
    BY <1>5 DEF StartRun
  <2>2. PhaseGoes
    BY <1>1, <2>1 DEF PhaseGoes, Phase, RunType
  <2>. QED  BY <1>3, <2>2, PhaseStep
<1>6. CASE StartRefused(j) \/ Refuse(j)
  <2>1. UNCHANGED run \/ run'.status = "failed"
    BY <1>1, <1>6 DEF StartRefused, Refuse, RunType
  <2>2. PhaseGoes
    BY <2>1 DEF PhaseGoes, Phase
  <2>. QED  BY <1>3, <2>2, PhaseStep
<1>7. CASE ~(Finish(j) \/ StartRun(j) \/ StartRefused(j) \/ Refuse(j))
  <2>1. CASE UNCHANGED run
    BY <1>3, <2>1, SamePhase, PhaseStep DEF PhaseGoes
  <2>2. CASE Close(j)
    <3>1. run'.status = run.status /\ run'.state = run.state
      BY <1>1, <2>2 DEF Close, CountSettled, RunType
    <3>. QED  BY <1>3, <3>1, SamePhase, PhaseStep DEF PhaseGoes
  <2>3. CASE QueueNext(j)
    <3>1. run'.status = run.status /\ run'.state = run.state
      BY <1>1, <2>3 DEF QueueNext, RunType
    <3>. QED  BY <1>3, <3>1, SamePhase, PhaseStep DEF PhaseGoes
  <2>. QED  BY <1>7, <2>1, <2>2, <2>3
            DEF Take, BatchStep, Break, Cut, Crash, Begin, Starts, Clear, Freeze, Write, Undo,
                Check, CapFull, ClaimSelect, Claim, Decide, Complete
<1>. QED  BY <1>4, <1>5, <1>6, <1>7

\* Give-ups and notices are about people who were mailed.
LEMMA AfterPromise ==
  ASSUME TypeInv, IInv, NEW p \in People,
         \/ Notice(p)
         \/ \E as \in {"failed", "skipped"} : GiveUp(p, as) \/ CountGivenUp(p, as) \/ GiveUpLost(p, as)
  PROVE  [Promise!Next]_Promise!vars
<1>1. /\ run \in RunType /\ ledger \in [People -> RowType] /\ UNCHANGED mail
  BY Types DEF Notice, GiveUp, CountGivenUp, GiveUpLost
<1>2. Phase' = Phase
  BY <1>1, SamePhase DEF Notice, GiveUp, CountGivenUp, GiveUpLost, RunType
<1>3. \/ UNCHANGED ledger
      \/ /\ ledger[p].state = "sent" /\ \A q \in People : q # p => ledger'[q] = ledger[q]
         /\ mail[p] > 0
  BY <1>1 DEF Notice, GiveUp, CountGivenUp, GiveUpLost, IInv, HandedIsMarked
<1>4. Mailed' = Mailed /\ mail \in [People -> 0 .. 2]
  BY <1>1, Types DEF Mailed
<1>5. Excused' = Excused
  BY <1>1, <1>3, <1>4 DEF Excused, InState
<1>. QED  BY <1>2, <1>4, <1>5, PhaseStep DEF PhaseGoes

\* A run implements its promise, as long as no resume queues a head beside a batch
\* that still starts the run: every step of the run is a step of the promise, or
\* changes nothing the promise speaks of.
THEOREM KeepsPromise ==
  ASSUME "early" \notin Events
  PROVE  Spec => ImplementsPromise
<1>1. Init => Promise!Init
  <2>. SUFFICES ASSUME Init PROVE Promise!Init
    OBVIOUS
  <2>1. run.status = "none" /\ \A p \in People : mail[p] = 0 /\ ledger[p].state = "absent"
    BY DEF Init, Absent
  <2>. QED  BY <2>1 DEF Promise!Init, InState, Phase
<1>2. TypeInv /\ IInv /\ [Next]_vars => [Promise!Next]_Promise!vars
  <2>. SUFFICES ASSUME TypeInv, IInv, [Next]_vars
                PROVE  [Promise!Next]_Promise!vars
    OBVIOUS
  <2>1. CASE Operator
    BY <2>1, OperatorPromise
  <2>2. ASSUME NEW j \in Batches, Take(j) \/ BatchStep(j) \/ Break(j) \/ Cut(j) \/ Crash(j)
        PROVE  [Promise!Next]_Promise!vars
    <3>1. CASE Rows(j)
      BY <3>1, RowPromise DEF Rows
    <3>2. CASE ~Rows(j)
      BY <2>2, <3>2, BatchPromise
    <3>. QED  BY <3>1, <3>2
  <2>3. ASSUME NEW p \in People,
               \/ Notice(p)
               \/ \E as \in {"failed", "skipped"} : GiveUp(p, as) \/ CountGivenUp(p, as) \/ GiveUpLost(p, as)
        PROVE  [Promise!Next]_Promise!vars
    BY <2>3, AfterPromise
  <2>4. CASE UNCHANGED vars
    BY <2>4, SamePhase, PeopleStay, PhaseStep DEF vars, PhaseGoes
  <2>. QED  BY <2>1, <2>2, <2>3, <2>4 DEF Next
<1>. QED  BY <1>1, <1>2, Inductive, PTL DEF Spec, ImplementsPromise, Promise!Spec

-----------------------------------------------------------------------------
(* A run that is to go on has somebody to go on *)

\* Nothing of the environment takes a head away for good.
HeadStands == "dead" \notin Events /\ "slow" \notin Events /\ "lost" \notin Events

\* A step that leaves the run and the request alone, and a live head alive.
LEMMA HeadStays ==
  ASSUME HeadFits, run'.status = run.status, run'.state = run.state, run'.head = run.head, UNCHANGED asked,
         run.status \in {"scheduled", "running"} /\ run.state = "running" /\ run.head \in Batches
           /\ Alive(run.head) => Alive(run.head)',
         \A j \in Batches :
           /\ batch'[j].pc \in Working => batch[j].pc \in Working \/ run.status = "running"
           /\ batch'[j].pc \in Starting => batch[j].pc \in Starting \/ run.status = "scheduled"
           /\ batch'[j].pc = "undo" /\ run.head = j => batch[j].pc = "undo" \/ run.status \in Over,
         run \in RunType
  PROVE  HeadFits'
<1>1. asked'.pc # "resume" /\ RunFits'
  BY DEF HeadFits, RunFits
<1>2. ASSUME NEW j \in Batches
      PROVE  /\ WorksLater(j)'
             /\ batch'[j].pc \in Starting /\ run'.head = j => run'.status \in {"scheduled"} \cup Over
             /\ batch'[j].pc = "undo" /\ run'.head = j => run'.status \in Over
  BY DEF HeadFits, WorksLater
<1>3. run'.status \in {"scheduled", "running"} /\ run'.state = "running"
        /\ ~(asked'.pc = "head" /\ asked'.head = run'.head)
      => run'.head # NoBatch /\ Alive(run.head)'
  BY DEF HeadFits, RunType
<1>. QED  BY <1>1, <1>2, <1>3 DEF HeadFits

\* A step that ends the run.
LEMMA HeadEnds ==
  ASSUME HeadFits, run'.status \in Over, run'.state \in {"stopped", "done"}, asked'.pc # "resume"
  PROVE  HeadFits'
BY DEF HeadFits, RunFits, WorksLater, Over

\* The operator's steps: a new head waits, and a request that moved the run brings one.
LEMMA OperatorHead ==
  ASSUME HeadStands, TypeInv, HeadFits, Operator
  PROVE  HeadFits'
<1>1. run \in RunType /\ queue \in [Batches -> JobType] /\ asked \in AskType /\ UNCHANGED batch
  BY Types
     DEF Operator, Send, Pause, ResumeRead, ResumeMove, ResumeQueue, ResumeLost, Stop, CancelRead, CancelWrite
<1>2. \A j \in Batches : Unused(j) => batch[j].pc = "none" /\ j # run.head /\ j # asked.head
  BY DEF Unused
<1>3. CASE Send
  <2>1. PICK j \in Batches : /\ Unused(j) /\ run' = [run EXCEPT !.status = "scheduled", !.head = j]
                             /\ queue' = [queue EXCEPT ![j] = "pending"]
    BY <1>3 DEF Send
  <2>2. run'.status = "scheduled" /\ run'.state = run.state /\ run'.head = j /\ run.status = "none" /\ UNCHANGED asked
    BY <1>1, <1>3, <2>1 DEF Send, RunType
  <2>3. RunFits' /\ asked'.pc # "resume"
    BY <2>2 DEF HeadFits, RunFits, Over
  <2>4. ASSUME NEW k \in Batches
        PROVE  /\ WorksLater(k)'
               /\ batch'[k].pc \in Starting /\ run'.head = k => run'.status \in {"scheduled"} \cup Over
               /\ batch'[k].pc = "undo" /\ run'.head = k => run'.status \in Over
    BY <1>1, <1>2, <2>1, <2>2 DEF HeadFits, WorksLater
  <2>5. run'.head # NoBatch /\ Alive(run.head)'
    BY <1>1, <1>2, <2>1, <2>2, CampaignAssumption DEF Alive
  <2>. QED  BY <2>3, <2>4, <2>5 DEF HeadFits
<1>4. CASE Pause
  <2>1. run'.status = run.status /\ run'.head = run.head /\ run'.state = "paused" /\ UNCHANGED asked
        /\ run.status \in {"scheduled", "running"}
    BY <1>1, <1>4 DEF Pause, RunType
  <2>. QED  BY <1>1, <2>1 DEF HeadFits, RunFits, WorksLater, Over
<1>5. CASE ResumeMove
  <2>1. /\ run'.status = run.status /\ run'.head = run.head /\ run'.state = "running"
        /\ run.status \in {"scheduled", "running"} /\ asked'.pc = "head" /\ asked'.head = run'.head
    BY <1>1, <1>5 DEF ResumeMove, Resumable, RunType, HeadFits
  <2>. QED  BY <1>1, <2>1 DEF HeadFits, RunFits, WorksLater, Over
<1>6. CASE ResumeQueue
  <2>1. asked.pc = "head" /\ asked'.pc = "none"
    BY <1>6 DEF ResumeQueue, NoRequest
  <2>2. CASE ReplacesHead
    <3>1. PICK j \in Batches : /\ Unused(j) /\ run' = [run EXCEPT !.head = j]
                               /\ queue' = [queue EXCEPT ![j] = "pending"]
      BY <1>6, <2>2 DEF ResumeQueue
    <3>2. run'.status = run.status /\ run'.state = run.state /\ run'.head = j
      BY <1>1, <3>1 DEF RunType
    <3>3. RunFits' /\ asked'.pc # "resume"
      BY <2>1, <3>2 DEF HeadFits, RunFits
    <3>4. ASSUME NEW k \in Batches
          PROVE  /\ WorksLater(k)'
                 /\ batch'[k].pc \in Starting /\ run'.head = k => run'.status \in {"scheduled"} \cup Over
                 /\ batch'[k].pc = "undo" /\ run'.head = k => run'.status \in Over
      BY <1>1, <1>2, <3>1, <3>2 DEF HeadFits, WorksLater, Starting
    <3>5. run'.head # NoBatch /\ Alive(run.head)'
      BY <1>1, <1>2, <3>1, <3>2, CampaignAssumption DEF Alive
    <3>. QED  BY <3>3, <3>4, <3>5 DEF HeadFits
  <2>3. CASE ~ReplacesHead
    <3>1. UNCHANGED <<run, queue>>
      BY <1>6, <2>3 DEF ResumeQueue
    <3>. QED  BY <1>1, <2>1, <2>3, <3>1 DEF HeadFits, RunFits, WorksLater, Alive, ReplacesHead
  <2>. QED  BY <2>2, <2>3
<1>7. CASE Stop \/ CancelWrite
  <2>1. run'.status = "cancelled" /\ run'.state = "stopped"
    BY <1>1, <1>7 DEF Stop, CancelWrite, RunType
  <2>2. asked'.pc # "resume"
    BY <1>7 DEF Stop, CancelWrite, NoRequest, HeadFits
  <2>. QED  BY <2>1, <2>2, HeadEnds DEF Over
<1>8. CASE CancelRead
  <2>1. UNCHANGED <<run, queue>> /\ asked.pc = "none" /\ asked'.pc = "cancel" /\ run.status = "scheduled"
    BY <1>8 DEF CancelRead, NoRequest
  <2>. QED  BY <1>1, <2>1 DEF HeadFits, RunFits, WorksLater, Alive
<1>. QED  BY <1>3, <1>4, <1>5, <1>6, <1>7, <1>8 DEF Operator, ResumeRead, ResumeLost, HeadStands

\* A batch at work on its own row, or leaving when it is no longer called for.
LEMMA OneBatch ==
  ASSUME TypeInv, HeadFits, NEW j \in Batches, UNCHANGED <<queue, asked>>,
         run'.status = run.status, run'.state = run.state, run'.head = run.head,
         \A k \in Batches : k # j => batch'[k] = batch[k],
         \/ batch'[j].pc \notin Starting \cup Working
         \/ batch'[j].pc \in Working /\ (batch[j].pc \in Working \/ run.status = "running")
         \/ /\ batch'[j].pc \in Starting /\ (batch[j].pc \in Starting \/ run.status = "scheduled")
            /\ batch'[j].pc = "undo" /\ run.head = j => run.status \in Over,
         batch'[j].pc = "done" /\ run.head = j =>
           run.status \notin {"scheduled", "running"} \/ run.state # "running"
  PROVE  HeadFits'
<1>1. run \in RunType
  BY Types
<1>2. \A k \in Batches :
        /\ batch'[k].pc \in Working => batch[k].pc \in Working \/ run.status = "running"
        /\ batch'[k].pc \in Starting => batch[k].pc \in Starting \/ run.status = "scheduled"
        /\ batch'[k].pc = "undo" /\ run.head = k => batch[k].pc = "undo" \/ run.status \in Over
  BY DEF Starting, Working
<1>3. run.status \in {"scheduled", "running"} /\ run.state = "running" /\ run.head \in Batches
        /\ Alive(run.head) => Alive(run.head)'
  BY DEF Alive
<1>. QED  BY <1>1, <1>2, <1>3, HeadStays

\* A batch that is taken, fails, dies or completes: only a completed one ends.
LEMMA JobHead ==
  ASSUME HeadStands, TypeInv, HeadFits, NEW j \in Batches,
         Take(j) \/ Throw(j) \/ Complete(j) \/ Crash(j), UNCHANGED <<run, asked>>
  PROVE  HeadFits'
<1>1. batch \in [Batches -> WorkType] /\ queue \in [Batches -> JobType] /\ run \in RunType
  BY Types DEF BatchOK
<1>2. /\ \A k \in Batches : k # j => batch'[k] = batch[k] /\ queue'[k] = queue[k]
      /\ batch'[j].pc \in {"none", "begin"}
      /\ batch[j].pc = "done" \/ queue'[j] \in {"pending", "running"}
  <2>1. CASE Take(j)
    BY <1>1, <2>1 DEF Take, NoWork
  <2>2. CASE Throw(j)
    BY <1>1, <2>2 DEF Throw, NoWork, HeadStands
  <2>3. CASE Complete(j)
    BY <1>1, <2>3 DEF Complete, NoWork, At
  <2>4. CASE Crash(j)
    BY <1>1, <2>4 DEF Crash, NoWork
  <2>. QED  BY <2>1, <2>2, <2>3, <2>4
<1>3. \A k \in Batches :
        /\ batch'[k].pc \in Working => batch[k].pc \in Working
        /\ batch'[k].pc \in Starting => batch[k].pc \in Starting
        /\ batch'[k].pc = "undo" => batch[k].pc = "undo"
  BY <1>2 DEF Starting, Working
<1>4. run.head \in Batches /\ Alive(run.head) => Alive(run.head)'
  BY <1>2 DEF Alive
<1>. QED  BY <1>1, <1>3, <1>4, HeadStays

\* A batch that starts the run.
LEMMA StartHead ==
  ASSUME HeadStands, TypeInv, HeadFits, NEW j \in Batches, Begin(j) \/ Starts(j)
  PROVE  HeadFits'
<1>1. batch \in [Batches -> WorkType] /\ queue \in [Batches -> JobType] /\ run \in RunType /\ UNCHANGED asked
  BY Types DEF BatchOK, Begin, Starts, StartRefused, Clear, Freeze, Write, StartRun, Undo
<1>2. CASE Begin(j)
  <2>1. /\ UNCHANGED <<run, queue>>
        /\ \/ Goto(j, "done") /\ (run.status \in Over \/ run.head # j \/ run.state # "running")
           \/ Goto(j, "clear") /\ run.status = "scheduled"
           \/ Goto(j, "check") /\ run.status \notin Over /\ run.status # "scheduled" /\ run.head = j
    BY <1>2 DEF Begin
  <2>2. CASE Goto(j, "done") /\ (run.status \in Over \/ run.head # j \/ run.state # "running")
    BY <1>1, <2>1, <2>2, OneBatch DEF Goto, WorkType, Starting, Working, Over
  <2>3. CASE Goto(j, "clear") /\ run.status = "scheduled"
    BY <1>1, <2>1, <2>3, OneBatch DEF Goto, WorkType, Starting
  <2>4. CASE Goto(j, "check") /\ run.status \notin Over /\ run.status # "scheduled" /\ run.head = j
    <3>1. run.status = "running"
      BY <1>1, <2>4, CampaignAssumption DEF HeadFits, RunFits, RunType
    <3>. QED  BY <1>1, <2>1, <2>4, <3>1, OneBatch DEF Goto, WorkType, Working
  <2>. QED  BY <2>1, <2>2, <2>3, <2>4
<1>3. CASE StartRefused(j)
  <2>1. run'.status = "failed" /\ run'.state = "done"
    BY <1>1, <1>3 DEF StartRefused, RunType
  <2>. QED  BY <1>1, <2>1, HeadEnds DEF HeadFits, Over
<1>4. CASE Clear(j)
  BY <1>1, <1>4, OneBatch DEF Clear, At, Goto, WorkType, Starting
<1>5. CASE Freeze(j)
  <2>1. CASE Throw(j)
    BY <1>5, <2>1, JobHead DEF Freeze
  <2>2. CASE ~Throw(j)
    BY <1>1, <1>5, <2>2, OneBatch DEF Freeze, At, WorkType, Starting
  <2>. QED  BY <2>1, <2>2
<1>6. CASE Write(j)
  <2>1. CASE Throw(j)
    BY <1>6, <2>1, JobHead DEF Write
  <2>2. CASE ~Throw(j)
    BY <1>1, <1>6, <2>2, OneBatch DEF Write, At, WorkType, Starting
  <2>. QED  BY <2>1, <2>2
<1>7. CASE StartRun(j)
  <2>1. CASE UNCHANGED run
    <3>1. /\ UNCHANGED queue /\ batch[j].pc = "write" /\ Goto(j, "undo")
          /\ ~(run.status = "scheduled" /\ run.head = j)
      BY <1>1, <1>7, <2>1 DEF StartRun, At, RunType
    <3>2. run.head = j => run.status \in Over
      BY <3>1 DEF HeadFits, Starting
    <3>. QED  BY <1>1, <2>1, <3>1, <3>2, OneBatch DEF Goto, WorkType, Starting
  <2>2. CASE ~UNCHANGED run
    <3>1. /\ UNCHANGED queue /\ batch' = [batch EXCEPT ![j].pc = "check"] /\ run.status = "scheduled" /\ run.head = j
          /\ run' = [run EXCEPT !.status = "running", !.sent = 0, !.failed = 0, !.skipped = 0]
          /\ batch[j].pc = "write"
      BY <1>7, <2>2 DEF StartRun, At, Goto
    <3>2. run'.status = "running" /\ run'.state = run.state /\ run'.head = j
      BY <1>1, <3>1 DEF RunType
    <3>3. (\A k \in Batches : k # j => batch'[k] = batch[k]) /\ batch'[j].pc = "check"
      BY <1>1, <3>1 DEF WorkType
    <3>4. RunFits' /\ asked'.pc # "resume"
      BY <1>1, <3>1, <3>2 DEF HeadFits, RunFits, Over
    <3>5. ASSUME NEW k \in Batches
          PROVE  /\ WorksLater(k)'
                 /\ batch'[k].pc \in Starting /\ run'.head = k => run'.status \in {"scheduled"} \cup Over
                 /\ batch'[k].pc = "undo" /\ run'.head = k => run'.status \in Over
      BY <3>2, <3>3 DEF WorksLater, Starting
    <3>6. run'.state = "running" /\ ~(asked'.pc = "head" /\ asked'.head = run'.head)
            => run'.head # NoBatch /\ Alive(run.head)'
      BY <1>1, <3>1, <3>2, <3>3 DEF HeadFits, Alive
    <3>. QED  BY <3>4, <3>5, <3>6 DEF HeadFits
  <2>. QED  BY <2>1, <2>2
<1>8. CASE Undo(j)
  <2>1. UNCHANGED <<run, queue>> /\ batch[j].pc = "undo" /\ Goto(j, "done")
    BY <1>8 DEF Undo, At
  <2>2. run.head = j => run.status \in Over
    BY <2>1 DEF HeadFits
  <2>. QED  BY <1>1, <2>1, <2>2, OneBatch DEF Goto, WorkType, Starting, Working, Over
<1>. QED  BY <1>2, <1>3, <1>4, <1>5, <1>6, <1>7, <1>8 DEF Starts

\* A batch that works on it.
LEMMA WorkHead ==
  ASSUME HeadStands, TypeInv, HeadFits, NEW j \in Batches,
         \/ Check(j) \/ Refuse(j) \/ CapFull(j) \/ ClaimSelect(j) \/ Claim(j) \/ Rows(j)
         \/ Close(j) \/ Decide(j) \/ Finish(j) \/ QueueNext(j) \/ Break(j)
  PROVE  HeadFits'
<1>1. /\ batch \in [Batches -> WorkType] /\ queue \in [Batches -> JobType] /\ run \in RunType
      /\ UNCHANGED asked /\ batch[j].pc \in Working
  BY Types DEF BatchOK, Check, Refuse, CapFull, ClaimSelect, Claim, Rows, HandOver, Skip, FailRow, AtRow,
               Close, Decide, Finish, QueueNext, Break, At, Working
<1>2. CASE Check(j) \/ CapFull(j) \/ Break(j)
  <2>1. UNCHANGED <<run, queue>> /\ (Goto(j, "claim") \/ Goto(j, "refuse") \/ Goto(j, "next") \/ Goto(j, "close"))
    BY <1>2 DEF Check, CapFull, Break
  <2>2. (\A k \in Batches : k # j => batch'[k] = batch[k]) /\ batch'[j].pc \in {"claim", "refuse", "next", "close"}
    BY <1>1, <2>1 DEF Goto, WorkType
  <2>. QED  BY <1>1, <2>1, <2>2, OneBatch DEF Working
<1>3. CASE Refuse(j)
  <2>1. CASE run.state \in {"running", "paused"}
    <3>1. run'.status = "failed" /\ run'.state = "stopped"
      BY <1>1, <1>3, <2>1 DEF Refuse, RunType
    <3>. QED  BY <1>1, <3>1, HeadEnds DEF HeadFits, Over
  <2>2. CASE run.state \notin {"running", "paused"}
    <3>1. UNCHANGED <<run, queue>> /\ batch' = [batch EXCEPT ![j].pc = "done"]
      BY <1>3, <2>2 DEF Refuse, Goto
    <3>2. (\A k \in Batches : k # j => batch'[k] = batch[k]) /\ batch'[j].pc = "done"
      BY <1>1, <3>1 DEF WorkType
    <3>. QED  BY <1>1, <2>2, <3>1, <3>2, OneBatch DEF Starting, Working
  <2>. QED  BY <2>1, <2>2
<1>4. CASE ClaimSelect(j)
  <2>1. UNCHANGED <<run, queue>> /\ (\A k \in Batches : k # j => batch'[k] = batch[k]) /\ batch'[j].pc = "take"
    BY <1>1, <1>4 DEF ClaimSelect, WorkType
  <2>. QED  BY <1>1, <2>1, OneBatch DEF Working
<1>5. CASE Claim(j)
  <2>1. CASE Throw(j)
    BY <1>5, <2>1, JobHead DEF Claim
  <2>2. CASE ~Throw(j)
    <3>1. UNCHANGED <<run, queue>> /\ (\A k \in Batches : k # j => batch'[k] = batch[k]) /\ batch'[j].pc = "hand"
      BY <1>1, <1>5, <2>2 DEF Claim, WorkType
    <3>. QED  BY <1>1, <3>1, OneBatch DEF Working
  <2>. QED  BY <2>1, <2>2
<1>6. ASSUME NEW p \in People, HandOver(j, p) \/ Skip(j, p) \/ FailRow(j, p)
      PROVE  HeadFits'
  <2>1. run'.status = run.status /\ run'.state = run.state /\ run'.head = run.head /\ UNCHANGED queue
    BY <1>1, <1>6 DEF HandOver, Skip, FailRow, RunType
  <2>2. \A k \in Batches : k # j => batch'[k] = batch[k]
    BY <1>1, <1>6 DEF HandOver, Skip, FailRow
  <2>3. batch'[j].pc \in {"hand", "close"}
    BY <1>1, <1>6 DEF HandOver, Skip, FailRow, AtRow, At, WorkType
  <2>. QED  BY <1>1, <2>1, <2>2, <2>3, OneBatch DEF Working
<1>7. CASE Close(j)
  <2>1. run'.status = run.status /\ run'.state = run.state /\ run'.head = run.head /\ UNCHANGED queue
    BY <1>1, <1>7 DEF Close, CountSettled, RunType
  <2>2. (\A k \in Batches : k # j => batch'[k] = batch[k]) /\ batch'[j].pc = "decide"
    BY <1>1, <1>7 DEF Close, NoWork
  <2>. QED  BY <1>1, <2>1, <2>2, OneBatch DEF Working
<1>8. CASE Decide(j)
  <2>1. /\ UNCHANGED <<run, queue>>
        /\ \/ batch' = [batch EXCEPT ![j].pc = "done"] /\ ~MayHand(j)
           \/ \E pc \in {"next", "failed", "sent"} : batch' = [batch EXCEPT ![j].pc = pc]
    BY <1>8 DEF Decide, Goto
  <2>2. /\ \A k \in Batches : k # j => batch'[k] = batch[k]
        /\ (batch'[j].pc = "done" /\ ~MayHand(j)) \/ batch'[j].pc \in {"next", "failed", "sent"}
    BY <1>1, <2>1 DEF WorkType
  <2>. QED  BY <1>1, <2>1, <2>2, OneBatch DEF Starting, Working, MayHand
<1>9. CASE Finish(j)
  <2>1. CASE run.state = "running" /\ run.status = "running"
    <3>1. run'.status \in {"sent", "failed"} /\ run'.state = "done"
      BY <1>1, <1>9, <2>1 DEF Finish, At, RunType
    <3>. QED  BY <1>1, <3>1, HeadEnds DEF HeadFits, Over
  <2>2. CASE ~(run.state = "running" /\ run.status = "running")
    <3>1. UNCHANGED <<run, queue>> /\ batch' = [batch EXCEPT ![j].pc = "done"]
      BY <1>9, <2>2 DEF Finish, Goto
    <3>2. (\A k \in Batches : k # j => batch'[k] = batch[k]) /\ batch'[j].pc = "done"
      BY <1>1, <3>1 DEF WorkType
    <3>3. run.status # "scheduled"
      BY <1>1 DEF HeadFits, WorksLater
    <3>. QED  BY <1>1, <2>2, <3>1, <3>2, <3>3, OneBatch DEF Starting, Working
  <2>. QED  BY <2>1, <2>2
<1>10. CASE QueueNext(j)
  <2>1. batch' = [batch EXCEPT ![j].pc = "done"] /\ batch[j].pc = "next"
    BY <1>10 DEF QueueNext, Goto, At
  <2>2. (\A k \in Batches : k # j => batch'[k] = batch[k]) /\ batch'[j].pc = "done"
    BY <1>1, <2>1 DEF WorkType
  <2>3. CASE run.head # j
    <3>1. UNCHANGED <<run, queue>>
      BY <1>10, <2>3 DEF QueueNext
    <3>. QED  BY <1>1, <2>2, <2>3, <3>1, OneBatch DEF Starting, Working
  <2>4. CASE run.head = j
    <3>1. PICK i \in Batches : /\ Unused(i) /\ run' = [run EXCEPT !.head = i]
                               /\ queue' = [queue EXCEPT ![i] = "pending"]
      BY <1>10, <2>4 DEF QueueNext
    <3>2. run'.status = run.status /\ run'.state = run.state /\ run'.head = i
      BY <1>1, <3>1 DEF RunType
    <3>3. batch[i].pc = "none" /\ i # j /\ batch'[i].pc = "none"
      BY <2>1, <2>2, <3>1 DEF Unused
    <3>4. run.status \notin {"none", "scheduled"}
      BY <1>1 DEF HeadFits, WorksLater
    <3>5. RunFits' /\ asked'.pc # "resume"
      BY <1>1, <3>2, <3>4 DEF HeadFits, RunFits
    <3>6. ASSUME NEW k \in Batches
          PROVE  /\ WorksLater(k)'
                 /\ batch'[k].pc \in Starting /\ run'.head = k => run'.status \in {"scheduled"} \cup Over
                 /\ batch'[k].pc = "undo" /\ run'.head = k => run'.status \in Over
      BY <2>2, <3>2, <3>3, <3>4 DEF HeadFits, WorksLater, Starting
    <3>7. run'.head # NoBatch /\ Alive(run.head)'
      BY <1>1, <3>1, <3>2, <3>3, CampaignAssumption DEF Alive
    <3>. QED  BY <3>5, <3>6, <3>7 DEF HeadFits
  <2>. QED  BY <2>3, <2>4
<1>. QED  BY <1>2, <1>3, <1>4, <1>5, <1>6, <1>7, <1>8, <1>9, <1>10 DEF Rows

\* What comes after the hand-over only counts.
LEMMA AfterHead ==
  ASSUME TypeInv, HeadFits, NEW p \in People,
         \/ Notice(p)
         \/ \E as \in {"failed", "skipped"} : GiveUp(p, as) \/ CountGivenUp(p, as) \/ GiveUpLost(p, as)
  PROVE  HeadFits'
<1>1. run \in RunType /\ UNCHANGED <<queue, batch, asked>>
  BY Types DEF Notice, GiveUp, CountGivenUp, GiveUpLost
<1>2. run'.status = run.status /\ run'.state = run.state /\ run'.head = run.head
  BY <1>1 DEF Notice, GiveUp, CountGivenUp, GiveUpLost, RunType
<1>. QED  BY <1>1, <1>2 DEF HeadFits, RunFits, WorksLater, Alive

\* A run that is to go on has a head that waits, is worked on or will be tried
\* again, whoever crashes, pauses, resumes or stops it; a batch job whose tries are
\* used up, and a resume that dies between its two writes or acts on a run it
\* read long before, are what can take it away.
THEOREM HeadAlive ==
  ASSUME HeadStands
  PROVE  Spec => []RunningHasHead
<1>1. Init => TypeInv /\ HeadFits
  <2>. SUFFICES ASSUME Init PROVE HeadFits
    BY InitType
  <2>1. /\ run.status = "none" /\ run.state = "running" /\ run.head = NoBatch /\ asked.pc = "none"
        /\ \A j \in Batches : batch[j].pc = "none"
    BY DEF Init, NoWork, NoRequest
  <2>. QED  BY <2>1 DEF HeadFits, RunFits, WorksLater, Starting, Working, Over
<1>2. TypeInv /\ HeadFits /\ [Next]_vars => (TypeInv /\ HeadFits)'
  <2>. SUFFICES ASSUME TypeInv, HeadFits, [Next]_vars PROVE HeadFits'
    BY TypeStep
  <2>1. CASE Operator
    BY <2>1, OperatorHead
  <2>2. ASSUME NEW j \in Batches, Take(j) \/ BatchStep(j) \/ Break(j) \/ Cut(j) \/ Crash(j)
        PROVE  HeadFits'
    <3>1. CASE Take(j) \/ Complete(j) \/ Cut(j) \/ Crash(j)
      BY <3>1, JobHead DEF Take, Complete, Cut, Crash
    <3>. QED  BY <2>2, <3>1, StartHead, WorkHead DEF BatchStep
  <2>3. ASSUME NEW p \in People,
               \/ Notice(p)
               \/ \E as \in {"failed", "skipped"} : GiveUp(p, as) \/ CountGivenUp(p, as) \/ GiveUpLost(p, as)
        PROVE  HeadFits'
    BY <2>3, AfterHead
  <2>4. CASE UNCHANGED vars
    BY <2>4 DEF vars, HeadFits, RunFits, WorksLater, Alive
  <2>. QED  BY <2>1, <2>2, <2>3, <2>4 DEF Next
<1>3. HeadFits => RunningHasHead
  BY DEF HeadFits, RunningHasHead, Alive
<1>. QED  BY <1>1, <1>2, <1>3, PTL DEF Spec

-----------------------------------------------------------------------------
(* The counts *)

Faults == { "skipped", "failed" }

\* What each batch settled and has not counted yet.
Ours(f) == [j \in Batches |-> batch[j][f]]
Owing(f) == { p \in People : <<p, f>> \in owed }

\* Whom the run counts as sent, and as skipped or failed.
Went == InState({"sent", "noticed"}) \cup Owing("skipped") \cup Owing("failed")
Told(f) == InState({f}) \ Owing(f)

Counted ==
  /\ run.sent = Cardinality(Went)
  /\ \A f \in Faults : run[f] + Sum(Ours(f), Batches) = Cardinality(Told(f))

\* What is owed is on the ledger; whoever works was taken from the queue; and the
\* counts of a run that goes, or went, agree with its ledger.
OwedFits == \A p \in People, f \in Faults : <<p, f>> \in owed => ledger[p].state = f
QueueFits == \A j \in Batches : queue[j] # "running" => batch[j].pc = "none"
CountsFit == OwedFits /\ QueueFits /\ (run.status \in {"running", "sent"} => Counted)

\* The sums of the counts are sums of natural numbers.
LEMMA OursSum ==
  ASSUME BatchOK, NEW f \in Faults
  PROVE  /\ IsFiniteSet(Batches)
         /\ \A j \in Batches : Ours(f)[j] = batch[j][f] /\ Ours(f)[j] \in Nat
         /\ Sum(Ours(f), Batches) \in Nat
<1>1. IsFiniteSet(Batches)
  BY CampaignAssumption
<1>2. \A j \in Batches : Ours(f)[j] = batch[j][f] /\ Ours(f)[j] \in Nat
  BY HowMany DEF Ours, BatchOK, WorkType, Faults
<1>. QED  BY <1>1, <1>2, SumNatural

\* The sum the property takes is that one.
LEMMA SettledIsSum ==
  ASSUME NEW f
  PROVE  MapThenSumSet(LAMBDA j : batch[j][f], Batches) = Sum(Ours(f), Batches)
<1> DEFINE OfBatches(g) ==
      g = [s \in SUBSET Batches |-> IF s = {} THEN 0 ELSE batch[Pick(s)][f] + g[s \ {Pick(s)}]]
<1>1. MapThenSumSet(LAMBDA j : batch[j][f], Batches) = (CHOOSE g : OfBatches(g))[Batches]
  BY DEF Pick, MapThenSumSet, MapThenFoldSet
<1>2. IsFiniteSet(Batches)
  BY CampaignAssumption
<1>3. Folds(Ours(f), Fold(Ours(f), Batches), Batches)
  BY <1>2, FoldExists
<1>4. ASSUME NEW s \in SUBSET Batches, s # {} PROVE batch[Pick(s)][f] = Ours(f)[Pick(s)]
  BY <1>4, Picked DEF Ours
<1>5. ASSUME NEW g PROVE OfBatches(g) <=> Folds(Ours(f), g, Batches)
  BY <1>4 DEF Folds
<1> HIDE DEF OfBatches
<1>6. Folds(Ours(f), CHOOSE g : OfBatches(g), Batches)
  BY <1>3, <1>5
<1>7. (CHOOSE g : OfBatches(g))[Batches] = Fold(Ours(f), Batches)[Batches]
  <2>1. Batches \in SUBSET Batches
    OBVIOUS
  <2>. QED  BY <2>1, <1>2, <1>3, <1>6, FoldsAgree
<1>. QED  BY <1>1, <1>7, SumIsFold

\* Counts that fit are what the property says of them.
LEMMA FitIsMatch == CountsFit => CountsMatch
<1>1. \A f : MapThenSumSet(LAMBDA j : batch[j][f], Batches) = Sum(Ours(f), Batches)
  BY SettledIsSum
<1>. QED  BY <1>1 DEF CountsFit, CountsMatch, Counted, Went, Told, Owing, Faults

\* The rows whose change no count shows.
RowStays(p) ==
  \/ ledger'[p].state = ledger[p].state
  \/ {ledger[p].state, ledger'[p].state} \subseteq {"absent", "queued", "sending"}

\* Rows whose change no count shows leave the counted sets as they are.
LEMMA SetsStay ==
  ASSUME OwedFits, UNCHANGED owed, \A p \in People : RowStays(p)
  PROVE  OwedFits' /\ Went' = Went /\ \A f \in Faults : Told(f)' = Told(f)
<1>1. OwedFits'
  BY DEF OwedFits, RowStays, Faults
<1>2. Went' = Went
  BY DEF Went, InState, Owing, RowStays
<1>3. ASSUME NEW f \in Faults
      PROVE  Told(f)' = Told(f)
  BY DEF Told, InState, Owing, RowStays, Faults
<1>. QED  BY <1>1, <1>2, <1>3

SameCounts == \A j \in Batches : batch'[j].skipped = batch[j].skipped /\ batch'[j].failed = batch[j].failed

\* Batches whose counts stay have the same to count.
LEMMA SumsStay ==
  ASSUME SameCounts
  PROVE  \A f \in Faults : Ours(f)' = Ours(f)
BY DEF SameCounts, Ours, Faults

\* Most steps change none of the counts.
RunStaysCounted ==
  run'.status \in {"running", "sent"} =>
    /\ run.status \in {"running", "sent"}
    /\ run'.sent = run.sent /\ run'.skipped = run.skipped /\ run'.failed = run.failed

\* A step that leaves ledger, counts and debts alone keeps the counts.
LEMMA CountsStay ==
  ASSUME CountsFit, QueueFits', UNCHANGED owed, \A p \in People : RowStays(p), SameCounts, RunStaysCounted
  PROVE  CountsFit'
<1>1. OwedFits' /\ Went' = Went /\ \A f \in Faults : Told(f)' = Told(f)
  BY SetsStay DEF CountsFit
<1>2. \A f \in Faults : Ours(f)' = Ours(f)
  BY SumsStay
<1>3. run'.status \in {"running", "sent"} => \A f \in Faults : run'[f] = run[f]
  BY DEF RunStaysCounted, Faults
<1>4. run'.status \in {"running", "sent"} => Counted'
  BY <1>1, <1>2, <1>3 DEF CountsFit, Counted, RunStaysCounted
<1>. QED  BY <1>1, <1>4 DEF CountsFit

\* A batch moves on.
LEMMA GotoCounts ==
  ASSUME BatchOK, QueueFits, NEW j \in Batches, NEW pc, Goto(j, pc), queue'[j] = "running",
         \A k \in Batches : queue'[k] = queue[k] \/ batch[k].pc = "none"
  PROVE  SameCounts /\ QueueFits'
BY DEF BatchOK, WorkType, Goto, SameCounts, QueueFits

\* A batch that has nothing to count forgets it.
LEMMA ForgetsCounts ==
  ASSUME BatchOK, NEW j \in Batches, batch[j].pc \notin {"hand", "close"}, NEW pc,
         batch' = [batch EXCEPT ![j] = [NoWork EXCEPT !.pc = pc]]
  PROVE  SameCounts
<1>1. batch[j].skipped = 0 /\ batch[j].failed = 0
  BY DEF BatchOK, WorkFits
<1>. QED  BY <1>1 DEF BatchOK, WorkType, SameCounts, NoWork

\* A batch that throws owes nothing.
LEMMA ThrowCounts ==
  ASSUME TypeInv, QueueFits, NEW j \in Batches, batch[j].pc \notin {"hand", "close"}, Throw(j)
  PROVE  SameCounts /\ QueueFits'
<1>1. batch' = [batch EXCEPT ![j] = [NoWork EXCEPT !.pc = "none"]]
  BY DEF Throw, NoWork
<1>2. SameCounts
  BY <1>1, Types, ForgetsCounts
<1>3. \A k \in Batches : k # j => batch'[k] = batch[k] /\ queue'[k] = queue[k]
  BY Types DEF Throw
<1>4. batch'[j].pc = "none"
  BY Types DEF Throw, NoWork, BatchOK
<1>. QED  BY <1>2, <1>3, <1>4 DEF QueueFits

\* The operator counts nothing.
LEMMA OperatorCounts ==
  ASSUME TypeInv, CountsFit, Operator
  PROVE  CountsFit'
<1>1. UNCHANGED <<batch, owed>> /\ (UNCHANGED ledger \/ ledger' = ReleaseClaims)
  BY DEF Operator, Send, Pause, ResumeRead, ResumeMove, ResumeQueue, ResumeLost, Stop, CancelRead, CancelWrite
<1>2. SameCounts
  BY <1>1 DEF SameCounts
<1>3. \A p \in People : RowStays(p)
  BY <1>1 DEF RowStays, ReleaseClaims, Queued
<1>4. \/ UNCHANGED queue
      \/ \E k \in Batches : queue' = [queue EXCEPT ![k] = "pending"] /\ batch[k].pc = "none"
      \/ \E k \in Batches : queue' = [queue EXCEPT ![k] = "ended"] /\ queue[k] = "pending"
  <2>1. CASE Send \/ ResumeQueue
    BY <2>1 DEF Send, ResumeQueue, Unused
  <2>2. CASE ResumeRead \/ ResumeMove \/ ResumeLost \/ CancelRead
    BY <2>2 DEF ResumeRead, ResumeMove, ResumeLost, CancelRead
  <2>3. ASSUME NEW k \in Batches \cup {NoBatch}, CancelWaiting(k)
        PROVE  UNCHANGED queue \/ (k \in Batches /\ queue' = [queue EXCEPT ![k] = "ended"] /\ queue[k] = "pending")
    BY <2>3 DEF CancelWaiting
  <2>4. run.head \in Batches \cup {NoBatch} /\ asked.head \in Batches \cup {NoBatch}
    BY Types DEF RunType, AskType
  <2>5. CASE Pause \/ Stop \/ CancelWrite
    BY <2>3, <2>4, <2>5 DEF Pause, Stop, CancelWrite
  <2>. QED  BY <2>1, <2>2, <2>5 DEF Operator
<1>5. QueueFits'
  BY <1>1, <1>4, Types DEF CountsFit, QueueFits
<1>6. RunStaysCounted
  <2>1. run \in RunType
    BY Types
  <2>2. CASE Send \/ Stop \/ CancelWrite
    <3>1. run'.status \in {"scheduled", "cancelled"}
      BY <2>1, <2>2 DEF Send, Stop, CancelWrite, RunType
    <3>. QED  BY <3>1 DEF RunStaysCounted
  <2>3. CASE Pause \/ ResumeRead \/ ResumeMove \/ ResumeQueue \/ ResumeLost \/ CancelRead
    BY <2>1, <2>3 DEF Pause, ResumeRead, ResumeMove, ResumeQueue, ResumeLost, CancelRead, RunStaysCounted, RunType
  <2>. QED  BY <2>2, <2>3 DEF Operator
<1>. QED  BY <1>1, <1>2, <1>3, <1>5, <1>6, CountsStay

\* Nobody is at work on a job that waits.
LEMMA TakeCounts ==
  ASSUME TypeInv, CountsFit, NEW j \in Batches, Take(j)
  PROVE  CountsFit'
<1>1. batch[j].pc = "none"
  BY DEF Take, At, CountsFit, QueueFits
<1>2. SameCounts
  BY <1>1, Types, ForgetsCounts DEF Take
<1>3. QueueFits'
  BY Types DEF Take, CountsFit, QueueFits, BatchOK
<1>. QED  BY <1>2, <1>3, CountsStay DEF Take, RowStays, RunStaysCounted

\* What a batch does to its execution and the queue where it counts nothing: it
\* moves on, and may queue a successor; it claims; it throws.
Quiet(j) ==
  \/ UNCHANGED queue /\ \E pc, mine : batch' = [batch EXCEPT ![j].pc = pc, ![j].mine = mine]
  \/ /\ \E pc : Goto(j, pc)
     /\ UNCHANGED queue \/ \E k \in Batches : Unused(k) /\ queue' = [queue EXCEPT ![k] = "pending"]
  \/ batch[j].pc \notin {"hand", "close"} /\ Throw(j)

\* The steps that count nothing and mark nothing.
LEMMA QuietCounts ==
  ASSUME TypeInv, CountsFit, NEW j \in Batches, queue[j] = "running", Quiet(j),
         UNCHANGED owed, \A p \in People : RowStays(p), RunStaysCounted
  PROVE  CountsFit'
<1>1. SameCounts /\ QueueFits'
  <2>1. ASSUME NEW pc, NEW mine, UNCHANGED queue, batch' = [batch EXCEPT ![j].pc = pc, ![j].mine = mine]
        PROVE  SameCounts /\ QueueFits'
    BY <2>1, Types DEF CountsFit, QueueFits, SameCounts, BatchOK, WorkType
  <2>2. ASSUME NEW pc, Goto(j, pc),
               UNCHANGED queue \/ \E k \in Batches : Unused(k) /\ queue' = [queue EXCEPT ![k] = "pending"]
        PROVE  SameCounts /\ QueueFits'
    <3>1. queue'[j] = "running" /\ \A k \in Batches : queue'[k] = queue[k] \/ batch[k].pc = "none"
      BY <2>2, Types DEF Unused
    <3>. QED  BY <2>2, <3>1, Types, GotoCounts DEF CountsFit
  <2>3. CASE batch[j].pc \notin {"hand", "close"} /\ Throw(j)
    BY <2>3, ThrowCounts DEF CountsFit
  <2>. QED  BY <2>1, <2>2, <2>3 DEF Quiet
<1>. QED  BY <1>1, CountsStay

\* A batch that moves on and nothing else.
LEMMA GoesQuietly ==
  ASSUME TypeInv, CountsFit, NEW j \in Batches, queue[j] = "running", NEW pc, Goto(j, pc),
         UNCHANGED <<queue, owed>>, \A p \in People : RowStays(p), RunStaysCounted
  PROVE  CountsFit'
<1>1. Quiet(j)
  BY Zenon DEF Quiet
<1>. QED  BY <1>1, QuietCounts

\* The counts of a run that starts are those of a ledger nobody touched.
LEMMA FreshCounts ==
  ASSUME TypeInv, IInv, CountsFit, NEW j \in Batches, batch[j].pc \in Starting
  PROVE  /\ Went = {} /\ \A f \in Faults : Told(f) = {}
         /\ \A f \in Faults : Sum(Ours(f), Batches) = 0
<1>1. /\ \A k \in Batches : batch[k].pc \notin Working
      /\ \A p \in People : ledger[p].state \in {"absent", "queued"}
  BY StartsAlone DEF Untouched
<1>2. \A f \in Faults : Owing(f) = {}
  BY <1>1 DEF CountsFit, OwedFits, Owing, Faults
<1>3. Went = {} /\ \A f \in Faults : Told(f) = {}
  BY <1>1, <1>2 DEF Went, Told, InState, Faults
<1>4. ASSUME NEW f \in Faults
      PROVE  Sum(Ours(f), Batches) = 0
  <2>1. \A k \in Batches : Ours(f)[k] = 0
    BY <1>1, Types DEF BatchOK, WorkFits, Working, Ours, Faults
  <2>2. IsFiniteSet(Batches)
    BY CampaignAssumption
  <2>. QED  BY <2>1, <2>2, SumOfZeroes
<1>. QED  BY <1>3, <1>4

\* The batch that starts the run.
LEMMA StartCounts ==
  ASSUME TypeInv, IInv, CountsFit, NEW j \in Batches, Begin(j) \/ Starts(j)
  PROVE  CountsFit'
<1>1. queue[j] = "running" /\ UNCHANGED owed
  BY DEF Begin, Starts, StartRefused, Clear, Freeze, Write, StartRun, Undo, At
<1>2. CASE Begin(j)
  <2>1. \E pc : Goto(j, pc)
    BY <1>2 DEF Begin
  <2>. QED  BY <1>1, <1>2, <2>1, GoesQuietly DEF Begin, RowStays, RunStaysCounted
<1>3. CASE StartRefused(j)
  <2>1. run'.status = "failed"
    BY <1>3, Types DEF StartRefused, RunType
  <2>. QED  BY <1>1, <1>3, <2>1, GoesQuietly DEF StartRefused, RowStays, RunStaysCounted
<1>4. CASE Clear(j) \/ Undo(j)
  <2>1. batch[j].pc \in Starting
    BY <1>4 DEF Clear, Undo, At, Starting
  <2>2. \A p \in People : ledger[p].state \in {"absent", "queued"}
    BY <2>1, StartsAlone DEF Untouched
  <2>3. \A p \in People : RowStays(p)
    BY <1>4, <2>2 DEF Clear, Undo, RowStays, Absent
  <2>4. \E pc : Goto(j, pc)
    BY <1>4 DEF Clear, Undo
  <2>. QED  BY <1>1, <1>4, <2>3, <2>4, GoesQuietly DEF Clear, Undo, RunStaysCounted
<1>5. CASE Freeze(j)
  <2>1. Quiet(j)
    BY <1>5 DEF Freeze, At, Quiet
  <2>. QED  BY <1>1, <1>5, <2>1, QuietCounts DEF Freeze, RowStays, RunStaysCounted
<1>6. CASE Write(j)
  <2>1. Quiet(j)
    <3>1. CASE Throw(j)
      BY <1>6, <3>1 DEF Write, At, Quiet
    <3>2. CASE ~Throw(j)
      <4>1. UNCHANGED queue /\ \E mine : batch' = [batch EXCEPT ![j].mine = mine]
        BY <1>6, <3>2 DEF Write
      <4>2. batch \in [Batches -> WorkType]
        BY Types DEF BatchOK
      <4>3. ASSUME NEW mine PROVE [batch EXCEPT ![j].mine = mine] = [batch EXCEPT ![j].pc = batch[j].pc, ![j].mine = mine]
        BY <4>2 DEF WorkType
      <4>4. PICK mine : batch' = [batch EXCEPT ![j].mine = mine]
        BY <4>1
      <4>5. batch' = [batch EXCEPT ![j].pc = batch[j].pc, ![j].mine = mine]
        BY <4>3, <4>4
      <4>. QED  BY <4>1, <4>5, Zenon DEF Quiet
    <3>. QED  BY <3>1, <3>2
  <2>2. \A p \in People : RowStays(p)
    <3>1. \A p \in People : ledger'[p] = ledger[p] \/ (ledger[p] = Absent /\ ledger'[p] = Queued)
      BY <1>6, Types DEF Write
    <3>. QED  BY <3>1 DEF RowStays, Absent, Queued
  <2>. QED  BY <1>1, <1>6, <2>1, <2>2, QuietCounts DEF Write, RunStaysCounted
<1>7. CASE StartRun(j)
  <2>1. \A p \in People : RowStays(p)
    BY <1>7 DEF StartRun, RowStays
  <2>2. CASE UNCHANGED run
    <3>1. \E pc : Goto(j, pc)
      BY <1>7 DEF StartRun
    <3>. QED  BY <1>1, <1>7, <2>1, <2>2, <3>1, GoesQuietly DEF StartRun, RunStaysCounted
  <2>3. CASE ~UNCHANGED run
    <3>1. /\ run' = [run EXCEPT !.status = "running", !.sent = 0, !.failed = 0, !.skipped = 0]
          /\ Goto(j, "check") /\ UNCHANGED <<queue, ledger>>
      BY <1>7, <2>3 DEF StartRun
    <3>2. run'.sent = 0 /\ \A f \in Faults : run'[f] = 0
      BY <3>1, Types DEF RunType, Faults
    <3>3. SameCounts /\ QueueFits'
      BY <1>1, <3>1, Types, GotoCounts DEF CountsFit
    <3>4. Went' = Went /\ (\A f \in Faults : Told(f)' = Told(f)) /\ OwedFits'
      BY <1>1, <2>1, SetsStay DEF CountsFit
    <3>5. \A f \in Faults : Ours(f)' = Ours(f)
      BY <3>3, SumsStay
    <3>6. batch[j].pc \in Starting
      BY <1>7 DEF StartRun, At, Starting
    <3>7. Went' = {} /\ \A f \in Faults : Told(f)' = {} /\ Sum(Ours(f), Batches)' = 0
      BY <3>4, <3>5, <3>6, FreshCounts
    <3>8. Counted'
      <4>1. run'.sent = Cardinality(Went')
        BY <3>2, <3>7, HowMany
      <4>2. ASSUME NEW f \in Faults
            PROVE  run'[f] + Sum(Ours(f), Batches)' = Cardinality(Told(f)')
        <5>1. run'[f] = 0
          BY <3>2
        <5>2. Told(f)' = {}
          BY <3>7
        <5>3. Sum(Ours(f), Batches)' = 0
          BY <3>7
        <5>. QED  BY <5>1, <5>2, <5>3, HowMany
      <4>. QED  BY <4>1, <4>2, Zenon DEF Counted
    <3>. QED  BY <3>3, <3>4, <3>8 DEF CountsFit
  <2>. QED  BY <2>2, <2>3
<1>. QED  BY <1>2, <1>3, <1>4, <1>5, <1>6, <1>7 DEF Starts

\* A batch at work, but for its rows and its close.
LEMMA WorkCounts ==
  ASSUME TypeInv, CountsFit, NEW j \in Batches,
         \/ Check(j) \/ Refuse(j) \/ CapFull(j) \/ ClaimSelect(j) \/ Claim(j)
         \/ Decide(j) \/ Finish(j) \/ QueueNext(j) \/ Break(j)
  PROVE  CountsFit'
<1>1. queue[j] = "running" /\ UNCHANGED owed
  BY DEF Check, Refuse, CapFull, ClaimSelect, Claim, Decide, Finish, QueueNext, Break, At
<1>2. CASE Check(j)
  <2>1. \A p \in People : RowStays(p)
    BY <1>2 DEF Check, RowStays, ReleaseClaims, Queued
  <2>2. \E pc : Goto(j, pc)
    BY <1>2 DEF Check
  <2>. QED  BY <1>1, <1>2, <2>1, <2>2, GoesQuietly DEF Check, RunStaysCounted
<1>3. CASE Refuse(j) \/ Finish(j)
  <2>1. RunStaysCounted
    BY <1>3, Types DEF Refuse, Finish, RunStaysCounted, RunType
  <2>. QED  BY <1>1, <1>3, <2>1, GoesQuietly DEF Refuse, Finish, RowStays
<1>4. CASE CapFull(j) \/ Decide(j) \/ Break(j)
  <2>1. \E pc : Goto(j, pc)
    BY <1>4 DEF CapFull, Decide, Break
  <2>. QED  BY <1>1, <1>4, <2>1, GoesQuietly DEF CapFull, Decide, Break, RowStays, RunStaysCounted
<1>5. CASE ClaimSelect(j)
  <2>1. Quiet(j)
    BY <1>5 DEF ClaimSelect, Quiet
  <2>. QED  BY <1>1, <1>5, <2>1, QuietCounts DEF ClaimSelect, RowStays, RunStaysCounted
<1>6. CASE Claim(j)
  <2>1. Quiet(j)
    BY <1>6 DEF Claim, At, Quiet
  <2>2. \A p \in People : RowStays(p)
    BY <1>6 DEF Claim, RowStays, InState
  <2>. QED  BY <1>1, <1>6, <2>1, <2>2, QuietCounts DEF Claim, RunStaysCounted
<1>7. CASE QueueNext(j)
  <2>1. Quiet(j)
    BY <1>7 DEF QueueNext, Quiet
  <2>2. RunStaysCounted
    BY <1>7, Types DEF QueueNext, RunStaysCounted, RunType
  <2>. QED  BY <1>1, <1>7, <2>1, <2>2, QuietCounts DEF QueueNext, RowStays
<1>. QED  BY <1>2, <1>3, <1>4, <1>5, <1>6, <1>7

\* A job ends when its batch did its part.
LEMMA CompleteCounts ==
  ASSUME TypeInv, CountsFit, NEW j \in Batches, Complete(j)
  PROVE  CountsFit'
<1>1. batch' = [batch EXCEPT ![j] = [NoWork EXCEPT !.pc = "none"]] /\ batch[j].pc \notin {"hand", "close"}
  BY DEF Complete, At, NoWork
<1>2. SameCounts
  BY <1>1, Types, ForgetsCounts
<1>3. \A k \in Batches : /\ k # j => batch'[k] = batch[k] /\ queue'[k] = queue[k]
                         /\ k = j => batch'[k].pc = "none"
  BY <1>1, Types DEF Complete, BatchOK, NoWork
<1>4. QueueFits'
  BY <1>3 DEF CountsFit, QueueFits
<1>. QED  BY <1>2, <1>4, CountsStay DEF Complete, RowStays, RunStaysCounted

\* One person more.
LEMMA OneMore ==
  ASSUME NEW S \in SUBSET People, NEW p \in People \ S
  PROVE  /\ Cardinality(S) \in Nat /\ Cardinality(S) < Cardinality(People)
         /\ Cardinality(S \cup {p}) = Cardinality(S) + 1
<1>1. S \cup {p} \in SUBSET People /\ p \in S \cup {p} /\ (S \cup {p}) \ {p} = S
  OBVIOUS
<1>2. Cardinality(S) = Cardinality(S \cup {p}) - 1
  BY <1>1, OneLess
<1>3. Cardinality(S) \in Count /\ Cardinality(S \cup {p}) \in Count
  BY <1>1, HowMany
<1>. QED  BY <1>2, <1>3, HowMany

\* Those who went out, and those told a fault, are people.
LEMMA SetsOfPeople == Went \in SUBSET People /\ \A f \in Faults : Told(f) \in SUBSET People
BY DEF Went, Told, InState, Owing

\* The sum of the counts, where one batch's count changes.
LEMMA OneCount ==
  ASSUME BatchOK, BatchOK', NEW f \in Faults, NEW j \in Batches,
         \A k \in Batches \ {j} : batch'[k] = batch[k]
  PROVE  /\ Sum(Ours(f), Batches)' + batch[j][f] = Sum(Ours(f), Batches) + batch'[j][f]
         /\ Sum(Ours(f), Batches) \in Nat /\ Sum(Ours(f), Batches)' \in Nat
         /\ batch[j][f] \in Nat /\ batch'[j][f] \in Nat /\ batch[j][f] <= Sum(Ours(f), Batches)
<1>1. IsFiniteSet(Batches)
  BY CampaignAssumption
<1>2. \A k \in Batches : Ours(f)[k] = batch[k][f] /\ Ours(f)[k] \in Nat
  BY OursSum
<1>3. \A k \in Batches : Ours(f)'[k] = batch'[k][f] /\ Ours(f)'[k] \in Nat
  BY HowMany DEF Ours, BatchOK, WorkType, Faults
<1>4. Sum(Ours(f)', Batches) + Ours(f)[j] = Sum(Ours(f), Batches) + Ours(f)'[j]
  <2>1. \A k \in Batches \ {j} : Ours(f)'[k] = Ours(f)[k]
    BY <1>2, <1>3
  <2>. QED  BY <1>1, <1>2, <1>3, <2>1, SumChanged
<1>5. Sum(Ours(f), Batches) \in Nat /\ Sum(Ours(f)', Batches) \in Nat /\ Ours(f)[j] <= Sum(Ours(f), Batches)
  BY <1>1, <1>2, <1>3, SumNatural, SumHasEach
<1>. QED  BY <1>2, <1>3, <1>4, <1>5

\* A claimed row is settled.
LEMMA SettlesOne ==
  ASSUME TypeInv, OwedFits, NEW j \in Batches, NEW p \in People, Holds(j, p),
         NEW s \in {"sent"} \cup Faults, ledger' = Settle(j, p, s), UNCHANGED owed
  PROVE  /\ OwedFits'
         /\ p \notin Went /\ \A f \in Faults : p \notin Told(f)
         /\ Went' = IF s = "sent" THEN Went \cup {p} ELSE Went
         /\ \A f \in Faults : Told(f)' = IF s = f THEN Told(f) \cup {p} ELSE Told(f)
<1>1. /\ ledger[p].state = "sending" /\ ledger'[p].state = s
      /\ \A q \in People : q # p => ledger'[q] = ledger[q]
  BY Types DEF Holds, Settle
<1>2. \A f \in Faults : p \notin Owing(f) /\ Owing(f)' = Owing(f)
  BY <1>1 DEF OwedFits, Owing, Faults
<1>3. OwedFits'
  BY <1>1 DEF OwedFits, Faults
<1>4. p \notin Went /\ \A f \in Faults : p \notin Told(f)
  BY <1>1, <1>2 DEF Went, Told, InState, Faults
<1>5. InState({"sent", "noticed"})' = InState({"sent", "noticed"}) \cup (IF s = "sent" THEN {p} ELSE {})
  BY <1>1 DEF InState, Faults
<1>6. \A f \in Faults : InState({f})' = InState({f}) \cup (IF s = f THEN {p} ELSE {})
  BY <1>1 DEF InState, Faults
<1>7. Went' = IF s = "sent" THEN Went \cup {p} ELSE Went
  BY <1>2, <1>5 DEF Went, Faults
<1>8. ASSUME NEW f \in Faults
      PROVE  Told(f)' = IF s = f THEN Told(f) \cup {p} ELSE Told(f)
  BY <1>2, <1>6 DEF Told
<1>. QED  BY <1>3, <1>4, <1>7, <1>8

\* What a step at a row leaves alone.
LEMMA RowFrame ==
  ASSUME TypeInv, CountsFit, NEW j \in Batches, NEW p \in People,
         HandOver(j, p) \/ Skip(j, p) \/ FailRow(j, p)
  PROVE  /\ QueueFits' /\ UNCHANGED <<queue, owed>>
         /\ \A k \in Batches \ {j} : batch'[k] = batch[k]
         /\ run'.status = run.status /\ run'.skipped = run.skipped /\ run'.failed = run.failed
<1>1. UNCHANGED <<queue, owed>> /\ queue[j] = "running"
  BY DEF HandOver, Skip, FailRow, AtRow, At
<1>2. \A k \in Batches \ {j} : batch'[k] = batch[k]
  BY Types DEF HandOver, Skip, FailRow, BatchOK
<1>3. QueueFits'
  BY <1>1, <1>2 DEF CountsFit, QueueFits
<1>4. run'.status = run.status /\ run'.skipped = run.skipped /\ run'.failed = run.failed
  <2>1. run' = run \/ \E n : run' = [run EXCEPT !.sent = n]
    BY DEF HandOver, Skip, FailRow
  <2>. QED  BY <2>1, Types DEF RunType
<1>. QED  BY <1>1, <1>2, <1>3, <1>4

\* Handed over: counted, with its message and its mark.
LEMMA HandCounts ==
  ASSUME TypeInv, CountsFit, NEW j \in Batches, NEW p \in People, HandOver(j, p)
  PROVE  CountsFit'
<1>1. SameCounts
  BY Types DEF HandOver, SameCounts, BatchOK, WorkType
<1>2. CASE Hands(j, p)
  <2>1. Holds(j, p) /\ ledger' = Settle(j, p, "sent") /\ UNCHANGED owed
    BY <1>2 DEF HandOver, Hands
  <2>2. /\ OwedFits' /\ p \notin Went /\ Went' = Went \cup {p}
        /\ \A f \in Faults : Told(f)' = Told(f)
    BY <2>1, SettlesOne DEF CountsFit, Faults
  <2>3. /\ run' = [run EXCEPT !.sent = IF @ < Cardinality(People) THEN @ + 1 ELSE @]
        /\ run \in RunType
    BY <1>2, Types DEF HandOver
  <2>4. Cardinality(Went') = Cardinality(Went) + 1 /\ Cardinality(Went) < Cardinality(People)
    BY <2>2, SetsOfPeople, OneMore
  <2>5. run.status \in {"running", "sent"} => run'.sent = Cardinality(Went')
    BY <2>3, <2>4 DEF CountsFit, Counted, RunType
  <2>6. \A f \in Faults : Ours(f)' = Ours(f) /\ run'[f] = run[f]
    BY <1>1, SumsStay, RowFrame DEF Faults
  <2>7. run'.status \in {"running", "sent"} => Counted'
    BY <2>2, <2>5, <2>6, RowFrame DEF CountsFit, Counted
  <2>. QED  BY <2>2, <2>7, RowFrame DEF CountsFit
<1>3. CASE ~Hands(j, p)
  <2>1. UNCHANGED <<run, ledger>>
    BY <1>3 DEF HandOver
  <2>. QED  BY <1>1, <2>1, RowFrame, CountsStay DEF RowStays, RunStaysCounted
<1>. QED  BY <1>2, <1>3

\* Skipped or failed: the batch keeps the count.
LEMMA SettleCounts ==
  ASSUME TypeInv, BatchOK', CountsFit, NEW j \in Batches, NEW p \in People, Skip(j, p) \/ FailRow(j, p)
  PROVE  CountsFit'
<1>1. UNCHANGED run
  BY DEF Skip, FailRow
<1>2. CASE Holds(j, p)
  <2>1. PICK s \in Faults :
          /\ ledger' = Settle(j, p, s)
          /\ batch'[j][s] = batch[j][s] + 1
          /\ \A f \in Faults : f # s => batch'[j][f] = batch[j][f]
    <3>1. CASE Skip(j, p)
      BY <1>2, <3>1, Types DEF Skip, BatchOK, WorkType, Faults
    <3>2. CASE FailRow(j, p)
      BY <1>2, <3>2, Types DEF FailRow, BatchOK, WorkType, Faults
    <3>. QED  BY <3>1, <3>2
  <2>2. /\ OwedFits' /\ Went' = Went
        /\ \A f \in Faults : p \notin Told(f) /\ Told(f)' = IF s = f THEN Told(f) \cup {p} ELSE Told(f)
    BY <1>2, <2>1, RowFrame, SettlesOne DEF CountsFit, Faults
  <2>3. ASSUME NEW f \in Faults, run.status \in {"running", "sent"}
        PROVE  run[f] + Sum(Ours(f), Batches)' = Cardinality(Told(f)')
    <3>1. /\ Sum(Ours(f), Batches)' + batch[j][f] = Sum(Ours(f), Batches) + batch'[j][f]
          /\ Sum(Ours(f), Batches) \in Nat /\ Sum(Ours(f), Batches)' \in Nat /\ batch[j][f] \in Nat
      BY RowFrame, Types, OneCount
    <3>2. run[f] \in Nat /\ run[f] + Sum(Ours(f), Batches) = Cardinality(Told(f))
      BY <2>3, Types, HowMany DEF CountsFit, Counted, Faults, RunType
    <3>3. CASE f = s
      <4>1. Cardinality(Told(f)') = Cardinality(Told(f)) + 1 /\ Cardinality(Told(f)) \in Nat
        BY <2>2, <3>3, SetsOfPeople, OneMore
      <4>. QED  BY <2>1, <3>1, <3>2, <3>3, <4>1
    <3>4. CASE f # s
      BY <2>1, <2>2, <3>1, <3>2, <3>4
    <3>. QED  BY <3>3, <3>4
  <2>4. run'.status \in {"running", "sent"} => Counted'
    BY <1>1, <2>2, <2>3 DEF CountsFit, Counted
  <2>. QED  BY <2>2, <2>4, RowFrame DEF CountsFit
<1>3. CASE ~Holds(j, p)
  <2>1. UNCHANGED ledger /\ SameCounts
    BY <1>3, Types DEF Skip, FailRow, Settle, SameCounts, BatchOK, WorkType
  <2>. QED  BY <1>1, <2>1, RowFrame, CountsStay DEF RowStays, RunStaysCounted
<1>. QED  BY <1>2, <1>3

\* The batch's counts move to the run.
LEMMA CloseCounts ==
  ASSUME TypeInv, BatchOK', CountsFit, NEW j \in Batches, Close(j)
  PROVE  CountsFit'
<1>1. UNCHANGED <<owed, queue>> /\ queue[j] = "running" /\ ledger' = UnclaimAll(j) /\ run' = CountSettled(j)
  BY DEF Close, At
<1>2. /\ \A k \in Batches \ {j} : batch'[k] = batch[k]
      /\ \A f \in Faults : batch'[j][f] = 0
  BY Types DEF Close, BatchOK, NoWork, Faults
<1>3. QueueFits'
  BY <1>1, <1>2 DEF CountsFit, QueueFits
<1>4. ASSUME NEW p \in People
      PROVE  RowStays(p)
  <2>1. Holds(j, p) => ledger[p].state = "sending"
    BY DEF Holds
  <2>2. ledger'[p] = IF Holds(j, p) THEN Queued ELSE ledger[p]
    BY <1>1 DEF UnclaimAll
  <2>. QED  BY <2>1, <2>2 DEF RowStays, Queued
<1>5. OwedFits' /\ Went' = Went /\ \A f \in Faults : Told(f)' = Told(f)
  BY <1>1, <1>4, SetsStay DEF CountsFit
<1>6. /\ run'.status = run.status /\ run'.sent = run.sent
      /\ \A f \in Faults : run'[f] = IF run[f] + batch[j][f] <= Cardinality(People)
                                     THEN run[f] + batch[j][f] ELSE Cardinality(People)
  BY <1>1, Types DEF CountSettled, RunType, Faults
<1>7. ASSUME NEW f \in Faults, run.status \in {"running", "sent"}
      PROVE  run'[f] + Sum(Ours(f), Batches)' = Cardinality(Told(f)')
  <2>1. /\ Sum(Ours(f), Batches)' + batch[j][f] = Sum(Ours(f), Batches)
        /\ Sum(Ours(f), Batches) \in Nat /\ Sum(Ours(f), Batches)' \in Nat
        /\ batch[j][f] \in Nat /\ batch[j][f] <= Sum(Ours(f), Batches)
    BY <1>2, Types, OneCount
  <2>2. run[f] \in Nat /\ run[f] + Sum(Ours(f), Batches) = Cardinality(Told(f))
    BY <1>7, Types, HowMany DEF CountsFit, Counted, Faults, RunType
  <2>3. Cardinality(Told(f)) <= Cardinality(People) /\ Cardinality(People) \in Nat
    BY SetsOfPeople, HowMany
  <2>4. run'[f] = run[f] + batch[j][f]
    BY <1>6, <2>1, <2>2, <2>3
  <2>5. Told(f)' = Told(f)
    BY <1>5
  <2>. QED  BY <2>1, <2>2, <2>4, <2>5
<1>8. run'.status \in {"running", "sent"} => Counted'
  BY <1>5, <1>6, <1>7 DEF CountsFit, Counted
<1>. QED  BY <1>3, <1>5, <1>8 DEF CountsFit

\* A give-up, and a word about a message that went, change the ledger only.
LEMMA GivenUpCounts ==
  ASSUME TypeInv, CountsFit, NEW p \in People, Notice(p) \/ \E as \in Faults : GiveUp(p, as)
  PROVE  CountsFit'
<1>1. UNCHANGED <<run, queue, batch>> /\ ledger[p].state = "sent"
  BY DEF Notice, GiveUp
<1>2. \A f \in Faults : p \notin Owing(f)
  BY <1>1 DEF CountsFit, OwedFits, Owing, Faults
<1>3. \A q \in People : q # p => ledger'[q] = ledger[q]
  BY Types DEF Notice, GiveUp
<1>4. OwedFits' /\ Went' = Went /\ \A f \in Faults : Told(f)' = Told(f)
  <2>1. CASE Notice(p)
    <3>1. ledger'[p].state = "noticed" /\ UNCHANGED owed
      BY <2>1, Types DEF Notice, RowType
    <3>2. OwedFits'
      BY <1>1, <1>3, <3>1 DEF CountsFit, OwedFits, Faults
    <3>3. Went' = Went
      BY <1>1, <1>3, <3>1 DEF Went, InState, Owing
    <3>4. \A f \in Faults : Told(f)' = Told(f)
      BY <1>1, <1>3, <3>1 DEF Told, InState, Owing, Faults
    <3>. QED  BY <3>2, <3>3, <3>4
  <2>2. ASSUME NEW as \in Faults, GiveUp(p, as)
        PROVE  OwedFits' /\ Went' = Went /\ \A f \in Faults : Told(f)' = Told(f)
    <3>1. ledger'[p].state = as /\ owed' = owed \cup {<<p, as>>}
      BY <2>2, Types DEF GiveUp, RowType
    <3>2. OwedFits'
      BY <1>1, <1>3, <3>1 DEF CountsFit, OwedFits, Faults
    <3>3. \A f \in Faults : Owing(f)' = IF f = as THEN Owing(f) \cup {p} ELSE Owing(f)
      BY <3>1 DEF Owing
    <3>4. InState({"sent", "noticed"}) = InState({"sent", "noticed"})' \cup {p}
      BY <1>1, <1>3, <3>1 DEF InState, Faults
    <3>5. Went' = Went
      BY <3>3, <3>4 DEF Went, Faults
    <3>6. \A f \in Faults : InState({f})' = IF f = as THEN InState({f}) \cup {p} ELSE InState({f})
      BY <1>1, <1>3, <3>1 DEF InState, Faults
    <3>7. ASSUME NEW f \in Faults
          PROVE  Told(f)' = Told(f)
      <4>1. p \notin InState({f})
        BY <1>1 DEF InState, Faults
      <4>. QED  BY <3>3, <3>6, <4>1 DEF Told
    <3>. QED  BY <3>2, <3>5, <3>7
  <2>. QED  BY <2>1, <2>2
<1>5. \A f \in Faults : Ours(f)' = Ours(f)
  BY <1>1 DEF Ours
<1>6. Counted => Counted'
  BY <1>1, <1>4, <1>5 DEF Counted
<1>. QED  BY <1>1, <1>4, <1>6 DEF CountsFit, QueueFits

\* The run counts a give-up: one fewer was sent.
LEMMA OwedCounts ==
  ASSUME TypeInv, CountsFit, NEW p \in People, NEW as \in Faults, CountGivenUp(p, as)
  PROVE  CountsFit'
<1>1. /\ UNCHANGED <<ledger, queue, batch>>
      /\ <<p, as>> \in owed /\ owed' = owed \ {<<p, as>>} /\ ledger[p].state = as
  BY DEF CountGivenUp, CountsFit, OwedFits
<1>2. OwedFits' /\ QueueFits'
  BY <1>1 DEF CountsFit, OwedFits, QueueFits
<1>3. \A f \in Faults : /\ p \in Owing(f) <=> f = as
                        /\ Owing(f)' = Owing(f) \ {p}
  BY <1>1 DEF CountsFit, OwedFits, Owing, Faults
<1>4. /\ p \in Went /\ Went' = Went \ {p}
      /\ \A f \in Faults : /\ f = as => p \notin Told(f) /\ Told(f)' = Told(f) \cup {p}
                           /\ f # as => Told(f)' = Told(f)
  <2>1. \A s : InState(s)' = InState(s)
    BY <1>1 DEF InState
  <2>2. p \notin InState({"sent", "noticed"}) /\ \A f \in Faults : p \in InState({f}) <=> f = as
    BY <1>1 DEF InState, Faults
  <2>3. p \in Went /\ Went' = Went \ {p}
    BY <1>3, <2>1, <2>2 DEF Went, Faults
  <2>4. ASSUME NEW f \in Faults
        PROVE  /\ f = as => p \notin Told(f) /\ Told(f)' = Told(f) \cup {p}
               /\ f # as => Told(f)' = Told(f)
    BY <1>3, <2>1, <2>2 DEF Told
  <2>. QED  BY <2>3, <2>4
<1>5. /\ run'.status = run.status
      /\ run'.sent = IF run.sent > 0 THEN run.sent - 1 ELSE 0
      /\ run'[as] = IF run[as] < Cardinality(People) THEN run[as] + 1 ELSE run[as]
      /\ \A f \in Faults \ {as} : run'[f] = run[f]
  BY Types DEF CountGivenUp, RunType, Faults
<1>6. \A f \in Faults : Ours(f)' = Ours(f)
  BY <1>1 DEF Ours
<1>7. ASSUME run.status \in {"running", "sent"}
      PROVE  Counted'
  <2>1. run'.sent = Cardinality(Went')
    <3>1. Went \in SUBSET People /\ Went \ {p} \in SUBSET People /\ p \in Went
      BY <1>4, SetsOfPeople
    <3>2. Cardinality(Went \ {p}) = Cardinality(Went) - 1
      BY <3>1, OneLess
    <3>3. Cardinality(Went \ {p}) \in Nat /\ Cardinality(Went) \in Nat
      BY <3>1, HowMany
    <3>4. run.sent = Cardinality(Went)
      BY <1>7 DEF CountsFit, Counted
    <3>5. run'.sent = Cardinality(Went \ {p})
      BY <1>5, <3>2, <3>3, <3>4
    <3>. QED  BY <1>4, <3>5
  <2>2. ASSUME NEW f \in Faults
        PROVE  run'[f] + Sum(Ours(f), Batches)' = Cardinality(Told(f)')
    <3>1. run[f] \in Nat /\ run[f] + Sum(Ours(f), Batches) = Cardinality(Told(f))
      BY <1>7, Types, HowMany DEF CountsFit, Counted, Faults, RunType
    <3>2. Sum(Ours(f), Batches)' = Sum(Ours(f), Batches) /\ Sum(Ours(f), Batches) \in Nat
      BY <1>6, Types, OursSum
    <3>3. CASE f = as
      <4>1. /\ Cardinality(Told(f)') = Cardinality(Told(f)) + 1
            /\ Cardinality(Told(f)) < Cardinality(People) /\ Cardinality(People) \in Nat
        BY <1>4, <3>3, SetsOfPeople, OneMore, HowMany
      <4>2. run[f] < Cardinality(People)
        BY <3>1, <3>2, <4>1
      <4>3. run'[f] = run[f] + 1
        BY <1>5, <3>3, <4>2
      <4>. QED  BY <3>1, <3>2, <4>1, <4>3
    <3>4. CASE f # as
      <4>1. Told(f)' = Told(f) /\ run'[f] = run[f]
        BY <1>4, <1>5, <3>4
      <4>. QED  BY <3>1, <3>2, <4>1
    <3>. QED  BY <3>3, <3>4
  <2>. QED  BY <2>1, <2>2, Zenon DEF Counted
<1>. QED  BY <1>2, <1>5, <1>7 DEF CountsFit

\* Every step of a run keeps the counts, if nothing dies between a row and its count.
LEMMA CountsStep ==
  ASSUME "crash" \notin Events, "cut" \notin Events
  PROVE  TypeInv /\ IInv /\ CountsFit /\ [Next]_vars => CountsFit'
<1>. SUFFICES ASSUME TypeInv, IInv, CountsFit, [Next]_vars PROVE CountsFit'
  OBVIOUS
<1>1. BatchOK'
  <2>1. TypeInv'
    BY TypeStep
  <2>2. \A j \in Batches : WorkFits(j)'
    BY <2>1 DEF TypeInv
  <2>3. batch' \in [Batches -> WorkType]
    BY <2>1, Zenon DEF TypeInv, TypeOK, WorkType, Steps, Working
  <2>. QED  BY <2>2, <2>3 DEF BatchOK
<1>2. CASE Operator
  BY <1>2, OperatorCounts
<1>3. ASSUME NEW j \in Batches, Take(j) \/ BatchStep(j) \/ Break(j) \/ Cut(j) \/ Crash(j)
      PROVE  CountsFit'
  <2>1. CASE Rows(j)
    BY <1>1, <2>1, HandCounts, SettleCounts DEF Rows
  <2>2. CASE ~Rows(j)
    BY <1>1, <1>3, <2>2, TakeCounts, StartCounts, WorkCounts, CloseCounts, CompleteCounts
       DEF BatchStep, Cut, Crash
  <2>. QED  BY <2>1, <2>2
<1>4. ASSUME NEW p \in People, Notice(p)
      PROVE  CountsFit'
  BY <1>4, GivenUpCounts
<1>5. ASSUME NEW p \in People, NEW as \in {"failed", "skipped"},
             GiveUp(p, as) \/ CountGivenUp(p, as) \/ GiveUpLost(p, as)
      PROVE  CountsFit'
  <2>1. as \in Faults
    BY DEF Faults
  <2>. QED  BY <1>5, <2>1, GivenUpCounts, OwedCounts DEF GiveUpLost
<1>6. CASE UNCHANGED vars
  BY <1>6, CountsStay DEF vars, CountsFit, QueueFits, RowStays, SameCounts, RunStaysCounted
<1>. QED  BY <1>2, <1>3, <1>4, <1>5, <1>6 DEF Next

\* The run's counts agree with its ledger, but for what batches and give-ups have
\* still to count, as long as no server dies in a batch and no statement fails:
\* after pauses, stops and second heads, and with jobs that end early, too.
THEOREM CountsAgree ==
  ASSUME "early" \notin Events, "crash" \notin Events, "cut" \notin Events
  PROVE  Spec => []CountsMatch
<1>1. Init => CountsFit
  <2>. SUFFICES ASSUME Init PROVE CountsFit
    OBVIOUS
  <2>1. OwedFits /\ run.status = "none"
    BY DEF Init, OwedFits
  <2>2. QueueFits
    BY DEF Init, QueueFits, NoWork
  <2>. QED  BY <2>1, <2>2 DEF CountsFit
<1>2. TypeInv /\ IInv /\ CountsFit /\ [Next]_vars => CountsFit'
  BY CountsStep
<1>. QED  BY <1>1, <1>2, Inductive, FitIsMatch, PTL DEF Spec
=============================================================================
