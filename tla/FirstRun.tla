------------------------------ MODULE FirstRun ------------------------------
(***************************************************************************)
(* What every server process does to the meta store before it serves       *)
(* (firstRun in packages/meta/src/bootstrap.ts): the pass over the pending *)
(* migrations under the store's lock (migrator.ts, migrate-lock.ts), then  *)
(* the built-in role and its grants, each given once.                      *)
(*                                                                         *)
(* Several processes, perhaps of two versions, start on one store.  Each   *)
(* statement is a step; on Postgres and SQLite the pass is one             *)
(* transaction, on MySQL every statement stays at once.                    *)
(***************************************************************************)
EXTENDS Naturals

CONSTANTS
  Processes,
  Newest,      \* migrations are 1 .. Newest, in order
  Knows,       \* how many of them each process's version has
  Parts,       \* the statements of each migration's `up`
  Asks,        \* the migrations whose statements ask first whether they are done
  Grants,      \* the pairs of role and action each process's version seeds,
               \* as their places in BUILTIN_ROLES
  Dialects,    \* the databases this instance looks at
  Nobody,
  Gone,        \* a session whose process died, until the database notices
  MaxFaults,   \* faults of the environment in one behaviour
  MaxSaves,    \* how often operators save the role's grants
  Events       \* what the environment may do in this instance

EventKinds ==
  { "crash",     \* a process dies
    "throw",     \* a statement of a pass fails
    "timeout" }  \* the wait for the lock ends before the lock comes

ASSUME FirstRunAssumption ==
  /\ Newest \in Nat
  /\ Knows \in [Processes -> 0 .. Newest]
  /\ Parts \in [1 .. Newest -> Nat \ {0}]
  /\ Asks \subseteq 1 .. Newest
  /\ Grants \in [Processes -> SUBSET Nat]
  /\ Dialects \subseteq {"postgres", "mysql", "sqlite"}
  /\ MaxFaults \in Nat /\ MaxSaves \in Nat
  /\ Events \subseteq EventKinds

ASSUME NobodyAssumption == Nobody \notin Processes /\ Gone \notin Processes /\ Nobody # Gone

Pairs == UNION { Grants[p] : p \in Processes }

VARIABLES
  dialect,   \* of the meta store; it never changes
  pc,        \* where each process is
  lock,      \* who has the migration lock
  done,      \* the statements of each migration the store has
  ledger,    \* adminium_migrations
  seen,      \* per pass: the migrations it found, or applied
  part,      \* per pass: the statements of the next one it has run
  role,      \* whether the built-in role has its row
  granted,   \* the role's permission rows
  seeded,    \* the setting system.seededRoleGrants
  read,      \* per seeding: what it read of it
  todo,      \* per seeding: the pairs still to look at
  left,      \* per server: what the save it is at has still to write
  saves,     \* how many saves there were
  taken,     \* history: the pairs that are gone by a save's doing
  kept,      \* history: those of them that must stay away
  faults     \* how many faults there were

vars == <<dialect, pc, lock, done, ledger, seen, part, role, granted, seeded, read, todo,
          left, saves, taken, kept, faults>>
storeVars == <<done, ledger>>
passVars == <<lock, seen, part>>
saveVars == <<left, saves, taken, kept>>
seedVars == <<role, granted, seeded, read, todo, saveVars>>

InPass == {"ledger", "up"}
Seeding == {"role", "create", "grants", "give", "given"}
Steps == {"down", "waiting", "seed", "serving"} \cup InPass \cup Seeding

TypeOK ==
  /\ dialect \in {"postgres", "mysql", "sqlite"}
  /\ pc \in [Processes -> Steps]
  /\ lock \in Processes \cup {Nobody, Gone}
  /\ done \in [1 .. Newest -> Nat] /\ \A m \in 1 .. Newest : done[m] <= Parts[m]
  /\ ledger \subseteq 1 .. Newest
  /\ seen \in [Processes -> SUBSET (1 .. Newest)]
  /\ part \in [Processes -> Nat]
  /\ role \in BOOLEAN
  /\ granted \subseteq Pairs /\ seeded \subseteq Pairs
  /\ left \in [Processes -> SUBSET Pairs] /\ saves \in 0 .. MaxSaves
  /\ taken \subseteq Pairs /\ kept \subseteq Pairs
  /\ read \in [Processes -> SUBSET Pairs]
  /\ todo \in [Processes -> SUBSET Pairs]
  /\ faults \in 0 .. MaxFaults

Init ==
  /\ dialect \in Dialects
  /\ pc = [p \in Processes |-> "down"]
  /\ lock = Nobody
  /\ done = [m \in 1 .. Newest |-> 0] /\ ledger = {}
  /\ seen = [p \in Processes |-> {}] /\ part = [p \in Processes |-> 0]
  /\ role = FALSE /\ granted = {} /\ seeded = {}
  /\ read = [p \in Processes |-> {}] /\ todo = [p \in Processes |-> {}]
  /\ left = [p \in Processes |-> {}] /\ saves = 0
  /\ taken = {} /\ kept = {} /\ faults = 0

-----------------------------------------------------------------------------
(* State formulae *)

\* applyMigrationsUnlocked: what of the list is not yet applied.
Pending(p) == (1 .. Knows[p]) \ seen[p]

\* The one a loop over a list is at.
First(S) == { x \in S : \A y \in S : x <= y }

\* A slip: the last migration first.
NextOnesLast(p) == { m \in Pending(p) : \A n \in Pending(p) : n <= m }

NextOnes(p) == First(Pending(p))

Goes(p, step) == pc' = [pc EXCEPT ![p] = step]

\* The boot is over, and nothing of it stays in memory.
Forgets(p) ==
  /\ seen' = [seen EXCEPT ![p] = {}] /\ part' = [part EXCEPT ![p] = 0]
  /\ read' = [read EXCEPT ![p] = {}] /\ todo' = [todo EXCEPT ![p] = {}]

\* The pass throws: rolled back where there is a transaction, the lock is free.
Throws(p) == lock' = Nobody /\ Goes(p, "down") /\ Forgets(p)

\* Something of this kind goes wrong.
Fault(kind) == kind \in Events /\ faults < MaxFaults /\ faults' = faults + 1

-----------------------------------------------------------------------------
(* The lock *)

Start(p) ==
  /\ pc[p] = "down" /\ Goes(p, "waiting")
  /\ UNCHANGED <<dialect, storeVars, passVars, seedVars, faults>>

\* A slip: every attempt has the lock.
TakeLockAlways(p) ==
  /\ pc[p] = "waiting"
  /\ lock' = p /\ Goes(p, "ledger")
  /\ UNCHANGED <<dialect, storeVars, seen, part, seedVars, faults>>

\* pollForLock: an attempt that finds it free has it.
TakeLock(p) ==
  /\ pc[p] = "waiting" /\ lock = Nobody
  /\ lock' = p /\ Goes(p, "ledger")
  /\ UNCHANGED <<dialect, storeVars, seen, part, seedVars, faults>>

\* MigrationLockTimeoutError: the boot is given up.
GiveUp(p) ==
  /\ pc[p] = "waiting" /\ lock # Nobody /\ Fault("timeout")
  /\ Goes(p, "down")
  /\ UNCHANGED <<dialect, storeVars, passVars, seedVars>>

-----------------------------------------------------------------------------
(* The pass *)

\* readAndValidateLedger: a migration it does not know ends the boot.
ReadLedger(p) ==
  /\ pc[p] = "ledger"
  /\ \/ /\ ledger \subseteq 1 .. Knows[p]
        /\ seen' = [seen EXCEPT ![p] = ledger] /\ Goes(p, "up")
        /\ UNCHANGED <<lock, part, read, todo>>
     \/ ~(ledger \subseteq 1 .. Knows[p]) /\ Throws(p)
  /\ UNCHANGED <<dialect, storeVars, role, granted, seeded, saveVars, faults>>

\* A statement of `up`.  On MySQL it stays, and one that is there already is
\* skipped by a migration that asks (probe.ts), and run again by one that does not.
Statement(p) ==
  /\ pc[p] = "up"
  /\ \E m \in NextOnes(p) :
       /\ part[p] < Parts[m]
       /\ dialect = "mysql" => done[m] <= part[p] \/ m \in Asks
       /\ part' = [part EXCEPT ![p] = @ + 1]
       /\ done' = IF dialect = "mysql" /\ done[m] <= part[p] THEN [done EXCEPT ![m] = part[p] + 1] ELSE done
  /\ UNCHANGED <<dialect, pc, lock, ledger, seen, seedVars, faults>>

\* A column or an index that is there already: the pass fails on it.
Clash(p) ==
  /\ pc[p] = "up" /\ dialect = "mysql"
  /\ \E m \in NextOnes(p) : part[p] < done[m] /\ m \notin Asks
  /\ Throws(p)
  /\ UNCHANGED <<dialect, storeVars, role, granted, seeded, saveVars, faults>>

\* The ledger row lands right after the last statement.
Record(p) ==
  /\ pc[p] = "up"
  /\ \E m \in NextOnes(p) :
       /\ part[p] = Parts[m]
       /\ seen' = [seen EXCEPT ![p] = @ \cup {m}]
       /\ ledger' = IF dialect = "mysql" THEN ledger \cup {m} ELSE ledger
  /\ part' = [part EXCEPT ![p] = 0]
  /\ UNCHANGED <<dialect, pc, lock, done, seedVars, faults>>

\* The commit, and with it the lock's end; on MySQL only the lock's.
PassEnds(p) ==
  /\ pc[p] = "up" /\ Pending(p) = {}
  /\ ledger' = ledger \cup seen[p]
  /\ done' = [m \in 1 .. Newest |-> IF m \in seen[p] THEN Parts[m] ELSE done[m]]
  /\ lock' = Nobody /\ Goes(p, "seed")
  /\ UNCHANGED <<dialect, seen, part, seedVars, faults>>

\* A statement of the pass fails.
PassThrows(p) ==
  /\ pc[p] \in InPass /\ Fault("throw") /\ Throws(p)
  /\ UNCHANGED <<dialect, storeVars, role, granted, seeded, saveVars>>

-----------------------------------------------------------------------------
(* seedBuiltinRoles: after the lock, each statement on its own *)

\* A slip: the ledger is written before the grants are.
SeedReadMarks(p) ==
  /\ pc[p] = "seed" /\ Goes(p, "role")
  /\ read' = [read EXCEPT ![p] = seeded] /\ seeded' = seeded \cup Grants[p]
  /\ UNCHANGED <<dialect, storeVars, passVars, role, granted, todo, saveVars, faults>>

\* The ledger of what was ever given.
SeedRead(p) ==
  /\ pc[p] = "seed" /\ Goes(p, "role")
  /\ read' = [read EXCEPT ![p] = seeded]
  /\ UNCHANGED <<dialect, storeVars, passVars, role, granted, seeded, todo, saveVars, faults>>

\* findBySlug.  A role that was there has been given what the ledger says.
FindRole(p) ==
  /\ pc[p] = "role"
  /\ \/ role /\ Goes(p, "grants") /\ todo' = [todo EXCEPT ![p] = Grants[p] \ read[p]]
     \/ ~role /\ Goes(p, "create") /\ UNCHANGED todo
  /\ UNCHANGED <<dialect, storeVars, passVars, role, granted, seeded, read, saveVars, faults>>

\* The unique slug ends the boot of whoever is second.
CreateRole(p) ==
  /\ pc[p] = "create"
  /\ \/ /\ ~role /\ role' = TRUE
        /\ Goes(p, "grants") /\ todo' = [todo EXCEPT ![p] = Grants[p]]
        /\ UNCHANGED <<seen, part, read>>
     \/ role /\ Goes(p, "down") /\ Forgets(p) /\ UNCHANGED role
  /\ UNCHANGED <<dialect, lock, storeVars, granted, seeded, saveVars, faults>>

\* find: a pair whose row is there needs nothing.
Look(p) ==
  /\ pc[p] = "grants"
  /\ \E x \in First(todo[p]) :
       \/ x \in granted /\ todo' = [todo EXCEPT ![p] = @ \ {x}] /\ UNCHANGED pc
       \/ x \notin granted /\ Goes(p, "give") /\ UNCHANGED todo
  /\ UNCHANGED <<dialect, storeVars, passVars, role, granted, seeded, read, saveVars, faults>>

\* grant: an update, else an insert, which a row that came in between fails.
Give(p) ==
  /\ pc[p] = "give"
  /\ \E x \in First(todo[p]) :
       \/ granted' = granted \cup {x} /\ Goes(p, "given") /\ UNCHANGED <<seen, part, read, todo>>
       \/ x \in granted /\ Goes(p, "down") /\ Forgets(p) /\ UNCHANGED granted
  /\ UNCHANGED <<dialect, lock, storeVars, role, seeded, saveVars, faults>>

\* Its row is read back: one that a save deleted in between ends the boot.
ReadBack(p) ==
  /\ pc[p] = "given"
  /\ \E x \in First(todo[p]) :
       \/ /\ x \in granted /\ Goes(p, "grants")
          /\ todo' = [todo EXCEPT ![p] = @ \ {x}] /\ UNCHANGED <<seen, part, read>>
       \/ x \notin granted /\ Goes(p, "down") /\ Forgets(p)
  /\ UNCHANGED <<dialect, lock, storeVars, role, granted, seeded, saveVars, faults>>

\* A slip: only what was given now is written.
WriteOwn(p) ==
  /\ pc[p] = "grants" /\ todo[p] = {}
  /\ seeded' = Grants[p]
  /\ Goes(p, "serving") /\ Forgets(p)
  /\ UNCHANGED <<dialect, lock, storeVars, role, granted, saveVars, faults>>

\* settings.set, when there is something new: the whole list, the last write wins.
\* It too is an update, else an insert.
Write(p) ==
  /\ pc[p] = "grants" /\ todo[p] = {}
  /\ \/ Grants[p] \subseteq read[p] /\ Goes(p, "serving") /\ UNCHANGED seeded
     \/ /\ ~(Grants[p] \subseteq read[p])
        /\ \/ seeded' = read[p] \cup Grants[p] /\ Goes(p, "serving")
           \/ read[p] = {} /\ seeded # {} /\ Goes(p, "down") /\ UNCHANGED seeded
  /\ Forgets(p)
  /\ UNCHANGED <<dialect, lock, storeVars, role, granted, saveVars, faults>>

-----------------------------------------------------------------------------
(* The environment *)

\* The save of a role's grants deletes its rows, then writes those it is to have,
\* each on its own and under no lock (routes/roles): operators on two servers may
\* save at once.  A pair it takes away stays away when the ledger has it and no
\* boot under way read it without.
Save(p, keep) ==
  /\ pc[p] = "serving" /\ left[p] = {} /\ saves < MaxSaves
  /\ left' = [left EXCEPT ![p] = keep] /\ saves' = saves + 1
  /\ granted' = {} /\ taken' = taken \cup granted
  /\ kept' = kept \cup { x \in (granted \cap seeded) \ keep :
                           \A q \in Processes : pc[q] \in Seeding => x \in read[q] }
  /\ UNCHANGED <<dialect, pc, storeVars, passVars, role, seeded, read, todo, faults>>

\* grant again.  A row that a boot or another save brought in between, or that one
\* deleted before it is read back, fails the request, with the rest not written.
SaveRow(p) ==
  /\ \E x \in First(left[p]) :
       \/ /\ granted' = granted \cup {x} /\ left' = [left EXCEPT ![p] = @ \ {x}]
          /\ taken' = taken \ {x} /\ kept' = kept \ {x}
       \/ left' = [left EXCEPT ![p] = {}] /\ UNCHANGED <<granted, taken, kept>>
  /\ UNCHANGED <<dialect, pc, storeVars, passVars, role, seeded, read, todo, saves, faults>>

\* A slip: the lock is a row that outlives its process.
CrashHolding(p) ==
  /\ pc[p] # "down" /\ Fault("crash")
  /\ Goes(p, "down") /\ Forgets(p)
  /\ left' = [left EXCEPT ![p] = {}]
  /\ UNCHANGED <<dialect, lock, storeVars, role, granted, seeded, saves, taken, kept>>

\* A process dies.  SQLite's lock dies with it, the other two with its session.
Crash(p) ==
  /\ pc[p] # "down" /\ Fault("crash")
  /\ lock' = IF lock # p THEN lock ELSE IF dialect = "sqlite" THEN Nobody ELSE Gone
  /\ Goes(p, "down") /\ Forgets(p)
  /\ left' = [left EXCEPT ![p] = {}]
  /\ UNCHANGED <<dialect, storeVars, role, granted, seeded, saves, taken, kept>>

\* The database notices that a session's client is gone.
Reap ==
  /\ lock = Gone /\ lock' = Nobody
  /\ UNCHANGED <<dialect, pc, storeVars, seen, part, seedVars, faults>>

\* What a booting process does of itself.
GoesOn(p) ==
  \/ TakeLock(p) \/ ReadLedger(p) \/ Statement(p) \/ Clash(p) \/ Record(p) \/ PassEnds(p)
  \/ SeedRead(p) \/ FindRole(p) \/ CreateRole(p) \/ Look(p) \/ Give(p) \/ ReadBack(p) \/ Write(p)

Next ==
  \/ \E p \in Processes :
       Start(p) \/ GoesOn(p) \/ GiveUp(p) \/ PassThrows(p) \/ Crash(p) \/ SaveRow(p)
  \/ \E p \in Processes, keep \in SUBSET Pairs : Save(p, keep)
  \/ Reap

Spec == Init /\ [][Next]_vars

\* A wait polls until the lock is free, a database answers and ends dead
\* sessions, and what started the process starts it again when it exits.
Fairness ==
  /\ \A p \in Processes : SF_vars(GoesOn(p)) /\ WF_vars(Start(p))
  /\ WF_vars(Reap)

FairSpec == Spec /\ Fairness

-----------------------------------------------------------------------------
(* Properties *)

Serving == { p \in Processes : pc[p] = "serving" }

\* The ledger never says of a migration what the store does not have, and what
\* the store has without it saying so is MySQL's: the work of whoever has the
\* lock, or left by a pass that failed (migrator.ts, the row after the last statement).
LedgerTells ==
  \A m \in 1 .. Newest :
    /\ m \in ledger => done[m] = Parts[m]
    /\ m \notin ledger /\ done[m] > 0 =>
         /\ dialect = "mysql"
         /\ \/ faults > 0
            \/ \E p \in Processes : lock = p /\ m \in NextOnes(p) /\ part[p] = done[m]

\* A grant an operator took away is not put back by a later boot, of any version
\* (bootstrap.ts, "A revocation survives").
SurvivesRestart == kept \cap granted = {}

\* Who serves has given what its version gives, unless a save of an operator took
\* it away, or died after deleting it (bootstrap.ts, "a key a later version adds
\* still reaches an existing install").
GetsWhatItSeeds == \A p \in Serving : Grants[p] \subseteq granted \cup taken

\* The boot implements what a server may rely on: migrations in order and for
\* good, and nobody serves on a store that lacks one of its own.
Store == INSTANCE MigratedStore WITH whole <- ledger, serving <- Serving

ImplementsStore == Store!Spec

\* A migration of MySQL's that a failed pass left half done and that does not
\* ask: every later pass fails on it (probe.ts says what it takes to go on).
Stuck == lock = Nobody /\ \E m \in (1 .. Newest) \ (Asks \cup ledger) : done[m] > 0

\* However boots die, throw, give up or meet each other, a process of the newest
\* version serves in the end; where the store is stuck its boots exit (migrate-lock.ts,
\* "a process that dies mid-migration does not wedge the next boot").
NewestServes ==
  \A p \in Processes : Knows[p] = Newest =>
    (pc[p] # "serving" ~> (pc[p] = "serving" \/ (pc[p] = "down" /\ Stuck)))
=============================================================================
