----------------------------- MODULE NamedLocks -----------------------------
(***************************************************************************)
(* The named locks a write takes before it reads or writes a row           *)
(* (apps/server/src/crud/capacity/locks.ts), on the three databases, with  *)
(* the numbers without gaps that are drawn under them                      *)
(* (apps/server/src/crud/gapless.ts).                                      *)
(*                                                                         *)
(* A writer is one call of withNamedLocks outside a transaction.  Each     *)
(* statement is a step; the queue of turns lives in a server's memory and  *)
(* moves between statements.  The database keeps a lock per name (one for  *)
(* the file on SQLite) for as long as its session or transaction lives,    *)
(* also for a session whose server died, until it notices.                 *)
(***************************************************************************)
EXTENDS Naturals, SequencesExt

CONSTANTS
  Names,      \* the locks' names, as their places in name order
  Writers,
  Servers,
  Home,       \* the server each writer runs in
  Dialects,   \* the databases this instance looks at
  Pool,       \* connections in one server's pool
  MaxRows,    \* the rows of each series are counted up to here
  Events      \* what the environment may do in this instance

EventKinds ==
  { "timeout",   \* a wait ends before its turn, or its lock, comes
    "fail",      \* run throws, and its transaction is rolled back
    "crash",     \* a server dies
    "join" }     \* run takes a further name in its open transaction (Postgres)

File == 0        \* SQLite's one lock

ASSUME LocksAssumption ==
  /\ Names \subseteq Nat \ {File}
  /\ Home \in [Writers -> Servers]
  /\ Dialects \subseteq {"postgres", "mysql", "sqlite"}
  /\ Pool \in Nat \ {0}
  /\ MaxRows \in [Names -> Nat]
  /\ Events \subseteq EventKinds

CONSTANT Nobody
ASSUME NobodyAssumption == Nobody \notin Writers

VARIABLES
  dialect,   \* of the source database; it never changes
  pc,        \* where each writer is
  want,      \* the names its call asked for
  more,      \* the names it joined to them inside
  turns,     \* per server and set of names: who holds the turn, then who waits for it
  owner,     \* the database's locks
  drawn,     \* the numbers each writer took in its open transaction; 0 for none
  numbers,   \* the numbers committed in each series
  rows       \* how many rows carry them

vars == <<dialect, pc, want, more, turns, owner, drawn, numbers, rows>>

Steps == {"idle", "turn", "pool", "locking", "inside", "releasing", "orphan"}

TypeOK ==
  /\ dialect \in {"postgres", "mysql", "sqlite"}
  /\ pc \in [Writers -> Steps]
  /\ want \in [Writers -> SUBSET Names]
  /\ more \in [Writers -> SUBSET Names]
  /\ turns \in [Servers -> [SUBSET Names -> Seq(Writers)]]
  /\ owner \in [Names \cup {File} -> Writers \cup {Nobody}]
  /\ drawn \in [Writers -> [Names -> Nat]]
  /\ numbers \in [Names -> SUBSET Nat]
  /\ rows \in [Names -> Nat]
  /\ \A n \in Names : numbers[n] \subseteq 1 .. MaxRows[n] /\ rows[n] \in 0 .. MaxRows[n]

-----------------------------------------------------------------------------
(* State formulae *)

Asked(w) == want[w] \cup more[w]

\* A slip: only the first name is locked.
WantedFirst(w) == { n \in Asked(w) : \A m \in Asked(w) : n <= m }

\* The database locks behind what a writer asked for.
Wanted(w) == IF dialect = "sqlite" THEN {File} ELSE Asked(w)

Missing(w) == { n \in Wanted(w) : owner[n] # w }

\* A slip: the locks are taken in any order.
NextLocksAnyOrder(w) == Missing(w)

\* `ordered`: the one lock to take next, in name order.
NextLocks(w) == { n \in Missing(w) : \A m \in Missing(w) : n <= m }

Line(w) == turns[Home[w]][want[w]]

\* Writers that have a connection of s.
Connected(s) ==
  { w \in Writers : Home[w] = s /\ pc[w] \in {"locking", "inside", "releasing"} }

\* The names a writer's transaction is inside of.
Inside(w) ==
  IF pc[w] = "inside" \/ (pc[w] = "locking" /\ more[w] # {})
  THEN { n \in Asked(w) : dialect = "sqlite" \/ owner[n] = w } ELSE {}

\* A slip: the set is forgotten with whoever waits for it.
HandOnForgets(line) == <<>>

\* handOn: the next in the line holds the turn; a call without names had none.
HandOn(line) == IF line = <<>> THEN <<>> ELSE Tail(line)

NewLine(w, line) == turns' = [turns EXCEPT ![Home[w]][want[w]] = line]

\* Those whose turn it becomes go on to the pool; w is where it says.
GoTo(w, step, line) ==
  pc' = [v \in Writers |->
    IF v = w THEN step
    ELSE IF pc[v] = "turn" /\ Home[v] = Home[w] /\ want[v] = want[w] /\ line # <<>> /\ Head(line) = v
         THEN "pool" ELSE pc[v]]

Forget(w) == /\ want' = [want EXCEPT ![w] = {}]
             /\ more' = [more EXCEPT ![w] = {}]

\* The call is over: its connection is back, and its turn handed on.
Over(w) ==
  /\ NewLine(w, HandOn(Line(w)))
  /\ GoTo(w, "idle", HandOn(Line(w)))
  /\ Forget(w)

Unlocked(w) == [n \in Names \cup {File} |-> IF owner[n] = w THEN Nobody ELSE owner[n]]

\* max(number) of a series, 0 when it has no row.
Largest(n) == IF numbers[n] = {} THEN 0 ELSE Max(numbers[n])

NothingDrawn == [n \in Names |-> 0]

Init ==
  /\ dialect \in Dialects
  /\ pc = [w \in Writers |-> "idle"]
  /\ want = [w \in Writers |-> {}]
  /\ more = [w \in Writers |-> {}]
  /\ turns = [s \in Servers |-> [S \in SUBSET Names |-> <<>>]]
  /\ owner = [n \in Names \cup {File} |-> Nobody]
  /\ drawn = [w \in Writers |-> NothingDrawn]
  /\ numbers = [n \in Names |-> {}]
  /\ rows = [n \in Names |-> 0]

-----------------------------------------------------------------------------
(* Waiting *)

\* withNamedLocks: the set's turn is free, or the writer waits for it.
Call(w) ==
  /\ pc[w] = "idle"
  /\ \E S \in (SUBSET Names) \ {{}} :
       /\ want' = [want EXCEPT ![w] = S]
       /\ turns' = [turns EXCEPT ![Home[w]][S] = Append(@, w)]
       /\ pc' = [pc EXCEPT ![w] = IF turns[Home[w]][S] = <<>> THEN "pool" ELSE "turn"]
  /\ UNCHANGED <<dialect, more, owner, drawn, numbers, rows>>

\* withSeriesLocks on Postgres names nothing: a plain transaction, whose inserts
\* take their series' locks as they come.
CallPlain(w) ==
  /\ "join" \in Events /\ dialect = "postgres" /\ pc[w] = "idle"
  /\ pc' = [pc EXCEPT ![w] = "pool"]
  /\ UNCHANGED <<dialect, want, more, turns, owner, drawn, numbers, rows>>

\* Where w waits in its line; the first in it has the turn.
Places(w) == { i \in 2 .. Len(Line(w)) : Line(w)[i] = w }

\* The turn does not come within the wait: the writer leaves the line, busy.
TurnTimeout(w) ==
  /\ "timeout" \in Events /\ pc[w] = "turn"
  /\ NewLine(w, IF Places(w) = {} THEN Line(w) ELSE RemoveAt(Line(w), Min(Places(w))))
  /\ pc' = [pc EXCEPT ![w] = "idle"]
  /\ Forget(w)
  /\ UNCHANGED <<dialect, owner, drawn, numbers, rows>>

\* SQLite has one connection.
Connections == IF dialect = "sqlite" THEN 1 ELSE Pool

\* A connection of the pool is free.
Connect(w) ==
  /\ pc[w] = "pool" /\ Cardinality(Connected(Home[w])) < Connections
  /\ pc' = [pc EXCEPT ![w] = "locking"]
  /\ UNCHANGED <<dialect, want, more, turns, owner, drawn, numbers, rows>>

\* pg_advisory_xact_lock, GET_LOCK or BEGIN IMMEDIATE answers.
TakeLock(w) ==
  /\ pc[w] = "locking"
  /\ \E n \in NextLocks(w) :
       /\ owner[n] = Nobody
       /\ owner' = [owner EXCEPT ![n] = w]
  /\ UNCHANGED <<dialect, pc, want, more, turns, drawn, numbers, rows>>

\* All of them are held: run begins.
Enter(w) ==
  /\ pc[w] = "locking" /\ Missing(w) = {}
  /\ pc' = [pc EXCEPT ![w] = "inside"]
  /\ UNCHANGED <<dialect, want, more, turns, owner, drawn, numbers, rows>>

\* The transaction is gone and with it Postgres' and SQLite's locks; MySQL's are
\* the connection's and released one by one.
Ended(w) ==
  /\ IF dialect = "mysql"
     THEN pc' = [pc EXCEPT ![w] = "releasing"] /\ UNCHANGED <<want, more, turns, owner>>
     ELSE owner' = Unlocked(w) /\ Over(w)
  /\ drawn' = [drawn EXCEPT ![w] = NothingDrawn]

\* The lock does not come within the wait, or the database finds a deadlock.
LockTimeout(w) ==
  /\ "timeout" \in Events /\ pc[w] = "locking" /\ Missing(w) # {}
  /\ Ended(w)
  /\ UNCHANGED <<dialect, numbers, rows>>

-----------------------------------------------------------------------------
(* Inside *)

\* An insert in the open transaction takes its series' own lock first; a name
\* the transaction holds already is not asked again.
Join(w) ==
  /\ "join" \in Events /\ dialect = "postgres" /\ pc[w] = "inside"
  /\ \E n \in Names \ Asked(w) : more' = [more EXCEPT ![w] = @ \cup {n}]
  /\ pc' = [pc EXCEPT ![w] = "locking"]
  /\ UNCHANGED <<dialect, want, turns, owner, drawn, numbers, rows>>

\* take: a row gets the largest number of its series, plus one, and is inserted.
Draw(w) ==
  /\ pc[w] = "inside"
  /\ \E n \in Asked(w) :
       /\ drawn[w][n] = 0 /\ rows[n] < MaxRows[n]
       /\ drawn' = [drawn EXCEPT ![w][n] = Largest(n) + 1]
  /\ UNCHANGED <<dialect, pc, want, more, turns, owner, numbers, rows>>

\* The commit: only now others see the rows.
Commit(w) ==
  /\ pc[w] = "inside"
  /\ numbers' = [n \in Names |-> IF drawn[w][n] # 0 THEN numbers[n] \cup {drawn[w][n]} ELSE numbers[n]]
  /\ rows' = [n \in Names |-> IF drawn[w][n] # 0 THEN rows[n] + 1 ELSE rows[n]]
  /\ Ended(w)
  /\ UNCHANGED dialect

\* run throws: nothing it wrote stays, and its numbers are taken again.
Fail(w) ==
  /\ "fail" \in Events /\ pc[w] = "inside"
  /\ Ended(w)
  /\ UNCHANGED <<dialect, numbers, rows>>

\* finally, on MySQL: release_lock for each name taken, then the connection and
\* the turn are handed on.
Release(w) ==
  /\ pc[w] = "releasing"
  /\ \E n \in Names : /\ owner[n] = w
                      /\ owner' = [owner EXCEPT ![n] = Nobody]
  /\ UNCHANGED <<dialect, pc, want, more, turns, drawn, numbers, rows>>

Released(w) ==
  /\ pc[w] = "releasing" /\ \A n \in Names : owner[n] # w
  /\ Over(w)
  /\ UNCHANGED <<dialect, owner, drawn, numbers, rows>>

-----------------------------------------------------------------------------
(* Servers that die *)

\* The queues of turns die with s; the database still has its sessions.
Crash(s) ==
  /\ "crash" \in Events
  /\ turns' = [turns EXCEPT ![s] = [S \in SUBSET Names |-> <<>>]]
  /\ pc' = [w \in Writers |->
       IF Home[w] # s \/ pc[w] = "orphan" THEN pc[w]
       ELSE IF w \in Connected(s) THEN "orphan" ELSE "idle"]
  /\ want' = [w \in Writers |-> IF Home[w] = s THEN {} ELSE want[w]]
  /\ more' = [w \in Writers |-> IF Home[w] = s THEN {} ELSE more[w]]
  /\ drawn' = [w \in Writers |-> IF Home[w] = s THEN NothingDrawn ELSE drawn[w]]
  /\ UNCHANGED <<dialect, owner, numbers, rows>>

\* The database notices: the transaction is rolled back, its locks are free.
Reap(w) ==
  /\ pc[w] = "orphan"
  /\ owner' = Unlocked(w)
  /\ pc' = [pc EXCEPT ![w] = "idle"]
  /\ UNCHANGED <<dialect, want, more, turns, drawn, numbers, rows>>

-----------------------------------------------------------------------------
GoesOn(w) == \/ Connect(w) \/ TakeLock(w) \/ Enter(w) \/ Draw(w) \/ Commit(w)
             \/ Release(w) \/ Released(w) \/ Reap(w)

Next ==
  \/ \E w \in Writers : \/ Call(w) \/ CallPlain(w) \/ GoesOn(w)
                        \/ TurnTimeout(w) \/ LockTimeout(w) \/ Fail(w) \/ Join(w)
  \/ \E s \in Servers : Crash(s)

Spec == Init /\ [][Next]_vars

\* A call goes on: the pool and the databases' lock queues serve in order, run
\* returns, and a dead server's sessions are noticed.  No wait needs to end in a
\* timeout, but Postgres ends one of a circle, which takes a joined name.
Fairness == \A w \in Writers : /\ SF_vars(GoesOn(w))
                               /\ WF_vars(LockTimeout(w) /\ more[w] # {})

FairSpec == Spec /\ Fairness

-----------------------------------------------------------------------------
(* What the locks promise *)

\* One writer at a time inside a name, from its lock to its commit, whichever
\* server it runs in (locks.ts: "a writer let in before the commit would count
\* rows it cannot see yet").
Exclusion == \A v, w \in Writers : v # w => Inside(v) \cap Inside(w) = {}

\* No number twice, none skipped (gapless.ts): a series of k rows carries 1 to k,
\* through rollbacks, timeouts and crashes.
NoGaps == \A n \in Names : numbers[n] = 1 .. rows[n]

\* A turn is never lost and never held twice: whoever waits is in its line behind
\* a writer that is at work, and only that one has, or waits for, a connection.
TurnsKept ==
  \A w \in Writers :
    /\ pc[w] = "turn" => \E i \in 2 .. Len(Line(w)) : Line(w)[i] = w
    /\ pc[w] \in {"pool", "locking", "inside", "releasing"} /\ want[w] # {} =>
         Line(w) # <<>> /\ Head(Line(w)) = w

\* Whoever waits for a lock of a writer that waits too waits for an earlier name
\* than that one, unless that one joined names to its own: no circle of waits, of
\* two or of many, closes without a joined name (locks.ts: "sorted by name, never
\* by anything a person can change, so two writers wanting the same two never wait
\* on each other crosswise").
WaitsGoUp ==
  \A v, w \in Writers :
    (pc[v] = "locking" /\ pc[w] = "locking" /\ more[v] = {}) =>
      \A n \in NextLocks(w), m \in NextLocks(v) : owner[n] = v => n < m

\* Every call ends, also behind writers that fail, die or give up: a turn or a
\* lock is always handed on, and nobody who has one of the pool's connections
\* waits for a writer that has none (locks.ts: "writers asking for the same names
\* wait their turn in memory ... BEFORE any of them takes a connection from the pool").
CallsEnd == \A w \in Writers : pc[w] # "idle" ~> pc[w] = "idle"

Series ==
  INSTANCE NumberSeries WITH
    inside <- [w \in Writers |-> Inside(w)]

\* The locks and the numbers under them implement what writers rely on.
ImplementsSeries == Series!Spec
=============================================================================
