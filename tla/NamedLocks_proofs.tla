-------------------------- MODULE NamedLocks_proofs --------------------------
(***************************************************************************)
(* Theorems about the named locks and the numbers drawn under them, for    *)
(* any number of writers, servers, names, connections and rows, and every  *)
(* set of events.  For exclusion and the numbers the turns play no part:   *)
(* the database's locks are the ones that count.  That no turn is lost is  *)
(* an invariant of its own, at the end.                                    *)
(***************************************************************************)
EXTENDS NamedLocks, SequenceTheorems, TLAPS

-----------------------------------------------------------------------------
(* The inductive invariant *)

\* What the proofs need of TypeOK: everything but the turns.
Typed ==
  /\ dialect \in {"postgres", "mysql", "sqlite"}
  /\ pc \in [Writers -> Steps]
  /\ want \in [Writers -> SUBSET Names]
  /\ more \in [Writers -> SUBSET Names]
  /\ owner \in [Names \cup {File} -> Writers \cup {Nobody}]
  /\ drawn \in [Writers -> [Names -> Nat]]
  /\ rows \in [Names -> Nat]

\* A writer at work holds all it asked for, only a Postgres transaction joins
\* names, and a writer without a connection owns nothing.
Holds(w) ==
  /\ pc[w] = "inside" => \A n \in Wanted(w) : owner[n] = w
  /\ more[w] # {} => dialect = "postgres" /\ pc[w] \in {"locking", "inside"}
  /\ pc[w] = "releasing" => dialect = "mysql"
  /\ pc[w] \in {"idle", "turn", "pool"} =>
       /\ \A n \in Names : owner[n] # w
       /\ dialect = "sqlite" => owner[File] # w

\* A number drawn is the next one of a series its writer is inside of.
DrawnNext(w) ==
  \A n \in Names : drawn[w][n] # 0 =>
    n \in Inside(w) /\ drawn[w][n] = rows[n] + 1 /\ rows[n] < MaxRows[n]

IInv ==
  /\ Typed
  /\ \A w \in Writers : Holds(w) /\ DrawnNext(w)
  /\ NoGaps

-----------------------------------------------------------------------------
(* What one writer's step leaves alone *)

\* Seen from v: nothing of its own moved, except that its turn may have come.
Untouched(v) ==
  /\ pc'[v] = pc[v] \/ (pc[v] = "turn" /\ pc'[v] = "pool")
  /\ want'[v] = want[v] /\ more'[v] = more[v] /\ drawn'[v] = drawn[v]
  /\ \A n \in Names \cup {File} : owner'[n] = v <=> owner[n] = v

StepOf(w) ==
  \/ Call(w) \/ CallPlain(w) \/ GoesOn(w)
  \/ TurnTimeout(w) \/ LockTimeout(w) \/ Fail(w) \/ Join(w)

\* Being inside needs the locks, so no two writers are inside one name.
LEMMA LocksExclude == Typed /\ (\A w \in Writers : Holds(w)) => Exclusion
<1> SUFFICES ASSUME Typed, \A w \in Writers : Holds(w),
                    NEW v \in Writers, NEW w \in Writers, v # w,
                    NEW n \in Inside(v) \cap Inside(w)
             PROVE  FALSE
  BY DEF Exclusion
<1>1. n \in Names /\ n \in Asked(v) /\ n \in Asked(w) BY DEF Inside, Asked, Typed
<1>2. CASE dialect = "sqlite"
  <2>1. pc[v] = "inside" /\ pc[w] = "inside" BY <1>2 DEF Inside, Holds
  <2>2. owner[File] = v /\ owner[File] = w BY <1>2, <2>1 DEF Holds, Wanted
  <2> QED BY <2>2
<1>3. CASE dialect # "sqlite"
  BY <1>3 DEF Inside
<1> QED BY <1>2, <1>3

\* An ended transaction frees its writer's locks at once, or keeps them (MySQL).
LEMMA EndedStep ==
  ASSUME Typed, NEW w \in Writers, Ended(w)
  PROVE  /\ pc' \in [Writers -> Steps] /\ want' \in [Writers -> SUBSET Names]
         /\ more' \in [Writers -> SUBSET Names]
         /\ owner' \in [Names \cup {File} -> Writers \cup {Nobody}]
         /\ drawn' \in [Writers -> [Names -> Nat]]
         /\ \A v \in Writers \ {w} : Untouched(v)
         /\ drawn'[w] = NothingDrawn
         /\ IF dialect = "mysql"
            THEN pc'[w] = "releasing" /\ more'[w] = more[w]
            ELSE /\ pc'[w] = "idle" /\ more'[w] = {}
                 /\ \A n \in Names \cup {File} : owner'[n] # w
<1>1. /\ drawn' \in [Writers -> [Names -> Nat]] /\ drawn'[w] = NothingDrawn
      /\ \A v \in Writers \ {w} : drawn'[v] = drawn[v]
  BY DEF Ended, Typed, NothingDrawn
<1>2. CASE dialect = "mysql"
  BY <1>1, <1>2 DEF Ended, Typed, Steps, Untouched
<1>3. CASE dialect # "mysql"
  <2>1. owner' = Unlocked(w) /\ Over(w) BY <1>3 DEF Ended
  <2>2. /\ owner' \in [Names \cup {File} -> Writers \cup {Nobody}]
        /\ \A n \in Names \cup {File} : owner'[n] # w
        /\ \A v \in Writers \ {w}, n \in Names \cup {File} : owner'[n] = v <=> owner[n] = v
    BY <2>1, NobodyAssumption DEF Unlocked, Typed
  <2>3. /\ pc' \in [Writers -> Steps] /\ pc'[w] = "idle"
        /\ \A v \in Writers \ {w} : pc'[v] = pc[v] \/ (pc[v] = "turn" /\ pc'[v] = "pool")
    BY <2>1 DEF Over, GoTo, Typed, Steps
  <2>4. /\ want' \in [Writers -> SUBSET Names] /\ more' \in [Writers -> SUBSET Names]
        /\ more'[w] = {}
        /\ \A v \in Writers \ {w} : want'[v] = want[v] /\ more'[v] = more[v]
    BY <2>1 DEF Over, Forget, Typed
  <2> QED BY <1>1, <1>3, <2>2, <2>3, <2>4 DEF Untouched
<1> QED BY <1>2, <1>3

\* Whoever is untouched keeps what it holds and stays inside what it was.
LEMMA UntouchedKeeps ==
  ASSUME Typed, Typed', dialect' = dialect, NEW v \in Writers, Untouched(v), Holds(v)
  PROVE  Holds(v)' /\ Inside(v)' = Inside(v)
<1>1. Asked(v)' = Asked(v) /\ Wanted(v)' = Wanted(v) BY DEF Untouched, Asked, Wanted
<1>2. Asked(v) \subseteq Names /\ Wanted(v) \subseteq Names \cup {File}
  BY DEF Typed, Asked, Wanted
<1>3. Holds(v)'
  BY <1>1, <1>2 DEF Untouched, Holds
<1>4. Inside(v)' = Inside(v)
  <2>1. pc'[v] = "inside" <=> pc[v] = "inside" BY DEF Untouched
  <2>2. pc'[v] = "locking" <=> pc[v] = "locking" BY DEF Untouched
  <2>3. \A n \in Asked(v) : owner'[n] = v <=> owner[n] = v BY <1>2 DEF Untouched
  <2> QED BY <1>1, <2>1, <2>2, <2>3 DEF Inside, Untouched
<1> QED BY <1>3, <1>4

-----------------------------------------------------------------------------
(* What one writer's step does to itself *)

\* It comes to be inside more, or stays, and at most draws a next number.
Grows(w) ==
  /\ UNCHANGED <<numbers, rows>>
  /\ Inside(w) \subseteq Inside(w)'
  /\ \A n \in Names : drawn'[w][n] # 0 =>
       \/ drawn'[w][n] = drawn[w][n]
       \/ n \in Inside(w) /\ drawn'[w][n] = rows[n] + 1 /\ rows[n] < MaxRows[n]

\* What the commit writes.
Commits(w) ==
  /\ numbers' = [n \in Names |-> IF drawn[w][n] # 0 THEN numbers[n] \cup {drawn[w][n]} ELSE numbers[n]]
  /\ rows' = [n \in Names |-> IF drawn[w][n] # 0 THEN rows[n] + 1 ELSE rows[n]]

\* It leaves, with a commit or without.
Leaves(w) ==
  /\ Inside(w)' = {} /\ drawn'[w] = NothingDrawn
  /\ UNCHANGED <<numbers, rows>> \/ Commits(w)

Result(w) ==
  /\ Typed' /\ dialect' = dialect
  /\ \A v \in Writers \ {w} : Untouched(v)
  /\ Holds(w)'
  /\ Grows(w) \/ Leaves(w)

\* A series of k rows has k as its largest number.
LEMMA LargestIsLast ==
  ASSUME Typed, NoGaps, NEW n \in Names
  PROVE  Largest(n) = rows[n]
<1>1. rows[n] \in Nat /\ numbers[n] = 1 .. rows[n] BY LocksAssumption DEF Typed, NoGaps
<1>2. CASE rows[n] = 0
  BY <1>1, <1>2 DEF Largest
<1>3. CASE rows[n] # 0
  <2>1. rows[n] \in numbers[n] /\ \A k \in numbers[n] : rows[n] >= k BY <1>1, <1>3
  <2>2. \A m \in numbers[n] : (\A k \in numbers[n] : m >= k) => m = rows[n] BY <1>1, <2>1
  <2>3. Max(numbers[n]) = rows[n] BY <2>1, <2>2 DEF Max
  <2> QED BY <2>1, <2>3 DEF Largest
<1> QED BY <1>2, <1>3

\* Outside, a writer's lock changes nothing about what it is inside of.
LEMMA Waiting ==
  ASSUME IInv, NEW w \in Writers,
         Call(w) \/ CallPlain(w) \/ TurnTimeout(w) \/ Connect(w)
  PROVE  Result(w)
<1>1. Typed /\ Holds(w) BY DEF IInv
<1>2. /\ pc[w] \in {"idle", "turn", "pool"} /\ Inside(w) = {} /\ more[w] = {}
  BY <1>1 DEF Call, CallPlain, TurnTimeout, Connect, Inside, Holds
<1>3. /\ pc' \in [Writers -> Steps] /\ pc'[w] \in {"idle", "turn", "pool", "locking"}
      /\ \A v \in Writers \ {w} : pc'[v] = pc[v]
  BY <1>1 DEF Call, CallPlain, TurnTimeout, Connect, Typed, Steps
<1>4. /\ want' \in [Writers -> SUBSET Names] /\ more' \in [Writers -> SUBSET Names]
      /\ more'[w] = {}
      /\ \A v \in Writers \ {w} : want'[v] = want[v] /\ more'[v] = more[v]
  <2>1. CASE Call(w)
    <3>1. more' = more /\ \E S \in SUBSET Names : want' = [want EXCEPT ![w] = S] BY <2>1 DEF Call
    <3> QED BY <1>1, <1>2, <3>1 DEF Typed
  <2>2. CASE TurnTimeout(w) BY <1>1, <2>2 DEF TurnTimeout, Forget, Typed
  <2>3. CASE CallPlain(w) \/ Connect(w) BY <1>1, <1>2, <2>3 DEF CallPlain, Connect, Typed
  <2> QED BY <2>1, <2>2, <2>3
<1>5. UNCHANGED <<dialect, owner, drawn, numbers, rows>>
  BY DEF Call, CallPlain, TurnTimeout, Connect
<1>6. Typed' BY <1>1, <1>3, <1>4, <1>5 DEF Typed
<1>7. \A v \in Writers \ {w} : Untouched(v) BY <1>3, <1>4, <1>5 DEF Untouched
<1>8. Holds(w)' BY <1>1, <1>2, <1>3, <1>4, <1>5 DEF Holds
<1>9. Grows(w) BY <1>2, <1>5 DEF Grows
<1> QED BY <1>5, <1>6, <1>7, <1>8, <1>9 DEF Result

\* Taking a lock and beginning only add to what a writer is inside of.
LEMMA Locking ==
  ASSUME IInv, NEW w \in Writers, TakeLock(w) \/ Enter(w)
  PROVE  Result(w)
<1>1. Typed /\ Holds(w) BY DEF IInv
<1>2. UNCHANGED <<dialect, want, more, drawn, numbers, rows>> /\ pc[w] = "locking"
  BY DEF TakeLock, Enter
<1>3. Asked(w)' = Asked(w) /\ Wanted(w)' = Wanted(w) /\ Wanted(w) \subseteq Names \cup {File}
  BY <1>1, <1>2 DEF Asked, Wanted, Typed
<1>4. CASE TakeLock(w)
  <2>1. PICK n \in NextLocks(w) : owner[n] = Nobody /\ owner' = [owner EXCEPT ![n] = w]
    BY <1>4 DEF TakeLock
  <2>2. n \in Names \cup {File} BY <1>3, <2>1 DEF NextLocks, Missing
  <2>3. /\ owner' \in [Names \cup {File} -> Writers \cup {Nobody}]
        /\ \A m \in Names \cup {File} : owner[m] = w => owner'[m] = w
        /\ \A v \in Writers \ {w}, m \in Names \cup {File} : owner'[m] = v <=> owner[m] = v
    BY <1>1, <2>1, <2>2, NobodyAssumption DEF Typed
  <2>4. pc' = pc BY <1>4 DEF TakeLock
  <2>5. Typed' BY <1>1, <1>2, <2>3, <2>4 DEF Typed
  <2>6. \A v \in Writers \ {w} : Untouched(v) BY <1>2, <2>3, <2>4 DEF Untouched
  <2>7. Holds(w)' BY <1>1, <1>2, <1>3, <2>4 DEF Holds
  <2>8. Inside(w) \subseteq Inside(w)'
    BY <1>1, <1>2, <1>3, <2>3, <2>4 DEF Inside, Asked, Typed
  <2> QED BY <1>2, <2>5, <2>6, <2>7, <2>8 DEF Result, Grows
<1>5. CASE Enter(w)
  <2>1. owner' = owner /\ pc' = [pc EXCEPT ![w] = "inside"] /\ Missing(w) = {} BY <1>5 DEF Enter
  <2>2. Typed' BY <1>1, <1>2, <2>1 DEF Typed, Steps
  <2>3. \A v \in Writers \ {w} : Untouched(v) BY <1>1, <1>2, <2>1 DEF Untouched, Typed
  <2>4. Holds(w)' BY <1>1, <1>2, <1>3, <2>1 DEF Holds, Missing, Typed
  <2>5. Inside(w) \subseteq Inside(w)' BY <1>1, <1>2, <1>3, <2>1 DEF Inside, Typed
  <2> QED BY <1>2, <2>2, <2>3, <2>4, <2>5 DEF Result, Grows
<1> QED BY <1>4, <1>5

\* A transaction that joins a name, or draws a number, stays where it is.
LEMMA Working ==
  ASSUME IInv, NEW w \in Writers, Join(w) \/ Draw(w)
  PROVE  Result(w)
<1>1. Typed /\ Holds(w) /\ NoGaps BY DEF IInv
<1>2. UNCHANGED <<dialect, want, owner, numbers, rows>> /\ pc[w] = "inside"
  BY DEF Join, Draw
<1>3. CASE Join(w)
  <2>1. PICK n \in Names \ Asked(w) : more' = [more EXCEPT ![w] = @ \cup {n}]
    BY <1>3 DEF Join
  <2>2. dialect = "postgres" /\ pc' = [pc EXCEPT ![w] = "locking"] /\ drawn' = drawn
    BY <1>3 DEF Join
  <2>3. Typed' BY <1>1, <1>2, <2>1, <2>2 DEF Typed, Steps
  <2>4. \A v \in Writers \ {w} : Untouched(v)
    BY <1>1, <1>2, <2>1, <2>2 DEF Untouched, Typed
  <2>5. Holds(w)' BY <1>1, <1>2, <2>2, <2>1 DEF Holds, Typed
  <2>6. Inside(w) \subseteq Inside(w)'
    <3>1. \A m \in Inside(w) : m \in Asked(w) /\ owner[m] = w
      BY <1>1, <1>2, <2>2 DEF Inside
    <3>2. Asked(w) \subseteq Asked(w)' /\ more'[w] # {} BY <1>1, <1>2, <2>1 DEF Asked, Typed
    <3> QED BY <1>1, <1>2, <2>2, <3>1, <3>2 DEF Inside, Typed
  <2> QED BY <1>2, <2>2, <2>3, <2>4, <2>5, <2>6 DEF Result, Grows
<1>4. CASE Draw(w)
  <2>1. PICK n \in Asked(w) : /\ drawn[w][n] = 0 /\ rows[n] < MaxRows[n]
                              /\ drawn' = [drawn EXCEPT ![w][n] = Largest(n) + 1]
    BY <1>4 DEF Draw
  <2>2. UNCHANGED <<pc, more>> BY <1>4 DEF Draw
  <2>3. n \in Names /\ n \in Inside(w)
    BY <1>1, <1>2, <2>1 DEF Asked, Inside, Holds, Wanted, Typed
  <2>4. Largest(n) = rows[n] /\ rows[n] \in Nat
    BY <1>1, <2>3, LargestIsLast, LocksAssumption DEF Typed
  <2>5. Typed' BY <1>1, <1>2, <2>1, <2>2, <2>3, <2>4 DEF Typed
  <2>6. \A v \in Writers \ {w} : Untouched(v)
    BY <1>1, <1>2, <2>1, <2>2 DEF Untouched, Typed
  <2>7. Holds(w)' BY <1>1, <1>2, <2>2 DEF Holds, Wanted, Asked
  <2>8. Inside(w)' = Inside(w) BY <1>2, <2>2 DEF Inside, Asked
  <2>9. \A m \in Names : drawn'[w][m] # 0 =>
          \/ drawn'[w][m] = drawn[w][m]
          \/ m \in Inside(w) /\ drawn'[w][m] = rows[m] + 1 /\ rows[m] < MaxRows[m]
    BY <1>1, <2>1, <2>3, <2>4 DEF Typed
  <2> QED BY <1>2, <2>5, <2>6, <2>7, <2>8, <2>9 DEF Result, Grows
<1> QED BY <1>3, <1>4

\* A transaction that ends, one way or another, leaves every name; only a commit
\* lets the others see its numbers.
LEMMA Ending ==
  ASSUME IInv, NEW w \in Writers, LockTimeout(w) \/ Commit(w) \/ Fail(w)
  PROVE  Result(w)
<1>1. Typed /\ Holds(w) /\ DrawnNext(w) BY DEF IInv
<1>2. Ended(w) /\ dialect' = dialect BY DEF LockTimeout, Commit, Fail
<1>3. UNCHANGED <<numbers, rows>> \/ Commits(w)
  BY DEF LockTimeout, Commit, Fail, Commits
<1>4. rows' \in [Names -> Nat]
  <2>1. CASE Commits(w)
    <3>1. \A n \in Names : drawn[w][n] # 0 => rows[n] + 1 \in Nat
      BY <1>1, LocksAssumption DEF DrawnNext, Typed
    <3> QED BY <1>1, <2>1, <3>1 DEF Commits, Typed
  <2>2. CASE UNCHANGED <<numbers, rows>> BY <1>1, <2>2 DEF Typed
  <2> QED BY <1>3, <2>1, <2>2
<1>5. Typed' BY <1>1, <1>2, <1>4, EndedStep DEF Typed
<1>6. \A v \in Writers \ {w} : Untouched(v) BY <1>1, <1>2, EndedStep
<1>7. Holds(w)' /\ Inside(w)' = {} /\ drawn'[w] = NothingDrawn
  <2>1. CASE dialect = "mysql"
    <3>1. pc'[w] = "releasing" /\ more'[w] = {}
      BY <1>1, <1>2, <2>1, EndedStep DEF Holds
    <3> QED BY <1>1, <1>2, <2>1, <3>1, EndedStep DEF Holds, Inside
  <2>2. CASE dialect # "mysql"
    <3>1. /\ pc'[w] = "idle" /\ more'[w] = {} /\ drawn'[w] = NothingDrawn
          /\ \A n \in Names \cup {File} : owner'[n] # w
      BY <1>1, <1>2, <2>2, EndedStep
    <3> QED BY <1>2, <3>1 DEF Holds, Inside
  <2> QED BY <2>1, <2>2
<1> QED BY <1>2, <1>3, <1>5, <1>6, <1>7 DEF Result, Leaves

\* Once the transaction is over, its writer is inside nothing.
LEMMA Clearing ==
  ASSUME IInv, NEW w \in Writers, Release(w) \/ Released(w) \/ Reap(w)
  PROVE  Result(w)
<1>1. Typed /\ Holds(w) BY DEF IInv
<1>2. /\ UNCHANGED <<dialect, drawn, numbers, rows>> /\ pc[w] \in {"releasing", "orphan"}
      /\ Inside(w) = {} /\ more[w] = {}
  BY <1>1 DEF Release, Released, Reap, Inside, Holds
<1>3. CASE Release(w)
  <2>1. PICK n \in Names : owner[n] = w /\ owner' = [owner EXCEPT ![n] = Nobody]
    BY <1>3 DEF Release
  <2>2. UNCHANGED <<pc, want, more>> BY <1>3 DEF Release
  <2>3. Typed' BY <1>1, <1>2, <2>1, <2>2 DEF Typed
  <2>4. \A v \in Writers \ {w} : Untouched(v)
    BY <1>1, <1>2, <2>1, <2>2, NobodyAssumption DEF Untouched, Typed
  <2>5. Holds(w)' BY <1>1, <1>2, <2>2 DEF Holds
  <2> QED BY <1>2, <2>3, <2>4, <2>5 DEF Result, Grows
<1>4. CASE Released(w)
  <2>1. Over(w) /\ owner' = owner /\ \A n \in Names : owner[n] # w
    BY <1>1, <1>4 DEF Released, Holds
  <2>2. /\ pc' \in [Writers -> Steps] /\ pc'[w] = "idle"
        /\ \A v \in Writers \ {w} : pc'[v] = pc[v] \/ (pc[v] = "turn" /\ pc'[v] = "pool")
    BY <1>1, <2>1 DEF Over, GoTo, Typed, Steps
  <2>3. /\ want' \in [Writers -> SUBSET Names] /\ more' \in [Writers -> SUBSET Names]
        /\ more'[w] = {}
        /\ \A v \in Writers \ {w} : want'[v] = want[v] /\ more'[v] = more[v]
    BY <1>1, <2>1 DEF Over, Forget, Typed
  <2>4. Typed' BY <1>1, <1>2, <2>1, <2>2, <2>3 DEF Typed
  <2>5. \A v \in Writers \ {w} : Untouched(v) BY <1>2, <2>1, <2>2, <2>3 DEF Untouched
  <2>6. dialect # "sqlite" BY <1>1, <1>4 DEF Released, Holds
  <2>7. Holds(w)' BY <1>2, <2>1, <2>2, <2>3, <2>6 DEF Holds
  <2> QED BY <1>2, <2>4, <2>5, <2>7 DEF Result, Grows
<1>5. CASE Reap(w)
  <2>1. owner' = Unlocked(w) /\ pc' = [pc EXCEPT ![w] = "idle"] /\ UNCHANGED <<want, more>>
    BY <1>5 DEF Reap
  <2>2. /\ owner' \in [Names \cup {File} -> Writers \cup {Nobody}]
        /\ \A n \in Names \cup {File} : owner'[n] # w
        /\ \A v \in Writers \ {w}, n \in Names \cup {File} : owner'[n] = v <=> owner[n] = v
    BY <1>1, <2>1, NobodyAssumption DEF Unlocked, Typed
  <2>3. Typed' BY <1>1, <1>2, <2>1, <2>2 DEF Typed, Steps
  <2>4. \A v \in Writers \ {w} : Untouched(v) BY <1>1, <1>2, <2>1, <2>2 DEF Untouched, Typed
  <2>5. Holds(w)' BY <1>1, <1>2, <2>1, <2>2 DEF Holds, Typed
  <2> QED BY <1>2, <2>3, <2>4, <2>5 DEF Result, Grows
<1> QED BY <1>3, <1>4, <1>5

LEMMA StepResult ==
  ASSUME IInv, NEW w \in Writers, StepOf(w)
  PROVE  Result(w)
BY Waiting, Locking, Working, Ending, Clearing DEF StepOf, GoesOn

-----------------------------------------------------------------------------
(* A server that dies *)

Gone(s) == { w \in Writers : Home[w] = s }

\* Its writers are inside nothing any more, and the others see nothing of it.
LEMMA Crashing ==
  ASSUME IInv, NEW s \in Servers, Crash(s)
  PROVE  /\ Typed' /\ UNCHANGED <<dialect, numbers, rows>>
         /\ \A w \in Gone(s) : Holds(w)' /\ Inside(w)' = {} /\ drawn'[w] = NothingDrawn
         /\ \A v \in Writers \ Gone(s) : Untouched(v)
<1>1. Typed BY DEF IInv
<1>2. UNCHANGED <<dialect, owner, numbers, rows>> BY DEF Crash
<1>3. /\ pc' \in [Writers -> Steps]
      /\ \A v \in Writers \ Gone(s) : pc'[v] = pc[v]
      /\ \A w \in Gone(s) :
           \/ pc'[w] = "orphan"
           \/ pc'[w] = "idle" /\ pc[w] \in {"idle", "turn", "pool"}
  <2>1. \A w \in Writers : pc[w] \in Steps BY <1>1 DEF Typed
  <2> QED BY <2>1 DEF Crash, Connected, Steps, Gone
<1>4. /\ want' \in [Writers -> SUBSET Names] /\ more' \in [Writers -> SUBSET Names]
      /\ drawn' \in [Writers -> [Names -> Nat]]
      /\ \A w \in Gone(s) : more'[w] = {} /\ drawn'[w] = NothingDrawn
      /\ \A v \in Writers \ Gone(s) : want'[v] = want[v] /\ more'[v] = more[v] /\ drawn'[v] = drawn[v]
  <2>1. NothingDrawn \in [Names -> Nat] BY DEF NothingDrawn
  <2> QED BY <1>1, <2>1 DEF Crash, Typed, Gone
<1>5. Typed' BY <1>1, <1>2, <1>3, <1>4 DEF Typed
<1>6. \A v \in Writers \ Gone(s) : Untouched(v) BY <1>2, <1>3, <1>4 DEF Untouched
<1>7. ASSUME NEW w \in Gone(s) PROVE Holds(w)' /\ Inside(w)' = {}
  <2>1. Holds(w) /\ w \in Writers BY <1>7 DEF IInv, Gone
  <2> QED BY <1>2, <1>3, <1>4, <2>1 DEF Holds, Inside
<1> QED BY <1>2, <1>4, <1>5, <1>6, <1>7

-----------------------------------------------------------------------------
(* The invariant *)

LEMMA InitInvariant == Init => IInv
<1> SUFFICES ASSUME Init PROVE IInv OBVIOUS
<1>1. Typed BY LocksAssumption DEF Init, Typed, Steps, NothingDrawn
<1>2. \A w \in Writers : Holds(w) BY NobodyAssumption DEF Init, Holds, File
<1>3. \A w \in Writers : DrawnNext(w) BY DEF Init, DrawnNext, NothingDrawn
<1>4. NoGaps BY DEF Init, NoGaps
<1> QED BY <1>1, <1>2, <1>3, <1>4 DEF IInv

\* A committed row has the number after the largest, so the series stays whole,
\* and a number another writer has drawn is one of another series.
LEMMA WriterStepInvariant ==
  ASSUME IInv, NEW w \in Writers, StepOf(w)
  PROVE  IInv'
<1>1. Result(w) BY StepResult
<1>2. Typed /\ Typed' /\ Exclusion /\ NoGaps BY <1>1, LocksExclude DEF IInv, Result
<1>3. ASSUME NEW v \in Writers \ {w} PROVE Holds(v)' /\ Inside(v)' = Inside(v)
  BY <1>1, <1>2, UntouchedKeeps DEF IInv, Result
<1>4. \A v \in Writers : Holds(v)' BY <1>1, <1>3 DEF Result
<1>5. \A n \in Names : drawn[w][n] # 0 =>
        n \in Inside(w) /\ drawn[w][n] = rows[n] + 1 /\ rows[n] < MaxRows[n]
  BY DEF IInv, DrawnNext
<1>6. UNCHANGED <<numbers, rows>> \/ Commits(w) BY <1>1 DEF Result, Grows, Leaves
<1>7. NoGaps'
  <2>1. CASE UNCHANGED <<numbers, rows>> BY <1>2, <2>1 DEF NoGaps
  <2>2. ASSUME Commits(w), NEW n \in Names PROVE numbers'[n] = 1 .. rows'[n]
    <3>1. numbers[n] = 1 .. rows[n] /\ rows[n] \in Nat
      BY <1>2, LocksAssumption DEF NoGaps, Typed
    <3>2. CASE drawn[w][n] = 0 BY <2>2, <3>1, <3>2 DEF Commits
    <3>3. CASE drawn[w][n] # 0
      <4>1. numbers'[n] = (1 .. rows[n]) \cup {rows[n] + 1} /\ rows'[n] = rows[n] + 1
        BY <1>5, <2>2, <3>1, <3>3 DEF Commits
      <4> QED BY <3>1, <4>1
    <3> QED BY <3>2, <3>3
  <2> QED BY <1>6, <2>1, <2>2 DEF NoGaps
<1>8. ASSUME NEW v \in Writers PROVE DrawnNext(v)'
  <2>1. CASE v = w
    <3>1. CASE Leaves(w) BY <2>1, <3>1 DEF Leaves, DrawnNext, NothingDrawn
    <3>2. CASE Grows(w) BY <1>5, <2>1, <3>2 DEF Grows, DrawnNext
    <3> QED BY <1>1, <3>1, <3>2 DEF Result
  <2>2. CASE v # w
    <3>1. drawn'[v] = drawn[v] /\ Inside(v)' = Inside(v)
      BY <1>1, <1>3, <2>2 DEF Result, Untouched
    <3>2. ASSUME NEW n \in Names, drawn[v][n] # 0 PROVE rows'[n] = rows[n]
      <4>1. n \in Inside(v) BY <3>2 DEF IInv, DrawnNext
      <4>2. drawn[w][n] = 0 BY <1>2, <1>5, <2>2, <4>1 DEF Exclusion
      <4> QED BY <1>6, <4>2 DEF Commits
    <3>3. DrawnNext(v) BY DEF IInv
    <3> QED BY <3>1, <3>2, <3>3 DEF DrawnNext
  <2> QED BY <2>1, <2>2
<1> QED BY <1>2, <1>4, <1>7, <1>8 DEF IInv

LEMMA CrashInvariant ==
  ASSUME IInv, NEW s \in Servers, Crash(s)
  PROVE  IInv'
<1>1. Typed /\ Typed' /\ UNCHANGED <<dialect, numbers, rows>> BY Crashing DEF IInv
<1>2. ASSUME NEW v \in Writers PROVE Holds(v)' /\ DrawnNext(v)'
  <2>1. CASE v \in Gone(s) BY <2>1, Crashing DEF DrawnNext, NothingDrawn
  <2>2. CASE v \notin Gone(s)
    <3>1. Untouched(v) /\ Holds(v) /\ DrawnNext(v) BY <2>2, Crashing DEF IInv
    <3>2. Holds(v)' /\ Inside(v)' = Inside(v) BY <1>1, <3>1, UntouchedKeeps
    <3> QED BY <1>1, <3>1, <3>2 DEF DrawnNext, Untouched
  <2> QED BY <2>1, <2>2
<1>3. NoGaps' BY <1>1 DEF IInv, NoGaps
<1> QED BY <1>1, <1>2, <1>3 DEF IInv

LEMMA StutterInvariant == IInv /\ UNCHANGED vars => IInv'
BY DEF IInv, vars, Typed, Holds, DrawnNext, NoGaps, Inside, Asked, Wanted

LEMMA NextIsSteps == Next <=> (\E w \in Writers : StepOf(w)) \/ (\E s \in Servers : Crash(s))
BY DEF Next, StepOf

LEMMA Invariant == Spec => []IInv
<1>1. IInv /\ [Next]_vars => IInv'
  BY NextIsSteps, WriterStepInvariant, CrashInvariant, StutterInvariant
<1> QED BY <1>1, InitInvariant, PTL DEF Spec

\* One writer at a time inside a name, in whichever server and on whichever
\* database, also while a dead server's session still owns the lock.
THEOREM OneWriterInside == Spec => []Exclusion
<1>1. IInv => Exclusion BY LocksExclude DEF IInv
<1> QED BY <1>1, Invariant, PTL

\* The committed numbers of a series are 1 to the count of its rows: a number is
\* drawn under the lock and committed before the lock is free.
THEOREM SeriesHaveNoGaps == Spec => []NoGaps
<1>1. IInv => NoGaps BY DEF IInv
<1> QED BY <1>1, Invariant, PTL

-----------------------------------------------------------------------------
(* The refinement *)

\* The invariant excludes after a step too.
LEMMA ExclusionNext == IInv' => Exclusion'
<1>1. IInv => Exclusion BY LocksExclude DEF IInv
<1> QED BY <1>1, PTL

\* The abstract state: what each writer is inside of.
Mapped == [w \in Writers |-> Inside(w)]

\* A writer's step is the abstract Enter, Leave or Number, or none at all.
LEMMA WriterStepMaps ==
  ASSUME IInv, IInv', NEW w \in Writers, StepOf(w)
  PROVE  Series!Next \/ UNCHANGED Series!vars
<1>1. Result(w) BY StepResult
<1>2. Exclusion /\ Exclusion' BY LocksExclude, ExclusionNext DEF IInv
<1>3. \A v \in Writers : Inside(v) \subseteq Names /\ Inside(v)' \subseteq Names
  BY DEF IInv, Typed, Inside, Asked
<1>4. \A v \in Writers \ {w} : Inside(v)' = Inside(v)
  BY <1>1, UntouchedKeeps DEF IInv, Result
<1>5. Mapped' = [Mapped EXCEPT ![w] = Inside(w)'] BY <1>4 DEF Mapped
<1>6. CASE Grows(w)
  <2>1. UNCHANGED <<numbers, rows>> /\ Inside(w) \subseteq Inside(w)' BY <1>6 DEF Grows
  <2>2. CASE Inside(w)' = Inside(w)
    <3>1. Mapped' = Mapped BY <1>5, <2>2 DEF Mapped
    <3> QED BY <2>1, <3>1 DEF Series!vars, Mapped
  <2>3. CASE Inside(w)' # Inside(w)
    <3>1. Inside(w)' # {} BY <2>1, <2>3
    <3>2. \A v \in Writers \ {w} : Mapped[v] \cap Inside(w)' = {}
      BY <1>2, <1>4 DEF Exclusion, Mapped
    <3>3. Mapped' = [Mapped EXCEPT ![w] = @ \cup Inside(w)'] BY <1>5, <2>1 DEF Mapped
    <3>4. Series!Enter(w, Inside(w)')
      BY <2>1, <3>1, <3>2, <3>3 DEF Series!Enter, Mapped
    <3> QED BY <1>3, <3>4 DEF Series!Next
  <2> QED BY <2>2, <2>3
<1>7. CASE Leaves(w) /\ UNCHANGED <<numbers, rows>>
  <2>1. Mapped' = [v \in Writers |-> IF v \in {w} THEN {} ELSE Mapped[v]]
    BY <1>5, <1>7 DEF Leaves, Mapped
  <2>2. Series!Leave({w}) BY <1>7, <2>1 DEF Series!Leave, Mapped
  <2> QED BY <2>2 DEF Series!Next
<1>8. CASE Leaves(w) /\ Commits(w)
  <2> DEFINE S == { n \in Names : drawn[w][n] # 0 }
  <2>1. \A n \in S : n \in Inside(w) /\ drawn[w][n] = rows[n] + 1 BY DEF IInv, DrawnNext
  <2>2. /\ numbers' = [n \in Names |-> IF n \in S THEN numbers[n] \cup {rows[n] + 1} ELSE numbers[n]]
        /\ rows' = [n \in Names |-> IF n \in S THEN rows[n] + 1 ELSE rows[n]]
    BY <1>8, <2>1 DEF Commits
  <2>3. Mapped' = [Mapped EXCEPT ![w] = {}] BY <1>5, <1>8 DEF Leaves
  <2>4. S \subseteq Mapped[w] BY <2>1 DEF Mapped
  <2>5. Series!Number(w, S) BY <2>2, <2>3, <2>4 DEF Series!Number, Mapped
  <2> QED BY <2>5 DEF Series!Next
<1> QED BY <1>1, <1>6, <1>7, <1>8 DEF Result, Leaves

\* A server that dies is the abstract Leave of all its writers.
LEMMA CrashMaps ==
  ASSUME IInv, NEW s \in Servers, Crash(s)
  PROVE  Series!Next
<1>1. Typed /\ Typed' /\ UNCHANGED <<dialect, numbers, rows>> BY Crashing DEF IInv
<1>2. \A w \in Gone(s) : Inside(w)' = {} BY Crashing
<1>3. \A v \in Writers \ Gone(s) : Inside(v)' = Inside(v)
  BY <1>1, Crashing, UntouchedKeeps DEF IInv
<1>4. Mapped' = [v \in Writers |-> IF v \in Gone(s) THEN {} ELSE Mapped[v]]
  BY <1>2, <1>3 DEF Mapped
<1>5. Series!Leave(Gone(s)) BY <1>1, <1>4 DEF Series!Leave, Mapped
<1>6. Gone(s) \in SUBSET Writers BY DEF Gone
<1> QED BY <1>5, <1>6 DEF Series!Next

\* Writers can rely on NumberSeries: every step of the locks, in every order, with
\* every timeout and crash, is one of its steps or changes nothing it speaks of.
THEOREM LocksImplementSeries == Spec => ImplementsSeries
<1>1. Init => Series!Init
  <2> SUFFICES ASSUME Init PROVE Series!Init OBVIOUS
  <2>1. \A w \in Writers : Inside(w) = {} BY DEF Init, Inside
  <2> QED BY <2>1 DEF Init, Series!Init
<1>2. IInv /\ IInv' /\ [Next]_vars => [Series!Next]_Series!vars
  <2> SUFFICES ASSUME IInv, IInv', [Next]_vars PROVE Series!Next \/ UNCHANGED Series!vars
    OBVIOUS
  <2>1. CASE UNCHANGED vars
    <3>1. \A w \in Writers : Inside(w)' = Inside(w) BY <2>1 DEF vars, Inside, Asked
    <3> QED BY <2>1, <3>1 DEF vars, Series!vars
  <2>2. CASE Next BY <2>2, NextIsSteps, WriterStepMaps, CrashMaps
  <2> QED BY <2>1, <2>2
<1> QED BY <1>1, <1>2, Invariant, PTL DEF Spec, ImplementsSeries, Series!Spec

-----------------------------------------------------------------------------
(* The order of the locks *)

\* The locks of this database.
Locks == IF dialect = "sqlite" THEN {File} ELSE Names

\* Unless a writer joined names, the locks it owns come before those it still has
\* to take.
TakesUpward(w) ==
  more[w] = {} /\ pc[w] = "locking" =>
    \A n \in Locks, m \in Missing(w) : owner[n] = w => n < m

LEMMA WantedAreLocks ==
  ASSUME Typed, NEW w \in Writers
  PROVE  Wanted(w) \subseteq Locks /\ Locks \subseteq Names \cup {File} /\ Locks \subseteq Nat
BY LocksAssumption DEF Typed, Wanted, Asked, Locks, File

\* Taking the least lock that is missing keeps the order; a connection begins
\* with none.
LEMMA WriterTakesUpward ==
  ASSUME IInv, NEW w \in Writers, StepOf(w), TakesUpward(w)
  PROVE  TakesUpward(w)'
<1> SUFFICES ASSUME more'[w] = {}, pc'[w] = "locking" PROVE TakesUpward(w)'
  BY DEF TakesUpward
<1>1. Typed /\ Holds(w) BY DEF IInv
<1>2. dialect' = dialect /\ Locks' = Locks BY StepResult DEF Result, Locks
<1>4. CASE TakeLock(w)
  <2>1. PICK k \in NextLocks(w) : owner' = [owner EXCEPT ![k] = w] BY <1>4 DEF TakeLock
  <2>2. UNCHANGED <<want, more, pc>> /\ pc[w] = "locking" /\ more[w] = {} BY <1>4 DEF TakeLock
  <2>3. Wanted(w)' = Wanted(w) BY <1>2, <2>2 DEF Wanted, Asked
  <2>4. k \in Missing(w) /\ \A m \in Missing(w) : k <= m BY <2>1 DEF NextLocks
  <2>5. Missing(w)' = Missing(w) \ {k}
    BY <1>1, <2>1, <2>3, <2>4, WantedAreLocks DEF Missing, Typed
  <2>6. ASSUME NEW n \in Locks, NEW m \in Missing(w)', owner'[n] = w PROVE n < m
    <3>1. m \in Missing(w) /\ m # k /\ m \in Nat /\ k \in Nat /\ n \in Nat
      BY <1>1, <2>4, <2>5, <2>6, WantedAreLocks DEF Missing
    <3>2. CASE n = k BY <2>4, <3>1, <3>2
    <3>3. CASE n # k
      <4>1. owner[n] = w BY <1>1, <2>1, <2>6, <3>3, WantedAreLocks DEF Typed
      <4> QED BY <2>2, <3>1, <4>1 DEF TakesUpward
    <3> QED BY <3>2, <3>3
  <2> QED BY <1>2, <2>6 DEF TakesUpward
<1>5. CASE Connect(w)
  <2>1. owner' = owner /\ pc[w] = "pool" BY <1>5 DEF Connect
  <2>2. \A n \in Locks : owner'[n] # w BY <1>1, <2>1 DEF Holds, Locks
  <2> QED BY <1>2, <2>2 DEF TakesUpward
<1>6. CASE ~TakeLock(w) /\ ~Connect(w)
  <2>1. UNCHANGED <<pc, want, more, owner>>
    <3>1. ~Ended(w) BY <1>1, EndedStep
    <3>2. ~Join(w) BY <1>1 DEF Join, Typed
    <3> QED
      BY <1>1, <1>6, <3>1, <3>2 DEF StepOf, GoesOn, Call, CallPlain, Enter, Draw, Commit, Release,
         Released, Reap, TurnTimeout, LockTimeout, Fail, Over, GoTo, Typed
  <2> QED BY <1>2, <2>1 DEF TakesUpward, Missing, Wanted, Asked
<1> QED BY <1>4, <1>5, <1>6

LEMMA OthersTakeUpward ==
  ASSUME Typed, Typed', dialect' = dialect, NEW v \in Writers, Untouched(v), TakesUpward(v)
  PROVE  TakesUpward(v)'
<1>1. Wanted(v)' = Wanted(v) /\ Locks' = Locks BY DEF Untouched, Wanted, Asked, Locks
<1>2. Wanted(v) \subseteq Names \cup {File} /\ Locks \subseteq Names \cup {File}
  BY WantedAreLocks
<1>3. Missing(v)' = Missing(v) BY <1>1, <1>2 DEF Missing, Untouched
<1> QED BY <1>1, <1>2, <1>3 DEF TakesUpward, Untouched

\* No circle of waits: whoever waits, waits for a name that comes before the one
\* its owner waits for, unless that one joined names, on every database and for
\* any number of writers and names.
THEOREM NoWaitsInACircle == Spec => []WaitsGoUp
<1> DEFINE Inv == \A w \in Writers : TakesUpward(w)
<1>1. Init => Inv BY DEF Init, TakesUpward
<1>2. IInv /\ Inv /\ [Next]_vars => Inv'
  <2> SUFFICES ASSUME IInv, Inv, [Next]_vars, NEW v \in Writers
               PROVE  TakesUpward(v)'
    OBVIOUS
  <2>1. CASE UNCHANGED vars
    BY <2>1 DEF vars, TakesUpward, Locks, Missing, Wanted, Asked
  <2>2. ASSUME NEW w \in Writers, StepOf(w) PROVE TakesUpward(v)'
    <3>1. CASE v = w BY <2>2, <3>1, WriterTakesUpward
    <3>2. CASE v # w BY <2>2, <3>2, StepResult, OthersTakeUpward DEF IInv, Result
    <3> QED BY <3>1, <3>2
  <2>3. ASSUME NEW s \in Servers, Crash(s) PROVE TakesUpward(v)'
    <3>1. Typed /\ Typed' /\ dialect' = dialect BY <2>3, Crashing DEF IInv
    <3>2. CASE v \in Gone(s)
      <4>1. more'[v] = {} /\ pc'[v] # "locking"
        BY <2>3, <3>1, <3>2 DEF Crash, Gone, Connected, IInv, Typed
      <4> QED BY <4>1 DEF TakesUpward
    <3>3. CASE v \notin Gone(s) BY <2>3, <3>1, <3>3, Crashing, OthersTakeUpward
    <3> QED BY <3>2, <3>3
  <2> QED BY <2>1, <2>2, <2>3, NextIsSteps
<1>3. IInv /\ Inv => WaitsGoUp
  <2> SUFFICES ASSUME IInv, Inv, NEW v \in Writers, NEW w \in Writers,
                      pc[v] = "locking", more[v] = {}, NEW n \in NextLocks(w), NEW m \in NextLocks(v),
                      owner[n] = v
               PROVE  n < m
    BY DEF WaitsGoUp
  <2>1. n \in Locks /\ m \in Missing(v) BY WantedAreLocks DEF IInv, NextLocks, Missing
  <2> QED BY <2>1 DEF TakesUpward
<1> HIDE DEF Inv
<1> QED BY <1>1, <1>2, <1>3, Invariant, PTL DEF Spec

-----------------------------------------------------------------------------
(* The turns *)

AtWork == { "pool", "locking", "inside", "releasing" }

\* A line is a writer at work, which has the turn, and behind it others that
\* wait, each once, all of that server and for that set of names.
LineFits(s, S) ==
  /\ S = {} => turns[s][S] = <<>>
  /\ \A i \in 1 .. Len(turns[s][S]) :
       LET v == turns[s][S][i] IN
       /\ Home[v] = s /\ want[v] = S
       /\ IF i = 1 THEN pc[v] \in AtWork ELSE pc[v] = "turn"
       /\ \A j \in 1 .. Len(turns[s][S]) : turns[s][S][j] = v => i = j

\* Whoever waits or works is in the line of what it asked for, unless it asked
\* for nothing.
InLine(w) ==
  /\ pc[w] \in { "idle", "orphan" } => want[w] = {}
  /\ pc[w] = "turn" => want[w] # {}
  /\ pc[w] \in AtWork \cup { "turn" } /\ want[w] # {} => \E i \in 1 .. Len(Line(w)) : Line(w)[i] = w

TurnInv ==
  /\ Typed
  /\ turns \in [Servers -> [SUBSET Names -> Seq(Writers)]]
  /\ \A s \in Servers, S \in SUBSET Names : LineFits(s, S)
  /\ \A w \in Writers : InLine(w)

\* A line's places.
LEMMA LineType ==
  ASSUME TurnInv, NEW s \in Servers, NEW S \in SUBSET Names
  PROVE  /\ turns[s][S] \in Seq(Writers) /\ Len(turns[s][S]) \in Nat
         /\ \A i \in 1 .. Len(turns[s][S]) : turns[s][S][i] \in Writers
BY DEF TurnInv

LEMMA HomeType == \A w \in Writers : Home[w] \in Servers
BY LocksAssumption

LEMMA OwnLine ==
  ASSUME TurnInv, NEW w \in Writers
  PROVE  /\ Home[w] \in Servers /\ want[w] \in SUBSET Names
         /\ Line(w) = turns[Home[w]][want[w]] /\ Line(w) \in Seq(Writers) /\ Len(Line(w)) \in Nat
         /\ LineFits(Home[w], want[w]) /\ InLine(w)
BY HomeType DEF TurnInv, Typed, Line

\* Who has the turn is first, who waits is behind it.
LEMMA FitTurnsKept == TurnInv => TurnsKept
<1> SUFFICES ASSUME TurnInv, NEW w \in Writers
             PROVE  /\ pc[w] = "turn" => \E i \in 2 .. Len(Line(w)) : Line(w)[i] = w
                    /\ pc[w] \in AtWork /\ want[w] # {} => Line(w) # <<>> /\ Head(Line(w)) = w
  BY DEF TurnsKept, AtWork
<1>1. /\ Line(w) \in Seq(Writers) /\ Len(Line(w)) \in Nat /\ Line(w) = turns[Home[w]][want[w]]
      /\ LineFits(Home[w], want[w]) /\ InLine(w)
  BY OwnLine
<1>2. ASSUME NEW i \in 1 .. Len(Line(w)), Line(w)[i] = w
      PROVE  IF i = 1 THEN pc[w] \in AtWork ELSE pc[w] = "turn"
  BY <1>1, <1>2 DEF LineFits
<1>3. ASSUME pc[w] = "turn" PROVE \E i \in 2 .. Len(Line(w)) : Line(w)[i] = w
  <2>1. PICK i \in 1 .. Len(Line(w)) : Line(w)[i] = w BY <1>1, <1>3 DEF InLine
  <2>2. i # 1 BY <1>2, <1>3, <2>1 DEF AtWork
  <2>3. i \in 2 .. Len(Line(w)) BY <1>1, <2>2
  <2> QED BY <2>1, <2>3
<1>4. ASSUME pc[w] \in AtWork, want[w] # {} PROVE Line(w) # <<>> /\ Head(Line(w)) = w
  <2>1. PICK i \in 1 .. Len(Line(w)) : Line(w)[i] = w BY <1>1, <1>4 DEF InLine
  <2>2. i = 1 BY <1>2, <1>4, <2>1 DEF AtWork
  <2> QED BY <1>1, <2>1, <2>2
<1> QED BY <1>3, <1>4

\* Steps of writers at work, or of writers that asked for nothing, leave the lines
\* alone.
LEMMA LinesStay ==
  ASSUME TurnInv, Typed', UNCHANGED <<turns, want>>,
         \A v \in Writers : \/ pc'[v] = pc[v]
                            \/ {pc[v], pc'[v]} \subseteq AtWork
                            \/ want[v] = {} /\ pc'[v] # "turn"
  PROVE  TurnInv'
<1>1. ASSUME NEW s \in Servers, NEW S \in SUBSET Names PROVE LineFits(s, S)'
  <2>1. LineFits(s, S) BY DEF TurnInv
  <2>2. ASSUME NEW i \in 1 .. Len(turns[s][S])
        PROVE  LET v == turns[s][S][i] IN
               IF i = 1 THEN pc'[v] \in AtWork ELSE pc'[v] = "turn"
    <3>1. S # {} BY <2>1 DEF LineFits
    <3>2. turns[s][S][i] \in Writers BY LineType
    <3> QED BY <2>1, <3>1, <3>2 DEF LineFits, AtWork
  <2> QED BY <2>1, <2>2 DEF LineFits
<1>2. ASSUME NEW w \in Writers PROVE InLine(w)'
  <2>1. InLine(w) /\ Line(w)' = Line(w) BY DEF TurnInv, Line
  <2>2. pc[w] \in Steps BY DEF TurnInv, Typed
  <2> QED BY <2>1, <2>2 DEF InLine, AtWork, Steps
<1> QED BY <1>1, <1>2 DEF TurnInv

\* A line whose writers do not change, and stay where they are.
LEMMA OtherLines ==
  ASSUME TurnInv, NEW s \in Servers, NEW S \in SUBSET Names, turns'[s][S] = turns[s][S],
         \A v \in Writers : \/ pc'[v] = pc[v] /\ want'[v] = want[v]
                            \/ Home[v] # s \/ want[v] # S
                            \/ pc[v] = "idle"
  PROVE  LineFits(s, S)'
<1>1. LineFits(s, S) BY DEF TurnInv
<1>2. ASSUME NEW i \in 1 .. Len(turns[s][S])
      PROVE  LET v == turns[s][S][i] IN pc'[v] = pc[v] /\ want'[v] = want[v]
  <2>1. turns[s][S][i] \in Writers BY LineType
  <2> QED BY <1>1, <2>1 DEF LineFits, AtWork
<1> QED BY <1>1, <1>2 DEF LineFits

\* A call takes the free turn, or its place at the end.
LEMMA CallTurns ==
  ASSUME TurnInv, Typed', NEW w \in Writers, Call(w)
  PROVE  TurnInv'
<1>1. PICK T \in (SUBSET Names) \ {{}} :
        /\ want' = [want EXCEPT ![w] = T]
        /\ turns' = [turns EXCEPT ![Home[w]][T] = Append(@, w)]
        /\ pc' = [pc EXCEPT ![w] = IF turns[Home[w]][T] = <<>> THEN "pool" ELSE "turn"]
  BY DEF Call
<1> DEFINE L == turns[Home[w]][T]
<1>2. /\ pc[w] = "idle" /\ Home[w] \in Servers /\ T \in SUBSET Names /\ T # {}
      /\ L \in Seq(Writers) /\ Len(L) \in Nat /\ LineFits(Home[w], T)
  BY HomeType DEF Call, TurnInv
<1>3. /\ turns'[Home[w]][T] = Append(L, w) /\ Append(L, w) \in Seq(Writers) /\ Len(Append(L, w)) = Len(L) + 1
      /\ \A i \in 1 .. Len(L) : Append(L, w)[i] = L[i] /\ L[i] \in Writers
      /\ Append(L, w)[Len(L) + 1] = w
  BY <1>1, <1>2, AppendProperties DEF TurnInv
<1>4. /\ want'[w] = T /\ pc'[w] = IF L = <<>> THEN "pool" ELSE "turn"
      /\ \A v \in Writers \ {w} : pc'[v] = pc[v] /\ want'[v] = want[v]
  BY <1>1 DEF TurnInv, Typed
<1>5. L = <<>> <=> Len(L) = 0 BY <1>2, EmptySeq
<1>6. LineFits(Home[w], T)'
  <2> DEFINE M == turns'[Home[w]][T]
  <2>1. ASSUME NEW i \in 1 .. Len(L) PROVE M[i] = L[i] /\ L[i] \in Writers \ {w}
    BY <1>2, <1>3 DEF LineFits, AtWork
  <2>2. ASSUME NEW i \in 1 .. Len(M)
        PROVE  /\ Home[M[i]] = Home[w] /\ want'[M[i]] = T
               /\ IF i = 1 THEN pc'[M[i]] \in AtWork ELSE pc'[M[i]] = "turn"
               /\ \A j \in 1 .. Len(M) : M[j] = M[i] => i = j
    <3>1. CASE i \in 1 .. Len(L)
      <4>1. M[i] = L[i] /\ L[i] \in Writers \ {w} BY <2>1, <3>1
      <4>2. \A j \in 1 .. Len(M) : M[j] = M[i] => j \in 1 .. Len(L) BY <1>2, <1>3, <4>1
      <4> QED BY <1>2, <1>4, <2>1, <3>1, <4>1, <4>2 DEF LineFits
    <3>2. CASE i = Len(L) + 1
      <4>1. M[i] = w BY <1>3, <3>2
      <4>2. ASSUME NEW j \in 1 .. Len(M), M[j] = w PROVE j = Len(L) + 1
        <5>1. j \in 1 .. Len(L) \/ j = Len(L) + 1 BY <1>2, <1>3
        <5> QED BY <2>1, <4>2, <5>1
      <4> QED BY <1>2, <1>4, <1>5, <3>2, <4>1, <4>2 DEF AtWork
    <3> QED BY <1>2, <1>3, <3>1, <3>2
  <2> QED BY <1>2, <2>2 DEF LineFits
<1>7. ASSUME NEW s \in Servers, NEW S \in SUBSET Names PROVE LineFits(s, S)'
  <2>1. CASE s = Home[w] /\ S = T BY <1>6, <2>1
  <2>2. CASE s # Home[w] \/ S # T
    <3>1. turns'[s][S] = turns[s][S] BY <1>1, <1>2, <2>2 DEF TurnInv
    <3>2. \A v \in Writers : (pc'[v] = pc[v] /\ want'[v] = want[v]) \/ pc[v] = "idle"
      BY <1>2, <1>4
    <3> QED BY <3>1, <3>2, OtherLines
  <2> QED BY <2>1, <2>2
<1>8. ASSUME NEW v \in Writers PROVE InLine(v)'
  <2>1. CASE v = w
    <3>1. Line(w)' = Append(L, w) BY <1>3, <1>4 DEF Line
    <3>2. Len(L) + 1 \in 1 .. Len(Line(w)') /\ Line(w)'[Len(L) + 1] = w BY <1>2, <1>3, <3>1
    <3> QED BY <1>2, <1>4, <2>1, <3>2 DEF InLine, AtWork
  <2>2. CASE v # w
    <3>1. InLine(v) /\ pc'[v] = pc[v] /\ want'[v] = want[v] BY <1>4, <2>2 DEF TurnInv
    <3>2. CASE Home[v] = Home[w] /\ want[v] = T
      <4>1. Line(v) = L /\ Line(v)' = Append(L, w) BY <1>3, <3>1, <3>2 DEF Line
      <4> QED BY <1>2, <1>3, <3>1, <4>1 DEF InLine
    <3>3. CASE ~(Home[v] = Home[w] /\ want[v] = T)
      <4>1. turns'[Home[v]][want[v]] = turns[Home[v]][want[v]]
        BY <1>1, <1>2, <3>3, OwnLine DEF TurnInv
      <4> QED BY <3>1, <4>1 DEF InLine, Line
    <3> QED BY <3>2, <3>3
  <2> QED BY <2>1, <2>2
<1>9. turns' \in [Servers -> [SUBSET Names -> Seq(Writers)]]
  BY <1>1, <1>2, <1>3 DEF TurnInv
<1> QED BY <1>7, <1>8, <1>9 DEF TurnInv

\* A writer leaves its line: those behind it move up, and where it had the turn
\* the next one has it.
LEMMA LeavesLine ==
  ASSUME TurnInv, Typed', NEW w \in Writers, want[w] # {},
         NEW k \in 1 .. Len(Line(w)), Line(w)[k] = w,
         NEW M \in Seq(Writers), Len(M) = Len(Line(w)) - 1,
         \A i \in 1 .. Len(M) : M[i] = IF i < k THEN Line(w)[i] ELSE Line(w)[i + 1],
         NewLine(w, M), pc'[w] = "idle", want'[w] = {},
         \A v \in Writers \ {w} :
           /\ want'[v] = want[v]
           /\ pc'[v] = IF k = 1 /\ M # <<>> /\ v = M[1] THEN "pool" ELSE pc[v]
  PROVE  TurnInv'
<1>0. PICK L \in Seq(Writers), T \in SUBSET Names, H \in Servers :
        L = Line(w) /\ T = want[w] /\ H = Home[w]
  BY OwnLine
<1>1. /\ H \in Servers /\ T \in SUBSET Names /\ T # {} /\ L = turns[H][T]
      /\ L \in Seq(Writers) /\ Len(L) \in Nat /\ Len(M) \in Nat /\ LineFits(H, T)
      /\ \A i \in 1 .. Len(L) : L[i] \in Writers
      /\ k \in 1 .. Len(L) /\ L[k] = w /\ Len(M) = Len(L) - 1
      /\ \A i \in 1 .. Len(M) : M[i] = IF i < k THEN L[i] ELSE L[i + 1]
  BY <1>0, OwnLine
<1>2. /\ turns' = [turns EXCEPT ![H][T] = M] /\ turns'[H][T] = M
      /\ turns' \in [Servers -> [SUBSET Names -> Seq(Writers)]]
  BY <1>0, <1>1 DEF NewLine, TurnInv
<1>3. M = <<>> <=> Len(M) = 0 BY <1>1, EmptySeq
<1>4. \A i \in 1 .. Len(L), j \in 1 .. Len(L) : L[i] = L[j] => i = j
  BY <1>1 DEF LineFits
<1>4a. ASSUME NEW at \in 1 .. Len(L)
       PROVE  /\ Home[L[at]] = H /\ want[L[at]] = T
              /\ IF at = 1 THEN pc[L[at]] \in AtWork ELSE pc[L[at]] = "turn"
  <2>1. LineFits(H, T) /\ turns[H][T] = L BY <1>1
  <2> QED BY <2>1 DEF LineFits
<1>5. ASSUME NEW i \in 1 .. Len(M)
      PROVE  \E at \in 1 .. Len(L) : M[i] = L[at] /\ at # k /\ (at = IF i < k THEN i ELSE i + 1)
  <2>1. CASE i < k
    <3>1. i \in 1 .. Len(L) /\ M[i] = L[i] /\ i # k BY <1>1, <2>1
    <3> QED BY <2>1, <3>1
  <2>2. CASE ~(i < k)
    <3>1. i + 1 \in 1 .. Len(L) /\ M[i] = L[i + 1] /\ i + 1 # k BY <1>1, <2>2
    <3> QED BY <2>2, <3>1
  <2> QED BY <2>1, <2>2
<1>6. ASSUME NEW at \in 1 .. Len(L), at # k
      PROVE  \E i \in 1 .. Len(M) : M[i] = L[at]
  <2>1. CASE at < k
    <3>1. at \in 1 .. Len(M) /\ M[at] = L[at] BY <1>1, <2>1
    <3> QED BY <3>1
  <2>2. CASE ~(at < k)
    <3>1. at - 1 \in 1 .. Len(M) /\ ~(at - 1 < k) /\ (at - 1) + 1 = at BY <1>1, <1>6, <2>2
    <3>2. M[at - 1] = L[at] BY <1>1, <3>1
    <3> QED BY <3>1, <3>2
  <2> QED BY <2>1, <2>2
<1>7. LineFits(H, T)'
  <2>1. ASSUME NEW i \in 1 .. Len(M)
        PROVE  /\ Home[M[i]] = H /\ want'[M[i]] = T
               /\ IF i = 1 THEN pc'[M[i]] \in AtWork ELSE pc'[M[i]] = "turn"
               /\ \A j \in 1 .. Len(M) : M[j] = M[i] => i = j
    <3>1. PICK at \in 1 .. Len(L) : M[i] = L[at] /\ at # k /\ (at = IF i < k THEN i ELSE i + 1)
      BY <1>5
    <3>2. M[i] \in Writers /\ M[i] # w
      <4> QED BY <1>1, <1>4, <3>1
    <3>3. /\ Home[M[i]] = H /\ want[M[i]] = T
          /\ IF at = 1 THEN pc[M[i]] \in AtWork ELSE pc[M[i]] = "turn"
      BY <1>4a, <3>1
    <3>4. ASSUME NEW j \in 1 .. Len(M), M[j] = M[i] PROVE i = j
      <4>1. PICK bt \in 1 .. Len(L) : M[j] = L[bt] /\ bt # k /\ (bt = IF j < k THEN j ELSE j + 1)
        BY <1>5
      <4>2. at = bt BY <1>4, <3>1, <3>4, <4>1
      <4> QED BY <1>1, <3>1, <4>1, <4>2
    <3>5. want'[M[i]] = T BY <3>2, <3>3
    <3>6. IF i = 1 THEN pc'[M[i]] \in AtWork ELSE pc'[M[i]] = "turn"
      <4>1. pc'[M[i]] = IF k = 1 /\ M # <<>> /\ M[i] = M[1] THEN "pool" ELSE pc[M[i]] BY <3>2
      <4>2. CASE i = 1 /\ k = 1
        <5>1. M # <<>> BY <1>1, <1>3
        <5> QED BY <4>1, <4>2, <5>1 DEF AtWork
      <4>3. CASE i = 1 /\ k # 1
        <5>1. 1 < k BY <1>1, <4>3
        <5>2. at = 1 BY <3>1, <4>3, <5>1
        <5> QED BY <3>3, <4>1, <4>3, <5>2
      <4>4. CASE i # 1
        <5>1. M[i] # M[1]
          <6>1. 1 \in 1 .. Len(M) BY <1>1
          <6>2. PICK bt \in 1 .. Len(L) : M[1] = L[bt] /\ bt # k /\ (bt = IF 1 < k THEN 1 ELSE 1 + 1)
            BY <1>5, <6>1
          <6>3. at # bt BY <1>1, <3>1, <4>4, <6>2
          <6> QED BY <1>4, <3>1, <6>2, <6>3
        <5>2. at # 1 BY <1>1, <3>1, <4>4
        <5> QED BY <3>3, <4>1, <4>4, <5>1, <5>2
      <4> QED BY <4>2, <4>3, <4>4
    <3> QED BY <3>3, <3>4, <3>5, <3>6
  <2>2. T # {} BY <1>1
  <2>3. turns'[H][T] = M BY <1>2
  <2> QED BY <2>1, <2>2, <2>3 DEF LineFits
<1>8. \A v \in Writers : \/ pc'[v] = pc[v] /\ want'[v] = want[v]
                         \/ Home[v] = H /\ want[v] = T
                         \/ pc[v] = "idle"
  <2>1. ASSUME M # <<>> PROVE Home[M[1]] = H /\ want[M[1]] = T
    <3>1. 1 \in 1 .. Len(M) BY <1>1, <1>3, <2>1
    <3>2. PICK at \in 1 .. Len(L) : M[1] = L[at] BY <1>5, <3>1
    <3> QED BY <1>4a, <3>2
  <2> QED BY <1>0, <2>1
<1>9. ASSUME NEW s \in Servers, NEW S \in SUBSET Names, s # H \/ S # T
      PROVE  LineFits(s, S)' /\ turns'[s][S] = turns[s][S]
  <2>1. turns'[s][S] = turns[s][S] BY <1>1, <1>2, <1>9 DEF TurnInv
  <2>2. \A v \in Writers : \/ pc'[v] = pc[v] /\ want'[v] = want[v]
                           \/ Home[v] # s \/ want[v] # S
                           \/ pc[v] = "idle"
    BY <1>8, <1>9
  <2> QED BY <2>1, <2>2, OtherLines
<1>10. ASSUME NEW s \in Servers, NEW S \in SUBSET Names PROVE LineFits(s, S)'
  BY <1>7, <1>9
<1>11. ASSUME NEW v \in Writers PROVE InLine(v)'
  <2>1. CASE v = w
    BY <2>1 DEF InLine, AtWork
  <2>2. CASE v # w
    <3>1. InLine(v) /\ want'[v] = want[v] /\ Home[v] \in Servers /\ want[v] \in SUBSET Names
      BY <2>2, OwnLine
    <3>2. CASE Home[v] = H /\ want[v] = T
      <4>1. Line(v) = L /\ Line(v)' = M BY <1>0, <1>1, <1>2, <3>1, <3>2 DEF Line
      <4>2. ASSUME pc'[v] \in AtWork \cup { "turn" } PROVE \E i \in 1 .. Len(M) : M[i] = v
        <5>1. pc[v] \in AtWork \cup { "turn" } \/ (M # <<>> /\ v = M[1]) BY <2>2, <4>2
        <5>2. CASE pc[v] \in AtWork \cup { "turn" }
          <6>1. PICK at \in 1 .. Len(L) : L[at] = v BY <1>1, <3>1, <3>2, <4>1, <5>2 DEF InLine
          <6>2. at # k BY <1>1, <2>2, <6>1
          <6> QED BY <1>6, <6>1, <6>2
        <5>3. CASE M # <<>> /\ v = M[1]
          BY <1>1, <1>3, <5>3
        <5> QED BY <5>1, <5>2, <5>3
      <4>3. pc'[v] \in { "idle", "orphan" } => pc[v] \in { "idle", "orphan" } BY <2>2
      <4> QED BY <1>1, <3>1, <3>2, <4>1, <4>2, <4>3 DEF InLine
    <3>3. CASE ~(Home[v] = H /\ want[v] = T)
      <4>1. turns'[Home[v]][want[v]] = turns[Home[v]][want[v]] BY <1>9, <3>1, <3>3
      <4>2. pc'[v] = pc[v] \/ pc[v] = "idle" BY <1>8, <3>3
      <4>3. pc'[v] = pc[v]
        <5>1. ASSUME M # <<>> PROVE v # M[1]
          <6>1. 1 \in 1 .. Len(M) BY <1>1, <1>3, <5>1
          <6>2. PICK at \in 1 .. Len(L) : M[1] = L[at] BY <1>5, <6>1
          <6> QED BY <1>1, <3>3, <6>2 DEF LineFits
        <5> QED BY <2>2, <5>1
      <4> QED BY <3>1, <4>1, <4>3 DEF InLine, Line
    <3> QED BY <3>2, <3>3
  <2> QED BY <2>1, <2>2
<1> QED BY <1>2, <1>10, <1>11 DEF TurnInv

\* The end of a call hands its turn to the next in the line.
LEMMA OverTurns ==
  ASSUME TurnInv, Typed', NEW w \in Writers, pc[w] \in AtWork, Over(w)
  PROVE  TurnInv'
<1>1. /\ Line(w) \in Seq(Writers) /\ Len(Line(w)) \in Nat /\ Line(w) = turns[Home[w]][want[w]]
      /\ LineFits(Home[w], want[w]) /\ InLine(w) /\ Home[w] \in Servers /\ want[w] \in SUBSET Names
  BY OwnLine
<1>2. /\ want'[w] = {} /\ \A v \in Writers \ {w} : want'[v] = want[v]
      /\ pc'[w] = "idle" /\ NewLine(w, HandOn(Line(w)))
      /\ want' = [want EXCEPT ![w] = {}]
      /\ \A v \in Writers \ {w} :
           pc'[v] = IF /\ pc[v] = "turn" /\ Home[v] = Home[w] /\ want[v] = want[w]
                       /\ HandOn(Line(w)) # <<>> /\ Head(HandOn(Line(w))) = v
                    THEN "pool" ELSE pc[v]
  BY DEF Over, Forget, GoTo, TurnInv, Typed
<1>3. CASE want[w] = {}
  <2>1. Line(w) = <<>> BY <1>1, <1>3 DEF LineFits
  <2>2. HandOn(Line(w)) = <<>> BY <2>1 DEF HandOn
  <2>3. turns' = turns
    <3>1. turns' = [turns EXCEPT ![Home[w]][want[w]] = <<>>] /\ turns[Home[w]][want[w]] = <<>>
      BY <1>1, <1>2, <2>1, <2>2 DEF NewLine
    <3> QED BY <1>1, <3>1 DEF TurnInv
  <2>4. want' = want BY <1>2, <1>3 DEF TurnInv, Typed
  <2> QED BY <1>2, <1>3, <2>2, <2>3, <2>4, LinesStay
<1>4. CASE want[w] # {}
  <2>1. Line(w) # <<>> /\ Head(Line(w)) = w
    BY <1>4, FitTurnsKept DEF TurnsKept, AtWork
  <2> DEFINE M == Tail(Line(w))
  <2>2. /\ M \in Seq(Writers) /\ Len(M) = Len(Line(w)) - 1 /\ HandOn(Line(w)) = M
        /\ \A i \in 1 .. Len(M) : M[i] = Line(w)[i + 1]
    BY <1>1, <2>1, HeadTailProperties DEF HandOn
  <2>3. 1 \in 1 .. Len(Line(w)) /\ Line(w)[1] = w
    BY <1>1, <2>1, EmptySeq
  <2> HIDE DEF M
  <2>4. ASSUME NEW i \in 1 .. Len(M) PROVE M[i] = IF i < 1 THEN Line(w)[i] ELSE Line(w)[i + 1]
    <3>1. M[i] = Line(w)[i + 1] BY <2>2
    <3>2. ~(i < 1) BY <1>1, <2>2
    <3> QED BY <3>1, <3>2
  <2>5. ASSUME M # <<>>
        PROVE  /\ Head(M) = M[1] /\ M[1] \in Writers /\ pc[M[1]] = "turn"
               /\ Home[M[1]] = Home[w] /\ want[M[1]] = want[w]
    <3>1. 1 \in 1 .. Len(M) /\ Head(M) = M[1] BY <1>1, <2>2, <2>5, EmptySeq
    <3>2. M[1] = Line(w)[2] /\ 2 \in 1 .. Len(Line(w)) BY <1>1, <2>2, <3>1
    <3>3. Line(w)[2] \in Writers BY <1>1, <3>2, ElementOfSeq
    <3>4. pc[Line(w)[2]] = "turn" /\ Home[Line(w)[2]] = Home[w] /\ want[Line(w)[2]] = want[w]
      BY <1>1, <3>2 DEF LineFits
    <3> QED BY <3>1, <3>2, <3>3, <3>4
  <2>6. \A v \in Writers \ {w} : pc'[v] = IF M # <<>> /\ v = M[1] THEN "pool" ELSE pc[v]
    BY <1>2, <2>2, <2>5
  <2>7. \A v \in Writers \ {w} : /\ want'[v] = want[v]
                                 /\ pc'[v] = IF 1 = 1 /\ M # <<>> /\ v = M[1] THEN "pool" ELSE pc[v]
    BY <1>2, <2>6
  <2>8. NewLine(w, M) BY <1>2, <2>2
  <2> QED BY <1>2, <1>4, <2>2, <2>3, <2>4, <2>7, <2>8, LeavesLine
<1> QED BY <1>3, <1>4

\* Whoever gives up leaves its place, and the line closes up.
LEMMA TimeoutTurns ==
  ASSUME TurnInv, Typed', NEW w \in Writers, TurnTimeout(w)
  PROVE  TurnInv'
<1>1. /\ Line(w) \in Seq(Writers) /\ Len(Line(w)) \in Nat /\ Line(w) = turns[Home[w]][want[w]]
      /\ LineFits(Home[w], want[w]) /\ InLine(w)
      /\ \A i \in 1 .. Len(Line(w)) : Line(w)[i] \in Writers
  BY OwnLine
<1>2. /\ pc[w] = "turn" /\ want[w] # {}
      /\ pc'[w] = "idle" /\ want'[w] = {}
      /\ \A v \in Writers \ {w} : want'[v] = want[v] /\ pc'[v] = pc[v]
  BY <1>1 DEF TurnTimeout, Forget, TurnInv, Typed, InLine
<1>3. PICK k \in 2 .. Len(Line(w)) : Line(w)[k] = w
  BY <1>2, FitTurnsKept DEF TurnsKept
<1>4. k \in 1 .. Len(Line(w)) /\ k \in Nat /\ k # 1 BY <1>1, <1>3
<1>5. Places(w) = {k} /\ Min({k}) = k
  <2>1. \A i \in Places(w) : i = k BY <1>1, <1>3, <1>4 DEF Places, LineFits
  <2>2. Places(w) = {k} BY <1>3, <2>1 DEF Places
  <2>3. Min({k}) = k BY <1>4 DEF Min
  <2> QED BY <2>2, <2>3
<1>6. NewLine(w, RemoveAt(Line(w), k))
  BY <1>5 DEF TurnTimeout
<1> DEFINE A == SubSeq(Line(w), 1, k - 1)  B == SubSeq(Line(w), k + 1, Len(Line(w)))  M == A \o B
<1>7. /\ A \in Seq(Writers) /\ Len(A) = k - 1 /\ \A i \in 1 .. k - 1 : A[i] = Line(w)[i]
  BY <1>1, <1>4, SubSeqProperties
<1>8. /\ B \in Seq(Writers) /\ Len(B) = Len(Line(w)) - k
      /\ \A i \in 1 .. Len(Line(w)) - k : B[i] = Line(w)[i + k]
  BY <1>1, <1>4, SubSeqProperties
<1>9. RemoveAt(Line(w), k) = M BY DEF RemoveAt
<1> HIDE DEF A, B
<1>10. /\ M \in Seq(Writers) /\ Len(M) = Len(Line(w)) - 1
       /\ \A i \in 1 .. Len(Line(w)) - 1 : M[i] = IF i <= k - 1 THEN A[i] ELSE B[i - (k - 1)]
  <2>1. /\ M \in Seq(Writers) /\ Len(M) = Len(A) + Len(B)
        /\ \A i \in 1 .. Len(A) + Len(B) : M[i] = IF i <= Len(A) THEN A[i] ELSE B[i - Len(A)]
    BY <1>7, <1>8, ConcatProperties
  <2>2. Len(A) + Len(B) = Len(Line(w)) - 1 BY <1>1, <1>4, <1>7, <1>8
  <2> HIDE DEF M
  <2> QED BY <1>7, <2>1, <2>2
<1> HIDE DEF M
<1>11. ASSUME NEW i \in 1 .. Len(M)
       PROVE  M[i] = IF i < k THEN Line(w)[i] ELSE Line(w)[i + 1]
  <2>1. CASE i < k
    <3>1. i \in 1 .. k - 1 /\ i <= k - 1 BY <1>1, <1>4, <1>10, <2>1
    <3> QED BY <1>7, <1>10, <2>1, <3>1
  <2>2. CASE ~(i < k)
    <3>1. /\ i - (k - 1) \in 1 .. Len(Line(w)) - k /\ ~(i <= k - 1) /\ (i - (k - 1)) + k = i + 1
      BY <1>1, <1>4, <1>10, <2>2
    <3> QED BY <1>8, <1>10, <2>2, <3>1
  <2> QED BY <2>1, <2>2
<1>12. \A v \in Writers \ {w} : /\ want'[v] = want[v]
                                /\ pc'[v] = IF k = 1 /\ M # <<>> /\ v = M[1] THEN "pool" ELSE pc[v]
  BY <1>2, <1>4
<1>13. NewLine(w, M) BY <1>6, <1>9
<1> QED BY <1>2, <1>3, <1>4, <1>10, <1>11, <1>12, <1>13, LeavesLine

\* A server that dies forgets its lines and everybody in them.
LEMMA CrashTurns ==
  ASSUME TurnInv, Typed', NEW s \in Servers, Crash(s)
  PROVE  TurnInv'
<1>1. turns' = [turns EXCEPT ![s] = [S \in SUBSET Names |-> <<>>]]
  BY DEF Crash
<1>2. ASSUME NEW v \in Writers
      PROVE  IF Home[v] = s THEN pc'[v] \in {"idle", "orphan"} /\ want'[v] = {}
             ELSE pc'[v] = pc[v] /\ want'[v] = want[v]
  BY DEF Crash
<1>3. turns' \in [Servers -> [SUBSET Names -> Seq(Writers)]]
  <2>1. <<>> \in Seq(Writers) BY EmptySeq
  <2> QED BY <1>1, <2>1 DEF TurnInv
<1>4. ASSUME NEW r \in Servers, NEW S \in SUBSET Names PROVE LineFits(r, S)'
  <2>1. CASE r = s
    <3>1. turns'[r][S] = <<>> BY <1>1, <2>1 DEF TurnInv
    <3> QED BY <3>1 DEF LineFits
  <2>2. CASE r # s
    <3>1. turns'[r][S] = turns[r][S] BY <1>1, <2>2
    <3>2. \A v \in Writers : (pc'[v] = pc[v] /\ want'[v] = want[v]) \/ Home[v] # r
      BY <1>2, <2>2
    <3> QED BY <3>1, <3>2, OtherLines
  <2> QED BY <2>1, <2>2
<1>5. ASSUME NEW v \in Writers PROVE InLine(v)'
  <2>1. CASE Home[v] = s BY <1>2, <2>1 DEF InLine, AtWork
  <2>2. CASE Home[v] # s
    <3>1. InLine(v) /\ pc'[v] = pc[v] /\ want'[v] = want[v] BY <1>2, <2>2 DEF TurnInv
    <3>2. Line(v)' = Line(v) BY <1>1, <2>2, <3>1, HomeType DEF Line
    <3> QED BY <3>1, <3>2 DEF InLine
  <2> QED BY <2>1, <2>2
<1> QED BY <1>3, <1>4, <1>5 DEF TurnInv

\* One writer's step.
LEMMA WriterTurns ==
  ASSUME TurnInv, Typed', NEW w \in Writers, StepOf(w)
  PROVE  TurnInv'
<1>1. InLine(w) /\ pc \in [Writers -> Steps] BY DEF TurnInv, Typed
<1>2. CASE Call(w) BY <1>2, CallTurns
<1>3. CASE TurnTimeout(w) BY <1>3, TimeoutTurns
<1>4. CASE \/ CallPlain(w) \/ Connect(w) \/ TakeLock(w) \/ Enter(w) \/ Draw(w)
           \/ Join(w) \/ Release(w) \/ Reap(w)
  <2>1. UNCHANGED <<turns, want>>
    BY <1>4 DEF CallPlain, Connect, TakeLock, Enter, Draw, Join, Release, Reap
  <2>2. \/ pc' = pc
        \/ \E step \in AtWork : pc[w] \in AtWork /\ pc' = [pc EXCEPT ![w] = step]
        \/ \E step \in Steps \ {"turn"} : pc[w] \in {"idle", "orphan"} /\ pc' = [pc EXCEPT ![w] = step]
    BY <1>4 DEF CallPlain, Connect, TakeLock, Enter, Draw, Join, Release, Reap, AtWork, Steps
  <2>3. \A v \in Writers : \/ pc'[v] = pc[v]
                           \/ {pc[v], pc'[v]} \subseteq AtWork
                           \/ want[v] = {} /\ pc'[v] # "turn"
    BY <1>1, <2>2 DEF InLine
  <2> QED BY <2>1, <2>3, LinesStay
<1>5. CASE Released(w)
  <2>1. pc[w] \in AtWork /\ Over(w) BY <1>5 DEF Released, AtWork
  <2> QED BY <2>1, OverTurns
<1>6. CASE Commit(w) \/ LockTimeout(w) \/ Fail(w)
  <2>1. pc[w] \in AtWork /\ Ended(w) BY <1>6 DEF Commit, LockTimeout, Fail, AtWork
  <2>2. CASE dialect = "mysql"
    <3>1. pc' = [pc EXCEPT ![w] = "releasing"] /\ UNCHANGED <<turns, want>>
      BY <2>1, <2>2 DEF Ended
    <3>2. \A v \in Writers : pc'[v] = pc[v] \/ {pc[v], pc'[v]} \subseteq AtWork
      BY <1>1, <2>1, <3>1 DEF AtWork
    <3> QED BY <3>1, <3>2, LinesStay
  <2>3. CASE dialect # "mysql"
    <3>1. Over(w) BY <2>1, <2>3 DEF Ended
    <3> QED BY <2>1, <3>1, OverTurns
  <2> QED BY <2>2, <2>3
<1> QED BY <1>2, <1>3, <1>4, <1>5, <1>6 DEF StepOf, GoesOn

LEMMA TurnsFit == Spec => []TurnInv
<1>1. Init => TurnInv
  <2> SUFFICES ASSUME Init PROVE TurnInv OBVIOUS
  <2>1. Typed BY InitInvariant DEF IInv
  <2>2. turns \in [Servers -> [SUBSET Names -> Seq(Writers)]]
    BY EmptySeq DEF Init
  <2>3. \A s \in Servers, S \in SUBSET Names : LineFits(s, S) BY DEF Init, LineFits
  <2>4. \A w \in Writers : InLine(w) BY DEF Init, InLine, AtWork
  <2> QED BY <2>1, <2>2, <2>3, <2>4 DEF TurnInv
<1>2. IInv' /\ TurnInv /\ [Next]_vars => TurnInv'
  <2> SUFFICES ASSUME IInv', TurnInv, [Next]_vars PROVE TurnInv' OBVIOUS
  <2>1. Typed' BY DEF IInv
  <2>2. CASE UNCHANGED vars BY <2>1, <2>2, LinesStay DEF vars
  <2>3. CASE Next BY <2>1, <2>3, WriterTurns, CrashTurns, NextIsSteps
  <2> QED BY <2>2, <2>3
<1> QED BY <1>1, <1>2, Invariant, PTL DEF Spec

\* A turn is never lost and never held twice, whoever gives up, fails or dies, for
\* any number of writers, servers and sets of names.
THEOREM TurnsAreKept == Spec => []TurnsKept
BY TurnsFit, FitTurnsKept, PTL

\* Every variable keeps its type, and no series grows past its bound.
THEOREM TypeCorrect == Spec => []TypeOK
<1> DEFINE RowsFit == numbers \in [Names -> SUBSET Nat] /\ \A n \in Names : rows[n] <= MaxRows[n]
<1>1. Init => RowsFit BY LocksAssumption DEF Init
<1>2. IInv /\ RowsFit /\ [Next]_vars => RowsFit'
  <2> SUFFICES ASSUME IInv, RowsFit, [Next]_vars PROVE RowsFit' OBVIOUS
  <2>1. ASSUME NEW w \in Writers, Commits(w) PROVE RowsFit'
    <3>1. \A n \in Names : drawn[w][n] # 0 => drawn[w][n] = rows[n] + 1 /\ rows[n] < MaxRows[n]
      BY DEF IInv, DrawnNext
    <3>2. \A n \in Names : rows[n] \in Nat /\ MaxRows[n] \in Nat /\ drawn[w][n] \in Nat
      BY LocksAssumption DEF IInv, Typed
    <3> QED BY <2>1, <3>1, <3>2 DEF Commits
  <2>2. UNCHANGED <<numbers, rows>> \/ \E w \in Writers : Commits(w)
    BY StepResult, Crashing, NextIsSteps DEF Result, Grows, Leaves, vars
  <2> QED BY <2>1, <2>2
<1>3. IInv /\ TurnInv /\ RowsFit => TypeOK
  <2> SUFFICES ASSUME IInv, TurnInv, RowsFit PROVE TypeOK OBVIOUS
  <2>1. \A n \in Names : /\ rows[n] \in 0 .. MaxRows[n] /\ numbers[n] = 1 .. rows[n]
                         /\ numbers[n] \subseteq 1 .. MaxRows[n]
    BY LocksAssumption DEF IInv, Typed, NoGaps
  <2> QED BY <2>1 DEF IInv, TurnInv, Typed, TypeOK
<1> HIDE DEF RowsFit
<1> QED BY <1>1, <1>2, <1>3, Invariant, TurnsFit, PTL DEF Spec
=============================================================================
