---------------------------- MODULE FirstRun_proofs ----------------------------
(***************************************************************************)
(* Theorems about FirstRun, for any number of processes, versions,         *)
(* migrations, statements, grants, faults and saves.                       *)
(***************************************************************************)
EXTENDS FirstRun, TLAPS

USE FirstRunAssumption, NobodyAssumption

-----------------------------------------------------------------------------
(* Types *)

\* What a version gives is among the pairs there are.
LEMMA PairsOfVersion == \A p \in Processes : Grants[p] \subseteq Pairs
  BY DEF Pairs

\* A pass has one migration that is next, and it is one of the list.
LEMMA NextOnesAre ==
  ASSUME TypeOK, NEW p \in Processes
  PROVE  /\ Pending(p) \subseteq 1 .. Newest
         /\ NextOnes(p) \subseteq Pending(p)
         /\ \A m, n \in NextOnes(p) : m = n
<1>1. Pending(p) \subseteq 1 .. Newest
  BY DEF Pending
<1>2. NextOnes(p) \subseteq Pending(p)
  BY DEF NextOnes, First
<1>3. ASSUME NEW m \in NextOnes(p), NEW n \in NextOnes(p)
      PROVE  m = n
  <2>1. m \in Nat /\ n \in Nat
    BY <1>1, <1>2
  <2>2. m <= n /\ n <= m
    BY <1>2 DEF NextOnes, First
  <2>. QED  BY <2>1, <2>2
<1>. QED  BY <1>1, <1>2, <1>3

\* What a process forgets at the end of a boot, and where it goes, is well typed.
LEMMA ForgetsType ==
  ASSUME TypeOK, NEW p \in Processes, Forgets(p)
  PROVE  /\ seen' \in [Processes -> SUBSET (1 .. Newest)]
         /\ part' \in [Processes -> Nat]
         /\ read' \in [Processes -> SUBSET Pairs]
         /\ todo' \in [Processes -> SUBSET Pairs]
BY DEF TypeOK, Forgets

\* A process that goes to a step is at a step.
LEMMA GoesType ==
  ASSUME TypeOK, NEW p \in Processes, NEW step \in Steps, Goes(p, step)
  PROVE  pc' \in [Processes -> Steps]
BY DEF TypeOK, Goes

\* Faults are bounded.
LEMMA FaultType ==
  ASSUME TypeOK, NEW kind, Fault(kind)
  PROVE  faults' \in 0 .. MaxFaults
BY DEF TypeOK, Fault

\* The steps there are, each by its name.
LEMMA StepNames ==
  /\ {"down", "waiting", "ledger", "up", "seed", "role", "create", "grants", "give", "given", "serving"}
       = Steps
  /\ InPass = {"ledger", "up"} /\ Seeding = {"role", "create", "grants", "give", "given"}
BY DEF Steps, InPass, Seeding

\* What a step of a boot's lock and pass does to the types.
LEMMA PassTypes ==
  ASSUME TypeOK, NEW p \in Processes,
         TakeLock(p) \/ ReadLedger(p) \/ Statement(p) \/ Clash(p) \/ Record(p) \/ PassEnds(p)
           \/ PassThrows(p) \/ GiveUp(p) \/ Start(p)
  PROVE  TypeOK'
<1>. USE DEF storeVars, passVars, seedVars, saveVars
<1>1. CASE Start(p)
  <2>1. pc' \in [Processes -> Steps]
    BY <1>1, GoesType, StepNames DEF Start
  <2>. QED  BY <1>1, <2>1 DEF Start, TypeOK
<1>2. CASE TakeLock(p)
  <2>1. pc' \in [Processes -> Steps]
    BY <1>2, GoesType, StepNames DEF TakeLock
  <2>. QED  BY <1>2, <2>1 DEF TakeLock, TypeOK
<1>3. CASE GiveUp(p)
  <2>1. pc' \in [Processes -> Steps]
    BY <1>3, GoesType, StepNames DEF GiveUp
  <2>2. faults' \in 0 .. MaxFaults
    BY <1>3, FaultType DEF GiveUp
  <2>. QED  BY <1>3, <2>1, <2>2 DEF GiveUp, TypeOK
<1>4. CASE ReadLedger(p)
  <2>1. CASE Throws(p)
    <3>1. pc' \in [Processes -> Steps]
      BY <2>1, GoesType, StepNames DEF Throws
    <3>2. Forgets(p) /\ lock' = Nobody
      BY <2>1 DEF Throws
    <3>. QED  BY <1>4, <3>1, <3>2, ForgetsType DEF ReadLedger, TypeOK
  <2>2. CASE ~Throws(p)
    <3>1. pc' \in [Processes -> Steps]
      BY <1>4, <2>2, GoesType, StepNames DEF ReadLedger
    <3>2. seen' \in [Processes -> SUBSET (1 .. Newest)]
      BY <1>4, <2>2 DEF ReadLedger, TypeOK
    <3>. QED  BY <1>4, <2>2, <3>1, <3>2 DEF ReadLedger, TypeOK
  <2>. QED  BY <2>1, <2>2
<1>5. CASE Statement(p)
  <2>1. PICK m \in NextOnes(p) :
          /\ part[p] < Parts[m] /\ part' = [part EXCEPT ![p] = @ + 1]
          /\ done' = IF dialect = "mysql" /\ done[m] <= part[p] THEN [done EXCEPT ![m] = part[p] + 1] ELSE done
    BY <1>5 DEF Statement
  <2>2. m \in 1 .. Newest /\ part[p] \in Nat /\ Parts[m] \in Nat
    BY NextOnesAre DEF TypeOK
  <2>3. part' \in [Processes -> Nat]
    BY <2>1, <2>2 DEF TypeOK
  <2>4. done' \in [1 .. Newest -> Nat] /\ \A n \in 1 .. Newest : done'[n] <= Parts[n]
    BY <2>1, <2>2 DEF TypeOK
  <2>. QED  BY <1>5, <2>3, <2>4 DEF Statement, TypeOK
<1>6. CASE Clash(p)
  <2>1. pc' \in [Processes -> Steps]
    BY <1>6, GoesType, StepNames DEF Clash, Throws
  <2>2. Forgets(p) /\ lock' = Nobody
    BY <1>6 DEF Clash, Throws
  <2>. QED  BY <1>6, <2>1, <2>2, ForgetsType DEF Clash, TypeOK
<1>7. CASE Record(p)
  <2>1. PICK m \in NextOnes(p) :
          /\ seen' = [seen EXCEPT ![p] = @ \cup {m}]
          /\ ledger' = IF dialect = "mysql" THEN ledger \cup {m} ELSE ledger
    BY <1>7 DEF Record
  <2>2. m \in 1 .. Newest
    BY NextOnesAre
  <2>3. seen' \in [Processes -> SUBSET (1 .. Newest)] /\ ledger' \subseteq 1 .. Newest
    BY <2>1, <2>2 DEF TypeOK
  <2>4. part' \in [Processes -> Nat]
    BY <1>7 DEF Record, TypeOK
  <2>. QED  BY <1>7, <2>3, <2>4 DEF Record, TypeOK
<1>8. CASE PassEnds(p)
  <2>1. pc' \in [Processes -> Steps]
    BY <1>8, GoesType, StepNames DEF PassEnds
  <2>2. ledger' \subseteq 1 .. Newest
    BY <1>8 DEF PassEnds, TypeOK
  <2>3. done' \in [1 .. Newest -> Nat] /\ \A n \in 1 .. Newest : done'[n] <= Parts[n]
    BY <1>8 DEF PassEnds, TypeOK
  <2>. QED  BY <1>8, <2>1, <2>2, <2>3 DEF PassEnds, TypeOK
<1>9. CASE PassThrows(p)
  <2>1. pc' \in [Processes -> Steps]
    BY <1>9, GoesType, StepNames DEF PassThrows, Throws
  <2>2. Forgets(p) /\ lock' = Nobody /\ faults' \in 0 .. MaxFaults
    BY <1>9, FaultType DEF PassThrows, Throws
  <2>. QED  BY <1>9, <2>1, <2>2, ForgetsType DEF PassThrows, TypeOK
<1>. QED  BY <1>1, <1>2, <1>3, <1>4, <1>5, <1>6, <1>7, <1>8, <1>9

\* What a step of the seeding does to the types.
LEMMA SeedTypes ==
  ASSUME TypeOK, NEW p \in Processes,
         SeedRead(p) \/ FindRole(p) \/ CreateRole(p) \/ Look(p) \/ Give(p) \/ ReadBack(p) \/ Write(p)
  PROVE  TypeOK'
<1>. USE DEF storeVars, passVars, saveVars
<1>1. CASE SeedRead(p)
  <2>1. pc' \in [Processes -> Steps]
    BY <1>1, GoesType, StepNames DEF SeedRead
  <2>2. read' \in [Processes -> SUBSET Pairs]
    BY <1>1 DEF SeedRead, TypeOK
  <2>. QED  BY <1>1, <2>1, <2>2 DEF SeedRead, TypeOK
<1>2. CASE FindRole(p)
  <2>1. pc' \in [Processes -> Steps]
    BY <1>2, GoesType, StepNames DEF FindRole
  <2>2. \/ todo' = [todo EXCEPT ![p] = Grants[p] \ read[p]]
        \/ UNCHANGED todo
    BY <1>2 DEF FindRole
  <2>3. Grants[p] \ read[p] \in SUBSET Pairs
    BY PairsOfVersion
  <2>4. todo' \in [Processes -> SUBSET Pairs]
    BY <2>2, <2>3 DEF TypeOK
  <2>. QED  BY <1>2, <2>1, <2>4 DEF FindRole, TypeOK
<1>3. CASE CreateRole(p)
  <2>1. pc' \in [Processes -> Steps]
    BY <1>3, GoesType, StepNames DEF CreateRole
  <2>2. CASE ~role
    <3>1. todo' \in [Processes -> SUBSET Pairs] /\ role' \in BOOLEAN
      BY <1>3, <2>2, PairsOfVersion DEF CreateRole, TypeOK
    <3>. QED  BY <1>3, <2>1, <2>2, <3>1 DEF CreateRole, TypeOK
  <2>3. CASE role
    <3>1. Forgets(p) /\ UNCHANGED role
      BY <1>3, <2>3 DEF CreateRole
    <3>. QED  BY <1>3, <2>1, <3>1, ForgetsType DEF CreateRole, TypeOK
  <2>. QED  BY <2>2, <2>3
<1>4. CASE Look(p)
  <2>1. pc' \in [Processes -> Steps]
    BY <1>4, GoesType, StepNames DEF Look, TypeOK
  <2>2. PICK x : todo' = [todo EXCEPT ![p] = @ \ {x}] \/ UNCHANGED todo
    BY <1>4 DEF Look
  <2>3. todo' \in [Processes -> SUBSET Pairs]
    <3>1. todo[p] \ {x} \in SUBSET Pairs
      BY DEF TypeOK
    <3>. QED  BY <2>2, <3>1 DEF TypeOK
  <2>. QED  BY <1>4, <2>1, <2>3 DEF Look, TypeOK
<1>5. CASE Give(p)
  <2>1. pc' \in [Processes -> Steps]
    BY <1>5, GoesType, StepNames DEF Give
  <2>2. PICK x \in First(todo[p]) :
          \/ granted' = granted \cup {x} /\ UNCHANGED <<seen, part, read, todo>>
          \/ Forgets(p) /\ UNCHANGED granted
    BY <1>5 DEF Give
  <2>3. x \in Pairs
    BY <2>2 DEF First, TypeOK
  <2>4. CASE Forgets(p) /\ UNCHANGED granted
    BY <1>5, <2>1, <2>4, ForgetsType DEF Give, TypeOK
  <2>5. CASE granted' = granted \cup {x} /\ UNCHANGED <<seen, part, read, todo>>
    <3>1. granted' \subseteq Pairs
      BY <2>3, <2>5 DEF TypeOK
    <3>. QED  BY <1>5, <2>1, <2>5, <3>1 DEF Give, TypeOK
  <2>. QED  BY <2>2, <2>4, <2>5
<1>6. CASE Write(p)
  <2>1. pc' \in [Processes -> Steps]
    BY <1>6, GoesType, StepNames DEF Write
  <2>2. seeded' \subseteq Pairs
    BY <1>6, PairsOfVersion DEF Write, TypeOK
  <2>3. Forgets(p)
    BY <1>6 DEF Write
  <2>. QED  BY <1>6, <2>1, <2>2, <2>3, ForgetsType DEF Write, TypeOK
<1>7. CASE ReadBack(p)
  <2>1. pc' \in [Processes -> Steps]
    BY <1>7, GoesType, StepNames DEF ReadBack
  <2>2. PICK x : \/ todo' = [todo EXCEPT ![p] = @ \ {x}] /\ UNCHANGED <<seen, part, read>>
                 \/ Forgets(p)
    BY <1>7 DEF ReadBack
  <2>3. CASE Forgets(p)
    BY <1>7, <2>1, <2>3, ForgetsType DEF ReadBack, TypeOK
  <2>4. CASE todo' = [todo EXCEPT ![p] = @ \ {x}] /\ UNCHANGED <<seen, part, read>>
    <3>1. todo' \in [Processes -> SUBSET Pairs]
      BY <2>4 DEF TypeOK
    <3>. QED  BY <1>7, <2>1, <2>4, <3>1 DEF ReadBack, TypeOK
  <2>. QED  BY <2>2, <2>3, <2>4
<1>. QED  BY <1>1, <1>2, <1>3, <1>4, <1>5, <1>6, <1>7

\* What a save, a crash and the database do to the types.
LEMMA AroundTypes ==
  ASSUME TypeOK,
         \/ \E p \in Processes :
              Crash(p) \/ SaveRow(p) \/ \E keep \in SUBSET Pairs : Save(p, keep)
         \/ Reap
  PROVE  TypeOK'
<1>. USE DEF storeVars, passVars, seedVars, saveVars
<1>1. ASSUME NEW p \in Processes, NEW keep \in SUBSET Pairs, Save(p, keep)
      PROVE  TypeOK'
  <2>1. left' \in [Processes -> SUBSET Pairs]
    BY <1>1 DEF Save, TypeOK
  <2>2. saves' \in 0 .. MaxSaves
    BY <1>1 DEF Save, TypeOK
  <2>3. granted' \subseteq Pairs /\ taken' \subseteq Pairs /\ kept' \subseteq Pairs
    BY <1>1 DEF Save, TypeOK
  <2>. QED  BY <1>1, <2>1, <2>2, <2>3 DEF Save, TypeOK
<1>2. ASSUME NEW p \in Processes, SaveRow(p)
      PROVE  TypeOK'
  <2>1. PICK x \in First(left[p]) :
          \/ /\ granted' = granted \cup {x} /\ left' = [left EXCEPT ![p] = @ \ {x}]
             /\ taken' = taken \ {x} /\ kept' = kept \ {x}
          \/ left' = [left EXCEPT ![p] = {}] /\ UNCHANGED <<granted, taken, kept>>
    BY <1>2 DEF SaveRow
  <2>2. x \in Pairs
    BY <2>1 DEF First, TypeOK
  <2>3. left' \in [Processes -> SUBSET Pairs]
    <3>1. left[p] \in SUBSET Pairs
      BY DEF TypeOK
    <3>2. left[p] \ {x} \in SUBSET Pairs
      BY <3>1
    <3>3. CASE left' = [left EXCEPT ![p] = left[p] \ {x}]
      BY <3>2, <3>3 DEF TypeOK
    <3>4. CASE left' = [left EXCEPT ![p] = {}]
      BY <3>4 DEF TypeOK
    <3>. QED  BY <2>1, <3>3, <3>4
  <2>4. granted' \subseteq Pairs /\ taken' \subseteq Pairs /\ kept' \subseteq Pairs
    BY <2>1, <2>2 DEF TypeOK
  <2>. QED  BY <1>2, <2>3, <2>4 DEF SaveRow, TypeOK
<1>3. ASSUME NEW p \in Processes, Crash(p)
      PROVE  TypeOK'
  <2>1. pc' \in [Processes -> Steps]
    BY <1>3, GoesType, StepNames DEF Crash
  <2>2. left' \in [Processes -> SUBSET Pairs]
    BY <1>3 DEF Crash, TypeOK
  <2>3. Forgets(p) /\ faults' \in 0 .. MaxFaults
    BY <1>3, FaultType DEF Crash
  <2>4. lock' \in Processes \cup {Nobody, Gone}
    BY <1>3 DEF Crash, TypeOK
  <2>. QED  BY <1>3, <2>1, <2>2, <2>3, <2>4, ForgetsType DEF Crash, TypeOK
<1>4. CASE Reap
  BY <1>4 DEF Reap, TypeOK
<1>. QED  BY <1>1, <1>2, <1>3, <1>4

\* The state keeps its types.
LEMMA TypeStep == TypeOK /\ [Next]_vars => TypeOK'
<1>. SUFFICES ASSUME TypeOK, [Next]_vars PROVE TypeOK'
  OBVIOUS
<1>1. ASSUME NEW p \in Processes,
             Start(p) \/ GoesOn(p) \/ GiveUp(p) \/ PassThrows(p) \/ Crash(p) \/ SaveRow(p)
      PROVE  TypeOK'
  BY <1>1, PassTypes, SeedTypes, AroundTypes DEF GoesOn
<1>2. ASSUME NEW p \in Processes, NEW keep \in SUBSET Pairs, Save(p, keep)
      PROVE  TypeOK'
  BY <1>2, AroundTypes
<1>3. CASE Reap
  BY <1>3, AroundTypes
<1>4. CASE UNCHANGED vars
  BY <1>4 DEF vars, TypeOK
<1>. QED  BY <1>1, <1>2, <1>3, <1>4 DEF Next

\* The store is empty to start with.
LEMMA InitType == Init => TypeOK
<1>. SUFFICES ASSUME Init PROVE TypeOK
  OBVIOUS
<1>1. /\ dialect \in {"postgres", "mysql", "sqlite"}
      /\ pc \in [Processes -> Steps]
  BY DEF Init, Steps
<1>2. done \in [1 .. Newest -> Nat] /\ \A m \in 1 .. Newest : done[m] <= Parts[m]
  BY DEF Init
<1>3. /\ seen \in [Processes -> SUBSET (1 .. Newest)] /\ part \in [Processes -> Nat]
      /\ read \in [Processes -> SUBSET Pairs] /\ todo \in [Processes -> SUBSET Pairs]
      /\ left \in [Processes -> SUBSET Pairs]
  BY DEF Init
<1>4. /\ lock \in Processes \cup {Nobody, Gone}
      /\ saves \in 0 .. MaxSaves /\ faults \in 0 .. MaxFaults
  BY DEF Init
<1>6. role \in BOOLEAN
  BY Zenon DEF Init
<1>5. /\ ledger \subseteq 1 .. Newest /\ granted \subseteq Pairs /\ seeded \subseteq Pairs
      /\ taken \subseteq Pairs /\ kept \subseteq Pairs
  BY DEF Init
<1>. QED  BY <1>1, <1>2, <1>3, <1>4, <1>5, <1>6 DEF TypeOK

\* TypeOK holds of every state of every boot.
THEOREM TypeCorrect == Spec => []TypeOK
<1>1. TypeOK /\ [Next]_vars => TypeOK'
  BY TypeStep
<1>. QED  BY InitType, <1>1, PTL DEF Spec

-----------------------------------------------------------------------------
(* The invariant *)

\* Migrations in order: what is applied is the first so many.
Upto(S) == \E n \in 0 .. Newest : S = 1 .. n

\* Whoever has the lock is at its pass, and nobody else is.
OneHolder == \A p \in Processes : pc[p] \in InPass <=> lock = p

\* What a pass knows of the store is still so: nobody else writes it.
PassFits(p) ==
  /\ pc[p] # "up" => part[p] = 0
  /\ pc[p] = "up" =>
       /\ Upto(seen[p]) /\ seen[p] \subseteq 1 .. Knows[p] /\ ledger \subseteq seen[p]
       /\ NextOnes(p) = {} => part[p] = 0
       /\ dialect = "mysql" =>
            seen[p] = ledger /\ \A m \in NextOnes(p) : part[p] <= done[m]

\* The steps behind a pass.
Behind == {"seed", "serving"} \cup Seeding

\* Who is past the pass found, or made, every migration it knows.
Whole(p) == pc[p] \in Behind => 1 .. Knows[p] \subseteq ledger

StoreInv ==
  /\ OneHolder /\ Upto(ledger) /\ LedgerTells
  /\ \A p \in Processes : PassFits(p) /\ Whole(p)

\* What a process is still to give was never given, as far as it read, and what
\* must stay away it read of.
SeedFits(p) ==
  /\ pc[p] \in Seeding => kept \subseteq read[p]
  /\ pc[p] \in {"grants", "give", "given"} => role /\ todo[p] \cap read[p] = {}
  /\ read[p] # {} => role

RevokeInv ==
  /\ SurvivesRestart /\ kept \subseteq seeded
  /\ seeded # {} => role
  /\ \A p \in Processes : SeedFits(p)

\* The pairs that were given, there still or taken away.
Given == granted \cup taken

\* A pair is in the list only if it was given, and a pair of a process's own is
\* given or still to be.
GivenFits(p) ==
  /\ read[p] \subseteq Given
  /\ pc[p] \in {"grants", "give", "given"} => Grants[p] \subseteq Given \cup todo[p]

GivenInv ==
  /\ GetsWhatItSeeds /\ seeded \subseteq Given
  /\ \A p \in Processes : GivenFits(p)

-----------------------------------------------------------------------------
(* The store *)

\* Everything is down, and the store empty.
LEMMA InitStore == Init => StoreInv
<1>. SUFFICES ASSUME Init PROVE StoreInv
  OBVIOUS
<1>1. OneHolder
  BY DEF Init, OneHolder, InPass
<1>2. Upto(ledger)
  <2>1. 0 \in 0 .. Newest /\ {} = 1 .. 0
    OBVIOUS
  <2>. QED  BY <2>1 DEF Init, Upto
<1>3. LedgerTells
  BY DEF Init, LedgerTells
<1>4. \A p \in Processes : PassFits(p) /\ Whole(p)
  BY DEF Init, PassFits, Whole, Behind, Seeding
<1>. QED  BY <1>1, <1>2, <1>3, <1>4 DEF StoreInv

\* A step outside the pass: the store, the lock and everyone else's pass stay.
Quiet(p) ==
  /\ UNCHANGED <<dialect, done, ledger, lock>> /\ faults' \in Nat /\ faults' >= faults
  /\ \A q \in Processes \ {p} : pc'[q] = pc[q] /\ seen'[q] = seen[q] /\ part'[q] = part[q]
  /\ pc[p] \notin InPass /\ pc'[p] \notin InPass /\ part'[p] = 0
  /\ pc'[p] \in Behind => pc[p] \in Behind

\* A quiet step keeps the invariant.
LEMMA QuietKeeps ==
  ASSUME TypeOK, StoreInv, NEW p \in Processes, Quiet(p)
  PROVE  StoreInv'
<1>1. OneHolder'
  BY DEF StoreInv, OneHolder, Quiet
<1>2. Upto(ledger)'
  BY DEF StoreInv, Upto, Quiet
<1>3. lock # p
  BY DEF StoreInv, OneHolder, Quiet
<1>4. \A q \in Processes \ {p} : NextOnes(q)' = NextOnes(q)
  BY DEF Quiet, NextOnes, Pending, First
<1>5. ASSUME NEW m \in 1 .. Newest, m \notin ledger, done[m] > 0
      PROVE  /\ dialect = "mysql"
             /\ \/ faults' > 0
                \/ \E q \in Processes : lock' = q /\ m \in NextOnes(q)' /\ part'[q] = done[m]
  <2>1. CASE faults > 0
    BY <1>5, <2>1 DEF StoreInv, LedgerTells, Quiet, TypeOK
  <2>2. CASE ~(faults > 0)
    <3>1. PICK q \in Processes : lock = q /\ m \in NextOnes(q) /\ part[q] = done[m]
      BY <1>5, <2>2 DEF StoreInv, LedgerTells
    <3>2. lock' = q /\ m \in NextOnes(q)' /\ part'[q] = done[m]
      BY <1>3, <1>4, <3>1 DEF Quiet
    <3>3. dialect = "mysql"
      BY <1>5 DEF StoreInv, LedgerTells
    <3>. QED  BY <3>2, <3>3
  <2>. QED  BY <2>1, <2>2
<1>7. LedgerTells'
  BY <1>5 DEF StoreInv, LedgerTells, Quiet
<1>6. ASSUME NEW q \in Processes
      PROVE  PassFits(q)' /\ Whole(q)'
  <2>1. CASE q = p
    BY <2>1 DEF StoreInv, Quiet, PassFits, Whole, InPass
  <2>2. CASE q # p
    <3>1. /\ pc'[q] = pc[q] /\ seen'[q] = seen[q] /\ part'[q] = part[q]
          /\ NextOnes(q)' = NextOnes(q)
          /\ dialect' = dialect /\ done' = done /\ ledger' = ledger
      BY <2>2, <1>4 DEF Quiet
    <3>2. PassFits(q) /\ Whole(q)
      BY DEF StoreInv
    <3>3. Whole(q)'
      BY <3>1, <3>2 DEF Whole
    <3>4. PassFits(q)'
      BY <3>1, <3>2 DEF PassFits, Upto
    <3>. QED  BY <3>3, <3>4
  <2>. QED  BY <2>1, <2>2
<1>. QED  BY <1>1, <1>2, <1>6, <1>7 DEF StoreInv

\* A pass that ends without its end: the store stays, the lock goes.
Abandons(p) ==
  /\ UNCHANGED <<dialect, done, ledger>> /\ faults' \in Nat /\ faults' >= faults
  /\ \A q \in Processes \ {p} : pc'[q] = pc[q] /\ seen'[q] = seen[q] /\ part'[q] = part[q]
  /\ pc[p] \in InPass /\ pc'[p] = "down" /\ part'[p] = 0 /\ lock' \notin Processes
  /\ faults' > 0 \/ \A m \in NextOnes(p) : ~(part[p] = done[m] /\ done[m] > 0)

\* An abandoned pass keeps the invariant.
LEMMA AbandonKeeps ==
  ASSUME TypeOK, StoreInv, NEW p \in Processes, Abandons(p)
  PROVE  StoreInv'
<1>1. lock = p /\ \A q \in Processes \ {p} : pc[q] \notin InPass
  BY DEF StoreInv, OneHolder, Abandons
<1>2. OneHolder'
  BY <1>1 DEF OneHolder, Abandons, InPass
<1>3. Upto(ledger)'
  BY DEF StoreInv, Upto, Abandons
<1>4. LedgerTells'
  <2>1. ASSUME NEW m \in 1 .. Newest, m \notin ledger, done[m] > 0
        PROVE  dialect = "mysql" /\ faults' > 0
    <3>1. /\ dialect = "mysql"
          /\ \/ faults > 0
             \/ \E q \in Processes : lock = q /\ m \in NextOnes(q) /\ part[q] = done[m]
      BY <2>1 DEF StoreInv, LedgerTells
    <3>2. CASE faults > 0
      BY <3>1, <3>2 DEF Abandons, TypeOK
    <3>3. CASE m \in NextOnes(p) /\ part[p] = done[m]
      BY <2>1, <3>1, <3>3 DEF Abandons
    <3>. QED  BY <1>1, <3>1, <3>2, <3>3
  <2>. QED  BY <2>1 DEF StoreInv, LedgerTells, Abandons
<1>5. ASSUME NEW q \in Processes
      PROVE  PassFits(q)' /\ Whole(q)'
  <2>1. CASE q = p
    BY <2>1 DEF Abandons, PassFits, Whole, Behind, Seeding
  <2>2. CASE q # p
    BY <2>2, <1>1 DEF StoreInv, Abandons, PassFits, Whole, InPass
  <2>. QED  BY <2>1, <2>2
<1>. QED  BY <1>2, <1>3, <1>4, <1>5 DEF StoreInv

\* At the end of a boot nothing of its pass is left.
LEMMA ForgetsFrame ==
  ASSUME TypeOK, NEW p \in Processes, Forgets(p)
  PROVE  /\ part'[p] = 0
         /\ \A q \in Processes \ {p} : seen'[q] = seen[q] /\ part'[q] = part[q]
BY DEF TypeOK, Forgets

\* A process moves alone.
LEMMA GoesFrame ==
  ASSUME TypeOK, NEW p \in Processes, NEW step, Goes(p, step)
  PROVE  pc'[p] = step /\ \A q \in Processes \ {p} : pc'[q] = pc[q]
BY DEF TypeOK, Goes

\* The steps of a boot beside its pass are quiet, and so is a death there.
LEMMA QuietSteps ==
  ASSUME TypeOK, TypeOK', StoreInv, NEW p \in Processes,
         \/ Start(p) \/ GiveUp(p) \/ SeedRead(p) \/ FindRole(p) \/ CreateRole(p)
         \/ Look(p) \/ Give(p) \/ ReadBack(p) \/ Write(p)
         \/ Crash(p) /\ pc[p] \notin InPass
  PROVE  Quiet(p)
<1>. USE DEF storeVars, passVars, seedVars, saveVars
<1>1. faults \in Nat /\ faults' \in Nat
  BY DEF TypeOK
<1>2. pc[p] \notin InPass => part[p] = 0
  BY DEF StoreInv, PassFits, InPass
<1>3. CASE Start(p)
  <2>1. pc[p] = "down" /\ Goes(p, "waiting") /\ UNCHANGED <<dialect, done, ledger, lock, seen, part, faults>>
    BY <1>3 DEF Start
  <2>. QED  BY <1>1, <1>2, <2>1, GoesFrame DEF Quiet, InPass, Behind, Seeding
<1>4. CASE GiveUp(p)
  <2>1. pc[p] = "waiting" /\ Goes(p, "down") /\ faults' = faults + 1
        /\ UNCHANGED <<dialect, done, ledger, lock, seen, part>>
    BY <1>4 DEF GiveUp, Fault
  <2>. QED  BY <1>1, <1>2, <2>1, GoesFrame DEF Quiet, InPass, Behind, Seeding
<1>5. CASE SeedRead(p)
  <2>1. pc[p] = "seed" /\ Goes(p, "role") /\ UNCHANGED <<dialect, done, ledger, lock, seen, part, faults>>
    BY <1>5 DEF SeedRead
  <2>. QED  BY <1>1, <1>2, <2>1, GoesFrame DEF Quiet, InPass, Behind, Seeding
<1>6. CASE FindRole(p)
  <2>1. pc[p] = "role" /\ (Goes(p, "grants") \/ Goes(p, "create"))
        /\ UNCHANGED <<dialect, done, ledger, lock, seen, part, faults>>
    BY <1>6 DEF FindRole
  <2>. QED  BY <1>1, <1>2, <2>1, GoesFrame DEF Quiet, InPass, Behind, Seeding
<1>7. CASE CreateRole(p)
  <2>1. /\ pc[p] = "create"
        /\ \/ Goes(p, "grants") /\ UNCHANGED <<seen, part>>
           \/ Goes(p, "down") /\ Forgets(p)
        /\ UNCHANGED <<dialect, done, ledger, lock, faults>>
    BY <1>7 DEF CreateRole
  <2>. QED  BY <1>1, <1>2, <2>1, GoesFrame, ForgetsFrame DEF Quiet, InPass, Behind, Seeding
<1>8. CASE Look(p)
  <2>1. pc[p] = "grants" /\ (Goes(p, "give") \/ UNCHANGED pc)
        /\ UNCHANGED <<dialect, done, ledger, lock, seen, part, faults>>
    BY <1>8 DEF Look
  <2>. QED  BY <1>1, <1>2, <2>1, GoesFrame DEF Quiet, InPass, Behind, Seeding
<1>9. CASE Give(p)
  <2>1. /\ pc[p] = "give"
        /\ \/ Goes(p, "given") /\ UNCHANGED <<seen, part>>
           \/ Goes(p, "down") /\ Forgets(p)
        /\ UNCHANGED <<dialect, done, ledger, lock, faults>>
    BY <1>9 DEF Give
  <2>. QED  BY <1>1, <1>2, <2>1, GoesFrame, ForgetsFrame DEF Quiet, InPass, Behind, Seeding
<1>10. CASE Write(p)
  <2>1. /\ pc[p] = "grants" /\ (Goes(p, "serving") \/ Goes(p, "down")) /\ Forgets(p)
        /\ UNCHANGED <<dialect, done, ledger, lock, faults>>
    BY <1>10 DEF Write
  <2>. QED  BY <1>1, <2>1, GoesFrame, ForgetsFrame DEF Quiet, InPass, Behind, Seeding
<1>11. CASE Crash(p) /\ pc[p] \notin InPass
  <2>1. lock # p
    BY <1>11 DEF StoreInv, OneHolder
  <2>2. /\ Goes(p, "down") /\ Forgets(p) /\ faults' = faults + 1
        /\ UNCHANGED <<dialect, done, ledger, lock>>
    BY <1>11, <2>1 DEF Crash, Fault
  <2>. QED  BY <1>1, <1>11, <2>2, GoesFrame, ForgetsFrame DEF Quiet, InPass, Behind, Seeding
<1>12. CASE ReadBack(p)
  <2>1. /\ pc[p] = "given"
        /\ \/ Goes(p, "grants") /\ UNCHANGED <<seen, part>>
           \/ Goes(p, "down") /\ Forgets(p)
        /\ UNCHANGED <<dialect, done, ledger, lock, faults>>
    BY <1>12 DEF ReadBack
  <2>. QED  BY <1>1, <1>2, <2>1, GoesFrame, ForgetsFrame DEF Quiet, InPass, Behind, Seeding
<1>. QED  BY <1>3, <1>4, <1>5, <1>6, <1>7, <1>8, <1>9, <1>10, <1>11, <1>12

\* Whoever leaves its pass early gives the lock up.
LEMMA AbandonSteps ==
  ASSUME TypeOK, TypeOK', StoreInv, NEW p \in Processes,
         \/ Clash(p) \/ PassThrows(p)
         \/ ReadLedger(p) /\ Throws(p)
         \/ Crash(p) /\ pc[p] \in InPass
  PROVE  Abandons(p)
<1>. USE DEF storeVars, passVars, seedVars, saveVars
<1>1. faults \in Nat /\ faults' \in Nat
  BY DEF TypeOK
<1>2. CASE Clash(p)
  <2>1. /\ pc[p] = "up" /\ Goes(p, "down") /\ Forgets(p) /\ lock' = Nobody
        /\ UNCHANGED <<dialect, done, ledger, faults>>
    BY <1>2 DEF Clash, Throws
  <2>2. PICK n \in NextOnes(p) : part[p] < done[n]
    BY <1>2 DEF Clash
  <2>3. \A m \in NextOnes(p) : ~(part[p] = done[m] /\ done[m] > 0)
    <3>1. \A m \in NextOnes(p) : m = n
      BY <2>2, NextOnesAre
    <3>2. part[p] \in Nat /\ done[n] \in Nat
      BY NextOnesAre DEF TypeOK
    <3>. QED  BY <2>2, <3>1, <3>2
  <2>. QED  BY <1>1, <2>1, <2>3, GoesFrame, ForgetsFrame DEF Abandons, InPass
<1>3. CASE PassThrows(p)
  <2>1. /\ pc[p] \in InPass /\ Goes(p, "down") /\ Forgets(p) /\ lock' = Nobody
        /\ faults' = faults + 1 /\ UNCHANGED <<dialect, done, ledger>>
    BY <1>3 DEF PassThrows, Throws, Fault
  <2>. QED  BY <1>1, <2>1, GoesFrame, ForgetsFrame DEF Abandons
<1>4. CASE ReadLedger(p) /\ Throws(p)
  <2>1. /\ pc[p] = "ledger" /\ Goes(p, "down") /\ Forgets(p) /\ lock' = Nobody
        /\ UNCHANGED <<dialect, done, ledger, faults>>
    BY <1>4 DEF ReadLedger, Throws
  <2>2. part[p] = 0
    BY <2>1 DEF StoreInv, PassFits
  <2>. QED  BY <1>1, <2>1, <2>2, GoesFrame, ForgetsFrame DEF Abandons, InPass
<1>5. CASE Crash(p) /\ pc[p] \in InPass
  <2>1. lock = p
    BY <1>5 DEF StoreInv, OneHolder
  <2>2. /\ Goes(p, "down") /\ Forgets(p) /\ faults' = faults + 1 /\ lock' \in {Nobody, Gone}
        /\ UNCHANGED <<dialect, done, ledger>>
    BY <1>5, <2>1 DEF Crash, Fault
  <2>. QED  BY <1>1, <1>5, <2>2, GoesFrame, ForgetsFrame DEF Abandons
<1>. QED  BY <1>2, <1>3, <1>4, <1>5

\* What is next in a pass, if anything is, is right behind what it has.
LEMMA NextIsBehind ==
  ASSUME TypeOK, NEW p \in Processes, NEW m \in NextOnes(p),
         NEW n \in 0 .. Newest, seen[p] = 1 .. n, seen[p] \subseteq 1 .. Knows[p]
  PROVE  m = n + 1 /\ m \in 1 .. Newest /\ m <= Knows[p]
<1>1. m \in 1 .. Knows[p] /\ m \notin 1 .. n /\ Knows[p] \in 0 .. Newest /\ n \in Nat
  BY DEF NextOnes, First, Pending
<1>2. n + 1 \in Pending(p)
  BY <1>1 DEF Pending
<1>3. m <= n + 1
  BY <1>2 DEF NextOnes, First
<1>. QED  BY <1>1, <1>3

\* A process that has the lock is alone in its pass.
LEMMA TakeKeeps ==
  ASSUME TypeOK, StoreInv, NEW p \in Processes, TakeLock(p)
  PROVE  StoreInv'
<1>. USE DEF storeVars, passVars, seedVars, saveVars
<1>1. /\ pc[p] = "waiting" /\ lock = Nobody /\ lock' = p /\ Goes(p, "ledger")
      /\ UNCHANGED <<dialect, done, ledger, seen, part, faults>>
  BY DEF TakeLock
<1>2. pc'[p] = "ledger" /\ \A q \in Processes \ {p} : pc'[q] = pc[q]
  BY <1>1, GoesFrame
<1>3. OneHolder'
  BY <1>1, <1>2 DEF StoreInv, OneHolder, InPass
<1>4. Upto(ledger)'
  BY <1>1 DEF StoreInv, Upto
<1>5. LedgerTells'
  <2>1. ASSUME NEW m \in 1 .. Newest, m \notin ledger, done[m] > 0
        PROVE  dialect = "mysql" /\ faults > 0
    BY <1>1, <2>1 DEF StoreInv, LedgerTells
  <2>. QED  BY <1>1, <2>1 DEF StoreInv, LedgerTells
<1>6. ASSUME NEW q \in Processes
      PROVE  PassFits(q)' /\ Whole(q)'
  <2>1. NextOnes(q)' = NextOnes(q)
    BY <1>1 DEF NextOnes, Pending, First
  <2>2. CASE q = p
    BY <1>1, <1>2, <2>2 DEF StoreInv, PassFits, Whole, Behind, Seeding
  <2>3. CASE q # p
    <3>1. pc'[q] = pc[q] /\ PassFits(q) /\ Whole(q)
      BY <1>2, <2>3 DEF StoreInv
    <3>. QED  BY <1>1, <2>1, <3>1 DEF PassFits, Whole, Upto
  <2>. QED  BY <2>2, <2>3
<1>. QED  BY <1>3, <1>4, <1>5, <1>6 DEF StoreInv

\* What a pass reads is what the store has.
LEMMA ReadKeeps ==
  ASSUME TypeOK, StoreInv, NEW p \in Processes, ReadLedger(p), ~Throws(p)
  PROVE  StoreInv'
<1>. USE DEF storeVars, passVars, seedVars, saveVars
<1>1. /\ pc[p] = "ledger" /\ ledger \subseteq 1 .. Knows[p]
      /\ seen' = [seen EXCEPT ![p] = ledger] /\ Goes(p, "up")
      /\ UNCHANGED <<dialect, done, ledger, lock, part, faults>>
  BY DEF ReadLedger
<1>2. pc'[p] = "up" /\ \A q \in Processes \ {p} : pc'[q] = pc[q] /\ seen'[q] = seen[q]
  BY <1>1, GoesFrame DEF TypeOK
<1>3. lock = p /\ part[p] = 0 /\ seen'[p] = ledger
  BY <1>1 DEF StoreInv, OneHolder, PassFits, InPass, TypeOK
<1>4. OneHolder'
  BY <1>1, <1>2 DEF StoreInv, OneHolder, InPass
<1>5. Upto(ledger)'
  BY <1>1 DEF StoreInv, Upto
<1>6. LedgerTells'
  <2>1. ASSUME NEW m \in 1 .. Newest, m \notin ledger, done[m] > 0
        PROVE  dialect = "mysql" /\ faults > 0
    BY <1>3, <2>1 DEF StoreInv, LedgerTells
  <2>. QED  BY <1>1, <2>1 DEF StoreInv, LedgerTells
<1>7. ASSUME NEW q \in Processes
      PROVE  PassFits(q)' /\ Whole(q)'
  <2>1. CASE q = p
    <3>1. Upto(seen[p])'
      BY <1>3 DEF StoreInv, Upto
    <3>2. \A m \in NextOnes(p)' : m \in 1 .. Newest
      BY DEF NextOnes, Pending, First
    <3>3. \A m \in NextOnes(p)' : part'[p] <= done'[m]
      BY <1>1, <1>3, <3>2 DEF TypeOK
    <3>. QED  BY <1>1, <1>2, <1>3, <2>1, <3>1, <3>3 DEF PassFits, Whole, Behind, Seeding
  <2>2. CASE q # p
    <3>1. pc'[q] = pc[q] /\ seen'[q] = seen[q] /\ PassFits(q) /\ Whole(q)
      BY <1>2, <2>2 DEF StoreInv
    <3>2. NextOnes(q)' = NextOnes(q)
      BY <3>1 DEF NextOnes, Pending, First
    <3>. QED  BY <1>1, <3>1, <3>2 DEF PassFits, Whole, Upto
  <2>. QED  BY <2>1, <2>2
<1>. QED  BY <1>4, <1>5, <1>6, <1>7 DEF StoreInv

\* A statement is of a migration the ledger does not have.
LEMMA StatementKeeps ==
  ASSUME TypeOK, StoreInv, NEW p \in Processes, Statement(p)
  PROVE  StoreInv'
<1>. USE DEF storeVars, passVars, seedVars, saveVars
<1>1. PICK m \in NextOnes(p) :
        /\ part[p] < Parts[m] /\ part' = [part EXCEPT ![p] = @ + 1]
        /\ done' = IF dialect = "mysql" /\ done[m] <= part[p] THEN [done EXCEPT ![m] = part[p] + 1] ELSE done
  BY DEF Statement
<1>2. /\ pc[p] = "up" /\ lock = p
      /\ UNCHANGED <<dialect, pc, lock, ledger, seen, faults>>
  BY DEF Statement, StoreInv, OneHolder, InPass
<1>3. m \in 1 .. Newest /\ m \notin ledger /\ \A n \in NextOnes(p) : n = m
  <2>1. m \in 1 .. Newest /\ m \in Pending(p) /\ \A n \in NextOnes(p) : n = m
    BY NextOnesAre
  <2>2. ledger \subseteq seen[p]
    BY <1>2 DEF StoreInv, PassFits
  <2>3. m \notin seen[p]
    BY <2>1 DEF Pending
  <2>. QED  BY <2>1, <2>2, <2>3
<1>4. \A q \in Processes : NextOnes(q)' = NextOnes(q)
  BY <1>2 DEF NextOnes, Pending, First
<1>5. /\ part'[p] = part[p] + 1 /\ part[p] \in Nat
      /\ \A q \in Processes \ {p} : part'[q] = part[q] /\ pc[q] \notin InPass
      /\ \A n \in 1 .. Newest \ {m} : done'[n] = done[n]
  BY <1>1, <1>2, <1>3 DEF StoreInv, OneHolder, TypeOK
<1>6. LedgerTells'
  <2>1. ASSUME NEW n \in 1 .. Newest, n \in ledger
        PROVE  done'[n] = Parts[n]
    BY <1>3, <1>5, <2>1 DEF StoreInv, LedgerTells
  <2>2. ASSUME NEW n \in 1 .. Newest, n \notin ledger, done'[n] > 0
        PROVE  /\ dialect = "mysql"
               /\ faults > 0 \/ (n \in NextOnes(p) /\ part'[p] = done'[n])
    <3>1. CASE n # m
      <4>1. done[n] > 0 /\ n \notin NextOnes(p)
        BY <1>3, <1>5, <2>2, <3>1
      <4>. QED  BY <1>2, <2>2, <4>1 DEF StoreInv, LedgerTells
    <3>2. CASE n = m /\ dialect = "mysql" /\ done[m] <= part[p]
      BY <1>1, <1>3, <1>5, <3>2 DEF TypeOK
    <3>3. CASE n = m /\ ~(dialect = "mysql" /\ done[m] <= part[p])
      <4>1. done[m] > 0
        BY <1>1, <2>2, <3>3
      <4>2. dialect = "mysql" /\ done[m] # part[p]
        BY <1>3, <2>2, <3>3, <4>1 DEF StoreInv, LedgerTells, TypeOK
      <4>. QED  BY <1>2, <2>2, <3>3, <4>1, <4>2 DEF StoreInv, LedgerTells
    <3>. QED  BY <3>1, <3>2, <3>3
  <2>. QED  BY <1>2, <1>4, <2>1, <2>2 DEF LedgerTells
<1>7. ASSUME NEW q \in Processes
      PROVE  PassFits(q)' /\ Whole(q)'
  <2>1. Whole(q)'
    BY <1>2 DEF StoreInv, Whole
  <2>2. CASE q # p
    <3>1. pc'[q] # "up" /\ part'[q] = 0
      BY <1>2, <1>5, <2>2 DEF StoreInv, PassFits, InPass
    <3>. QED  BY <2>1, <3>1 DEF PassFits
  <2>3. CASE q = p
    <3>1. PassFits(p)
      BY DEF StoreInv
    <3>2. dialect = "mysql" => part[p] + 1 <= done'[m]
      BY <1>1, <1>2, <1>3, <3>1 DEF PassFits, TypeOK
    <3>3. /\ Upto(seen[p])' /\ seen'[p] \subseteq 1 .. Knows[p] /\ ledger' \subseteq seen'[p]
          /\ dialect' = "mysql" => seen'[p] = ledger'
      BY <1>2, <3>1 DEF PassFits, Upto
    <3>4. dialect' = "mysql" => \A n \in NextOnes(p)' : part'[p] <= done'[n]
      BY <1>2, <1>3, <1>4, <1>5, <3>2
    <3>5. pc'[p] = "up" /\ NextOnes(p)' # {}
      BY <1>2, <1>4
    <3>. QED  BY <2>1, <2>3, <3>3, <3>4, <3>5 DEF PassFits
  <2>. QED  BY <2>1, <2>2, <2>3
<1>8. OneHolder' /\ Upto(ledger)'
  BY <1>2 DEF StoreInv, OneHolder, Upto
<1>. QED  BY <1>6, <1>7, <1>8 DEF StoreInv

\* Nobody but the one at its pass has anything of one.
LEMMA OthersIdle ==
  ASSUME TypeOK, StoreInv, NEW p \in Processes, pc[p] \in InPass
  PROVE  lock = p /\ \A q \in Processes \ {p} : pc[q] \notin InPass /\ pc[q] # "up" /\ part[q] = 0
BY DEF StoreInv, OneHolder, PassFits, InPass

\* The row of a migration comes when all its statements are there.
LEMMA RecordKeeps ==
  ASSUME TypeOK, StoreInv, NEW p \in Processes, Record(p)
  PROVE  StoreInv'
<1>. USE DEF storeVars, passVars, seedVars, saveVars
<1>1. PICK m \in NextOnes(p) :
        /\ part[p] = Parts[m] /\ seen' = [seen EXCEPT ![p] = @ \cup {m}]
        /\ ledger' = IF dialect = "mysql" THEN ledger \cup {m} ELSE ledger
  BY DEF Record
<1>2. /\ pc[p] = "up" /\ part' = [part EXCEPT ![p] = 0]
      /\ UNCHANGED <<dialect, pc, lock, done, faults>>
  BY DEF Record
<1>3. lock = p /\ \A q \in Processes \ {p} : pc[q] \notin InPass /\ pc[q] # "up" /\ part[q] = 0
  BY <1>2, OthersIdle DEF InPass
<1>4. PICK n \in 0 .. Newest : seen[p] = 1 .. n
  BY <1>2 DEF StoreInv, PassFits, Upto
<1>5. m = n + 1 /\ m \in 1 .. Newest /\ m <= Knows[p]
  BY <1>2, <1>4, NextIsBehind DEF StoreInv, PassFits
<1>6. /\ seen'[p] = seen[p] \cup {m} /\ part'[p] = 0
      /\ \A q \in Processes \ {p} : seen'[q] = seen[q] /\ part'[q] = part[q]
  BY <1>1, <1>2 DEF TypeOK
<1>7. Upto(seen[p])' /\ seen'[p] \subseteq 1 .. Knows[p]
  <2>1. seen'[p] = 1 .. (n + 1) /\ n + 1 \in 0 .. Newest
    BY <1>4, <1>5, <1>6
  <2>. QED  BY <1>5, <2>1 DEF Upto
<1>8. PassFits(p)
  BY DEF StoreInv
<1>9. ledger' \subseteq seen'[p] /\ (dialect = "mysql" => seen'[p] = ledger')
  BY <1>1, <1>2, <1>6, <1>8 DEF PassFits
<1>10. Upto(ledger)'
  <2>1. CASE dialect = "mysql"
    BY <1>7, <1>9, <2>1 DEF Upto
  <2>2. CASE dialect # "mysql"
    BY <1>1, <2>2 DEF StoreInv, Upto
  <2>. QED  BY <2>1, <2>2
<1>11. dialect = "mysql" => done[m] = Parts[m]
  <2>1. dialect = "mysql" => part[p] <= done[m]
    BY <1>2, <1>8 DEF PassFits
  <2>. QED  BY <1>1, <1>5, <2>1 DEF TypeOK
<1>12. LedgerTells'
  <2>1. ASSUME NEW k \in 1 .. Newest, k \in ledger'
        PROVE  done[k] = Parts[k]
    BY <1>1, <1>11, <2>1 DEF StoreInv, LedgerTells
  <2>2. ASSUME NEW k \in 1 .. Newest, k \notin ledger', done[k] > 0
        PROVE  dialect = "mysql" /\ faults > 0
    <3>1. k \notin ledger /\ (dialect = "mysql" => k # m)
      BY <1>1, <2>2
    <3>2. \A j \in NextOnes(p) : j = m
      BY NextOnesAre
    <3>. QED  BY <1>3, <2>2, <3>1, <3>2 DEF StoreInv, LedgerTells
  <2>. QED  BY <1>2, <2>1, <2>2 DEF LedgerTells
<1>13. ASSUME NEW q \in Processes
       PROVE  PassFits(q)' /\ Whole(q)'
  <2>1. Whole(q)'
    BY <1>1, <1>2 DEF StoreInv, Whole
  <2>2. CASE q # p
    BY <1>2, <1>3, <1>6, <2>1, <2>2 DEF PassFits
  <2>3. CASE q = p
    <3>1. \A k \in NextOnes(p)' : k \in 1 .. Newest
      BY DEF NextOnes, Pending, First
    <3>2. \A k \in NextOnes(p)' : part'[p] <= done'[k]
      BY <1>2, <1>6, <3>1 DEF TypeOK
    <3>. QED  BY <1>2, <1>6, <1>7, <1>9, <2>1, <2>3, <3>2 DEF PassFits
  <2>. QED  BY <2>2, <2>3
<1>14. OneHolder'
  BY <1>2 DEF StoreInv, OneHolder
<1>. QED  BY <1>10, <1>12, <1>13, <1>14 DEF StoreInv

\* At its end a pass has made the ledger what it has seen.
LEMMA EndOfPass ==
  ASSUME TypeOK, StoreInv, NEW p \in Processes, PassEnds(p)
  PROVE  /\ pc[p] = "up" /\ ledger' = seen[p] /\ Upto(seen[p]) /\ ledger \subseteq ledger'
         /\ 1 .. Knows[p] \subseteq ledger' /\ NextOnes(p) = {}
<1>1. pc[p] = "up" /\ ledger' = ledger \cup seen[p] /\ Pending(p) = {}
  BY DEF PassEnds
<1>2. Upto(seen[p]) /\ ledger \subseteq seen[p]
  BY <1>1 DEF StoreInv, PassFits
<1>3. 1 .. Knows[p] \subseteq seen[p]
  BY <1>1 DEF Pending
<1>4. NextOnes(p) = {}
  BY <1>1 DEF NextOnes, First
<1>. QED  BY <1>1, <1>2, <1>3, <1>4

\* The end of a pass.
LEMMA EndKeeps ==
  ASSUME TypeOK, StoreInv, NEW p \in Processes, PassEnds(p)
  PROVE  StoreInv'
<1>. USE DEF storeVars, passVars, seedVars, saveVars
<1>1. /\ pc[p] = "up" /\ ledger' = seen[p] /\ Upto(seen[p]) /\ ledger \subseteq ledger'
      /\ 1 .. Knows[p] \subseteq ledger' /\ NextOnes(p) = {}
  BY EndOfPass
<1>2. /\ done' = [k \in 1 .. Newest |-> IF k \in seen[p] THEN Parts[k] ELSE done[k]]
      /\ lock' = Nobody /\ Goes(p, "seed") /\ UNCHANGED <<dialect, seen, part, faults>>
  BY DEF PassEnds
<1>3. lock = p /\ \A q \in Processes \ {p} : pc[q] \notin InPass /\ pc[q] # "up" /\ part[q] = 0
  BY <1>1, OthersIdle DEF InPass
<1>4. pc'[p] = "seed" /\ \A q \in Processes \ {p} : pc'[q] = pc[q]
  BY <1>2, GoesFrame
<1>5. part[p] = 0
  BY <1>1 DEF StoreInv, PassFits
<1>6. OneHolder'
  BY <1>2, <1>3, <1>4 DEF OneHolder, InPass
<1>7. LedgerTells'
  <2>1. ASSUME NEW k \in 1 .. Newest, k \in ledger'
        PROVE  done'[k] = Parts[k]
    BY <1>1, <1>2, <2>1
  <2>2. ASSUME NEW k \in 1 .. Newest, k \notin ledger', done'[k] > 0
        PROVE  dialect' = "mysql" /\ faults' > 0
    <3>1. k \notin ledger /\ done[k] > 0
      BY <1>1, <1>2, <2>2
    <3>. QED  BY <1>1, <1>2, <1>3, <3>1 DEF StoreInv, LedgerTells
  <2>. QED  BY <2>1, <2>2 DEF LedgerTells
<1>8. ASSUME NEW q \in Processes
      PROVE  PassFits(q)' /\ Whole(q)'
  <2>1. CASE q = p
    BY <1>1, <1>2, <1>4, <1>5, <2>1 DEF PassFits, Whole
  <2>2. CASE q # p
    <3>1. pc'[q] = pc[q] /\ pc[q] # "up" /\ part'[q] = 0
      BY <1>2, <1>3, <1>4, <2>2
    <3>. QED  BY <1>1, <3>1 DEF StoreInv, PassFits, Whole
  <2>. QED  BY <2>1, <2>2
<1>9. Upto(ledger)'
  BY <1>1 DEF Upto
<1>. QED  BY <1>6, <1>7, <1>8, <1>9 DEF StoreInv

\* What leaves the store, the passes and the steps alone.
LEMMA StoreFrame ==
  ASSUME StoreInv, UNCHANGED <<dialect, pc, done, ledger, seen, part, faults>>,
         lock' = lock \/ (lock \notin Processes /\ lock' \notin Processes)
  PROVE  StoreInv'
<1>1. OneHolder'
  BY DEF StoreInv, OneHolder
<1>2. \A q \in Processes : NextOnes(q)' = NextOnes(q)
  BY DEF NextOnes, Pending, First
<1>3. LedgerTells'
  BY <1>2 DEF StoreInv, LedgerTells
<1>4. \A q \in Processes : PassFits(q)' /\ Whole(q)'
  BY <1>2 DEF StoreInv, PassFits, Whole, Upto
<1>. QED  BY <1>1, <1>3, <1>4 DEF StoreInv, Upto

\* StoreInv is inductive.
LEMMA StoreStep ==
  ASSUME TypeOK, TypeOK', StoreInv, [Next]_vars
  PROVE  StoreInv'
<1>1. ASSUME NEW p \in Processes,
             Start(p) \/ GoesOn(p) \/ GiveUp(p) \/ PassThrows(p) \/ Crash(p) \/ SaveRow(p)
      PROVE  StoreInv'
  <2>1. CASE \/ Start(p) \/ GiveUp(p) \/ SeedRead(p) \/ FindRole(p) \/ CreateRole(p)
             \/ Look(p) \/ Give(p) \/ ReadBack(p) \/ Write(p)
    <3>1. Quiet(p)
      BY <2>1, QuietSteps
    <3>. QED  BY <3>1, QuietKeeps
  <2>2. CASE Clash(p) \/ PassThrows(p)
    <3>1. Abandons(p)
      BY <2>2, AbandonSteps
    <3>. QED  BY <3>1, AbandonKeeps
  <2>3. CASE Crash(p)
    <3>1. Quiet(p) \/ Abandons(p)
      BY <2>3, QuietSteps, AbandonSteps
    <3>. QED  BY <3>1, QuietKeeps, AbandonKeeps
  <2>4. CASE ReadLedger(p)
    <3>1. Throws(p) => Abandons(p)
      BY <2>4, AbandonSteps
    <3>. QED  BY <2>4, <3>1, AbandonKeeps, ReadKeeps
  <2>5. CASE TakeLock(p)
    BY <2>5, TakeKeeps
  <2>6. CASE Statement(p)
    BY <2>6, StatementKeeps
  <2>7. CASE Record(p)
    BY <2>7, RecordKeeps
  <2>8. CASE PassEnds(p)
    BY <2>8, EndKeeps
  <2>9. CASE SaveRow(p)
    BY <2>9, StoreFrame DEF SaveRow, storeVars, passVars
  <2>. QED  BY <1>1, <2>1, <2>2, <2>3, <2>4, <2>5, <2>6, <2>7, <2>8, <2>9 DEF GoesOn
<1>2. ASSUME NEW p \in Processes, NEW keep \in SUBSET Pairs, Save(p, keep)
      PROVE  StoreInv'
  BY <1>2, StoreFrame DEF Save, storeVars, passVars
<1>4. CASE Reap
  BY <1>4, StoreFrame DEF Reap, storeVars
<1>5. CASE UNCHANGED vars
  BY <1>5, StoreFrame DEF vars
<1>. QED  BY <1>1, <1>2, <1>4, <1>5 DEF Next

\* The ledger of migrations tells the truth in every boot of any number of
\* processes, on each database (LedgerTells).
THEOREM LedgerAlwaysTells == Spec => []LedgerTells
<1>1. Init => TypeOK /\ StoreInv
  BY InitType, InitStore
<1>2. TypeOK /\ StoreInv /\ [Next]_vars => TypeOK' /\ StoreInv'
  BY TypeStep, StoreStep
<1>3. StoreInv => LedgerTells
  BY DEF StoreInv
<1>. QED  BY <1>1, <1>2, <1>3, PTL DEF Spec

-----------------------------------------------------------------------------
(* The store a server may rely on *)

\* A ledger that grew in order is a step of the store.
LEMMA GrowthIsMigrate ==
  ASSUME Upto(ledger), Upto(ledger)', ledger \subseteq ledger', Serving' = Serving
  PROVE  [Store!Next]_Store!storeVars
<1>1. CASE ledger' = ledger
  BY <1>1 DEF Store!storeVars
<1>2. CASE ledger' # ledger
  <2>1. PICK n \in 0 .. Newest : ledger' = 1 .. n
    BY DEF Upto
  <2>2. CASE n = 0
    <3>1. ledger' = {}
      BY <2>1, <2>2
    <3>. QED  BY <1>2, <3>1
  <2>3. CASE n \in 1 .. Newest
    <3>1. Store!Migrate
      BY <1>2, <2>1, <2>3 DEF Store!Migrate
    <3>. QED  BY <3>1 DEF Store!Next
  <2>. QED  BY <2>2, <2>3
<1>. QED  BY <1>1, <1>2

\* Who serves changes only with the process that moves.
LEMMA ServingFrame ==
  ASSUME NEW p \in Processes, \A q \in Processes \ {p} : pc'[q] = pc[q]
  PROVE  /\ (pc[p] = "serving" <=> pc'[p] = "serving") => Serving' = Serving
         /\ pc[p] # "serving" /\ pc'[p] = "serving" => p \notin Serving /\ Serving' = Serving \cup {p}
         /\ pc[p] = "serving" /\ pc'[p] # "serving" => p \in Serving /\ Serving' = Serving \ {p}
BY DEF Serving

\* A process that comes to serve finds what it knows, and one may stop.
LEMMA MoveIsStep ==
  ASSUME StoreInv, NEW p \in Processes, \A q \in Processes \ {p} : pc'[q] = pc[q],
         ledger' = ledger, pc'[p] = "serving" => pc[p] \in Behind
  PROVE  [Store!Next]_Store!storeVars
<1>1. CASE pc[p] = "serving" <=> pc'[p] = "serving"
  BY <1>1, ServingFrame DEF Store!storeVars
<1>2. CASE pc[p] # "serving" /\ pc'[p] = "serving"
  <2>1. 1 .. Knows[p] \subseteq ledger
    BY <1>2 DEF StoreInv, Whole
  <2>2. Store!Serve(p)
    BY <1>2, <2>1, ServingFrame DEF Store!Serve
  <2>. QED  BY <2>2 DEF Store!Next
<1>3. CASE pc[p] = "serving" /\ pc'[p] # "serving"
  <2>1. Store!Stop(p)
    BY <1>3, ServingFrame DEF Store!Stop
  <2>. QED  BY <2>1 DEF Store!Next
<1>. QED  BY <1>1, <1>2, <1>3

\* Every step of a boot is one of the store's, or none.
LEMMA StepIsStore ==
  ASSUME TypeOK, TypeOK', StoreInv, StoreInv', [Next]_vars
  PROVE  [Store!Next]_Store!storeVars
<1>. USE DEF storeVars, passVars, seedVars, saveVars
<1>1. ASSUME NEW p \in Processes,
             Start(p) \/ GoesOn(p) \/ GiveUp(p) \/ PassThrows(p) \/ Crash(p) \/ SaveRow(p)
      PROVE  [Store!Next]_Store!storeVars
  <2>1. ASSUME Quiet(p) PROVE [Store!Next]_Store!storeVars
    <3>1. /\ \A q \in Processes \ {p} : pc'[q] = pc[q]
          /\ ledger' = ledger /\ (pc'[p] = "serving" => pc[p] \in Behind)
      BY <2>1 DEF Quiet, Behind
    <3>. QED  BY <3>1, MoveIsStep
  <2>2. ASSUME Abandons(p) PROVE [Store!Next]_Store!storeVars
    <3>1. /\ \A q \in Processes \ {p} : pc'[q] = pc[q]
          /\ ledger' = ledger /\ pc'[p] # "serving"
      BY <2>2 DEF Abandons
    <3>. QED  BY <3>1, MoveIsStep
  <2>3. CASE \/ Start(p) \/ GiveUp(p) \/ SeedRead(p) \/ FindRole(p) \/ CreateRole(p)
             \/ Look(p) \/ Give(p) \/ ReadBack(p) \/ Write(p)
    <3>1. Quiet(p)
      BY <2>3, QuietSteps
    <3>. QED  BY <3>1, <2>1
  <2>4. CASE Clash(p) \/ PassThrows(p)
    <3>1. Abandons(p)
      BY <2>4, AbandonSteps
    <3>. QED  BY <3>1, <2>2
  <2>5. CASE Crash(p)
    <3>1. Quiet(p) \/ Abandons(p)
      BY <2>5, QuietSteps, AbandonSteps
    <3>. QED  BY <3>1, <2>1, <2>2
  <2>6. CASE TakeLock(p)
    <3>1. Goes(p, "ledger") /\ ledger' = ledger
      BY <2>6 DEF TakeLock
    <3>. QED  BY <3>1, GoesFrame, MoveIsStep
  <2>7. CASE ReadLedger(p)
    <3>1. (Goes(p, "up") \/ Goes(p, "down")) /\ ledger' = ledger
      BY <2>7 DEF ReadLedger, Throws
    <3>. QED  BY <3>1, GoesFrame, MoveIsStep
  <2>8. CASE Statement(p)
    <3>1. pc' = pc /\ ledger' = ledger
      BY <2>8 DEF Statement
    <3>. QED  BY <3>1 DEF Serving, Store!storeVars
  <2>9. CASE Record(p)
    <3>1. pc' = pc /\ ledger \subseteq ledger'
      BY <2>9 DEF Record
    <3>2. Serving' = Serving
      BY <3>1 DEF Serving
    <3>3. Upto(ledger) /\ Upto(ledger)'
      BY DEF StoreInv
    <3>. QED  BY <3>1, <3>2, <3>3, GrowthIsMigrate
  <2>10. CASE PassEnds(p)
    <3>1. Goes(p, "seed") /\ pc[p] = "up" /\ ledger \subseteq ledger'
      BY <2>10 DEF PassEnds
    <3>2. Serving' = Serving
      BY <3>1, GoesFrame, ServingFrame
    <3>3. Upto(ledger) /\ Upto(ledger)'
      BY DEF StoreInv
    <3>. QED  BY <3>1, <3>2, <3>3, GrowthIsMigrate
  <2>11. CASE SaveRow(p)
    BY <2>11 DEF SaveRow, Serving, Store!storeVars
  <2>. QED  BY <1>1, <2>3, <2>4, <2>5, <2>6, <2>7, <2>8, <2>9, <2>10, <2>11 DEF GoesOn
<1>2. ASSUME NEW p \in Processes, NEW keep \in SUBSET Pairs, Save(p, keep)
      PROVE  [Store!Next]_Store!storeVars
  BY <1>2 DEF Save, Serving, Store!storeVars
<1>4. CASE Reap
  BY <1>4 DEF Reap, Serving, Store!storeVars
<1>5. CASE UNCHANGED vars
  BY <1>5 DEF vars, Serving, Store!storeVars
<1>. QED  BY <1>1, <1>2, <1>4, <1>5 DEF Next

\* However many processes, of whatever versions, boot, die and fail on one store:
\* its migrations come in order and for good, and nobody serves on a store that
\* lacks one of its own (ImplementsStore).
THEOREM BootImplementsStore == Spec => ImplementsStore
<1>1. Init => Store!Init
  BY DEF Init, Store!Init, Serving
<1>2. Init => TypeOK /\ StoreInv
  BY InitType, InitStore
<1>3. TypeOK /\ StoreInv /\ [Next]_vars => TypeOK' /\ StoreInv'
  BY TypeStep, StoreStep
<1>4. TypeOK /\ TypeOK' /\ StoreInv /\ StoreInv' /\ [Next]_vars => [Store!Next]_Store!storeVars
  BY StepIsStore
<1>. QED  BY <1>1, <1>2, <1>3, <1>4, PTL DEF Spec, ImplementsStore, Store!Spec

-----------------------------------------------------------------------------
(* The grants *)

\* Nothing is given to start with.
LEMMA InitSeed == Init => RevokeInv /\ GivenInv
<1>. SUFFICES ASSUME Init PROVE RevokeInv /\ GivenInv
  OBVIOUS
<1>1. kept = {} /\ seeded = {} /\ \A p \in Processes : pc[p] = "down" /\ read[p] = {}
  BY DEF Init
<1>2. RevokeInv
  BY <1>1 DEF RevokeInv, SurvivesRestart, SeedFits, Seeding
<1>3. GivenInv
  BY <1>1 DEF GivenInv, GetsWhatItSeeds, Serving, GivenFits
<1>. QED  BY <1>2, <1>3

\* A step that gives nothing, of a process that does not seed after it.
Idle(p) ==
  /\ UNCHANGED <<role, granted, seeded, taken, kept>>
  /\ \A q \in Processes \ {p} : pc'[q] = pc[q] /\ read'[q] = read[q] /\ todo'[q] = todo[q]
  /\ pc'[p] \notin Seeding /\ read'[p] \in {read[p], {}}
  /\ pc'[p] = "serving" => pc[p] = "serving"

\* An idle step keeps both invariants.
LEMMA IdleKeeps ==
  ASSUME RevokeInv, GivenInv, NEW p \in Processes, Idle(p)
  PROVE  RevokeInv' /\ GivenInv'
<1>1. ASSUME NEW q \in Processes
      PROVE  SeedFits(q)' /\ GivenFits(q)'
  <2>1. SeedFits(q) /\ GivenFits(q)
    BY DEF RevokeInv, GivenInv
  <2>2. CASE q = p
    BY <2>1, <2>2 DEF Idle, SeedFits, GivenFits, Seeding, Given
  <2>3. CASE q # p
    BY <2>1, <2>3 DEF Idle, SeedFits, GivenFits, Given
  <2>. QED  BY <2>2, <2>3
<1>2. \A q \in Serving' : q \in Serving
  BY DEF Idle, Serving
<1>3. RevokeInv'
  BY <1>1 DEF RevokeInv, SurvivesRestart, Idle
<1>4. GivenInv'
  BY <1>1, <1>2 DEF GivenInv, GetsWhatItSeeds, Given, Idle
<1>. QED  BY <1>3, <1>4

\* At the end of a boot nothing of its seeding is left.
LEMMA ForgetsSeed ==
  ASSUME TypeOK, NEW p \in Processes, Forgets(p)
  PROVE  /\ read'[p] = {}
         /\ \A q \in Processes \ {p} : read'[q] = read[q] /\ todo'[q] = todo[q]
BY DEF TypeOK, Forgets

\* The steps of a boot before its seeding are idle, and every one that ends it early.
LEMMA IdleSteps ==
  ASSUME TypeOK, NEW p \in Processes,
         \/ Start(p) \/ GiveUp(p) \/ PassThrows(p) \/ Crash(p) \/ TakeLock(p)
         \/ ReadLedger(p) \/ Statement(p) \/ Clash(p) \/ Record(p) \/ PassEnds(p)
  PROVE  Idle(p)
<1>. USE DEF storeVars, passVars, seedVars, saveVars
<1>1. CASE Start(p) \/ GiveUp(p) \/ TakeLock(p) \/ PassEnds(p)
  <2>1. /\ UNCHANGED <<role, granted, seeded, taken, kept, read, todo>>
        /\ Goes(p, "waiting") \/ Goes(p, "down") \/ Goes(p, "ledger") \/ Goes(p, "seed")
    BY <1>1 DEF Start, GiveUp, TakeLock, PassEnds
  <2>. QED  BY <2>1, GoesFrame DEF Idle, Seeding
<1>2. CASE Statement(p) \/ Record(p)
  <2>1. UNCHANGED <<role, granted, seeded, taken, kept, read, todo, pc>> /\ pc[p] = "up"
    BY <1>2 DEF Statement, Record
  <2>. QED  BY <2>1 DEF Idle, Seeding
<1>3. CASE PassThrows(p) \/ Clash(p) \/ Crash(p)
  <2>1. UNCHANGED <<role, granted, seeded, taken, kept>> /\ Goes(p, "down") /\ Forgets(p)
    BY <1>3 DEF PassThrows, Clash, Crash, Throws
  <2>. QED  BY <2>1, GoesFrame, ForgetsSeed DEF Idle, Seeding
<1>4. CASE ReadLedger(p)
  <2>1. /\ UNCHANGED <<role, granted, seeded, taken, kept>>
        /\ \/ Goes(p, "up") /\ UNCHANGED <<read, todo>>
           \/ Goes(p, "down") /\ Forgets(p)
    BY <1>4 DEF ReadLedger, Throws
  <2>. QED  BY <2>1, GoesFrame, ForgetsSeed DEF Idle, Seeding
<1>. QED  BY <1>1, <1>2, <1>3, <1>4

\* Whose boot does not move keeps what it knows, if nothing of it is undone.
LEMMA OthersKeep ==
  ASSUME RevokeInv, GivenInv, NEW q \in Processes,
         pc'[q] = pc[q], read'[q] = read[q], todo'[q] = todo[q],
         kept' = kept, role => role', Given \subseteq Given'
  PROVE  SeedFits(q)' /\ GivenFits(q)'
<1>1. SeedFits(q) /\ GivenFits(q)
  BY DEF RevokeInv, GivenInv
<1>. QED  BY <1>1 DEF SeedFits, GivenFits

\* The list of what was ever given holds all that must stay away.
LEMMA ReadSeedKeeps ==
  ASSUME TypeOK, RevokeInv, GivenInv, NEW p \in Processes, SeedRead(p)
  PROVE  RevokeInv' /\ GivenInv'
<1>. USE DEF storeVars, passVars, saveVars
<1>1. /\ Goes(p, "role") /\ read' = [read EXCEPT ![p] = seeded]
      /\ UNCHANGED <<role, granted, seeded, todo, taken, kept>>
  BY DEF SeedRead
<1>2. /\ pc'[p] = "role" /\ read'[p] = seeded
      /\ \A q \in Processes \ {p} : pc'[q] = pc[q] /\ read'[q] = read[q] /\ todo'[q] = todo[q]
  BY <1>1, GoesFrame DEF TypeOK
<1>3. ASSUME NEW q \in Processes
      PROVE  SeedFits(q)' /\ GivenFits(q)'
  <2>1. CASE q = p
    BY <1>1, <1>2, <2>1 DEF RevokeInv, GivenInv, SeedFits, GivenFits, Given
  <2>2. CASE q # p
    BY <1>1, <1>2, <2>2, OthersKeep DEF Given
  <2>. QED  BY <2>1, <2>2
<1>4. \A q \in Serving' : q \in Serving
  BY <1>2 DEF Serving
<1>. QED  BY <1>1, <1>3, <1>4 DEF RevokeInv, GivenInv, SurvivesRestart, GetsWhatItSeeds, Given

\* A process on its way to give has all of its own before it, but for what the
\* list has.
LEMMA OnTheWay ==
  ASSUME TypeOK, RevokeInv, GivenInv, NEW p \in Processes,
         UNCHANGED <<granted, seeded, read, taken, kept>>, role => role',
         pc[p] \in Seeding, pc'[p] \in {"create", "grants"},
         \A q \in Processes \ {p} : pc'[q] = pc[q] /\ todo'[q] = todo[q],
         pc'[p] = "grants" =>
           role' /\ todo'[p] \cap read[p] = {} /\ Grants[p] \subseteq read[p] \cup todo'[p]
  PROVE  RevokeInv' /\ GivenInv'
<1>1. ASSUME NEW q \in Processes
      PROVE  SeedFits(q)' /\ GivenFits(q)'
  <2>1. CASE q = p
    <3>1. SeedFits(p) /\ GivenFits(p)
      BY DEF RevokeInv, GivenInv
    <3>. QED  BY <2>1, <3>1 DEF SeedFits, GivenFits, Given, Seeding
  <2>2. CASE q # p
    BY <2>2, OthersKeep DEF Given
  <2>. QED  BY <2>1, <2>2
<1>2. \A q \in Serving' : q \in Serving
  BY DEF Serving
<1>. QED  BY <1>1, <1>2 DEF RevokeInv, GivenInv, SurvivesRestart, GetsWhatItSeeds, Given

\* Where the role was there the list is taken as read, where it was not there
\* is nothing on the list.
LEMMA RoleKeeps ==
  ASSUME TypeOK, RevokeInv, GivenInv, NEW p \in Processes, FindRole(p) \/ CreateRole(p)
  PROVE  RevokeInv' /\ GivenInv'
<1>. USE DEF storeVars, passVars, saveVars
<1>1. CASE CreateRole(p) /\ role
  <2>1. UNCHANGED <<role, granted, seeded, taken, kept>> /\ Goes(p, "down") /\ Forgets(p)
    BY <1>1 DEF CreateRole
  <2>2. Idle(p)
    BY <2>1, GoesFrame, ForgetsSeed DEF Idle, Seeding
  <2>. QED  BY <2>2, IdleKeeps
<1>2. CASE FindRole(p) /\ ~role
  <2>1. /\ UNCHANGED <<granted, seeded, read, taken, kept, role, todo>>
        /\ pc[p] = "role" /\ Goes(p, "create")
    BY <1>2 DEF FindRole
  <2>. QED  BY <2>1, GoesFrame, OnTheWay DEF Seeding
<1>3. CASE FindRole(p) /\ role
  <2>1. /\ UNCHANGED <<granted, seeded, read, taken, kept, role>>
        /\ pc[p] = "role" /\ Goes(p, "grants") /\ todo' = [todo EXCEPT ![p] = Grants[p] \ read[p]]
    BY <1>3 DEF FindRole
  <2>2. /\ todo'[p] = Grants[p] \ read[p]
        /\ \A q \in Processes \ {p} : todo'[q] = todo[q]
    BY <2>1 DEF TypeOK
  <2>3. role'
    BY <1>3, <2>1
  <2>. QED  BY <2>1, <2>2, <2>3, GoesFrame, OnTheWay DEF Seeding
<1>4. CASE CreateRole(p) /\ ~role
  <2>1. /\ UNCHANGED <<granted, seeded, read, taken, kept>> /\ role'
        /\ pc[p] = "create" /\ Goes(p, "grants") /\ todo' = [todo EXCEPT ![p] = Grants[p]]
    BY <1>4 DEF CreateRole
  <2>2. /\ todo'[p] = Grants[p]
        /\ \A q \in Processes \ {p} : todo'[q] = todo[q]
    BY <2>1 DEF TypeOK
  <2>3. read[p] = {}
    BY <1>4 DEF RevokeInv, SeedFits
  <2>. QED  BY <2>1, <2>2, <2>3, GoesFrame, OnTheWay DEF Seeding
<1>. QED  BY <1>1, <1>2, <1>3, <1>4

\* A pair that is there needs nothing.
LEMMA LookKeeps ==
  ASSUME TypeOK, RevokeInv, GivenInv, NEW p \in Processes, Look(p)
  PROVE  RevokeInv' /\ GivenInv'
<1>. USE DEF storeVars, passVars, saveVars
<1>1. PICK x \in First(todo[p]) :
        \/ x \in granted /\ todo' = [todo EXCEPT ![p] = @ \ {x}] /\ UNCHANGED pc
        \/ Goes(p, "give") /\ UNCHANGED todo
  BY DEF Look
<1>2. pc[p] = "grants" /\ UNCHANGED <<role, granted, seeded, read, taken, kept>>
  BY DEF Look
<1>3. /\ pc'[p] \in {"grants", "give"} /\ todo'[p] \subseteq todo[p]
      /\ todo[p] \subseteq todo'[p] \cup granted
      /\ \A q \in Processes \ {p} : pc'[q] = pc[q] /\ todo'[q] = todo[q]
  BY <1>1, <1>2, GoesFrame DEF TypeOK
<1>4. ASSUME NEW q \in Processes
      PROVE  SeedFits(q)' /\ GivenFits(q)'
  <2>1. CASE q = p
    <3>1. SeedFits(p) /\ GivenFits(p)
      BY DEF RevokeInv, GivenInv
    <3>. QED  BY <1>2, <1>3, <2>1, <3>1 DEF SeedFits, GivenFits, Given, Seeding
  <2>2. CASE q # p
    BY <1>2, <1>3, <2>2, OthersKeep DEF Given
  <2>. QED  BY <2>1, <2>2
<1>5. \A q \in Serving' : q \in Serving
  BY <1>3 DEF Serving
<1>. QED  BY <1>2, <1>4, <1>5 DEF RevokeInv, GivenInv, SurvivesRestart, GetsWhatItSeeds, Given

\* A pair that is given now is none that must stay away.
LEMMA GiveKeeps ==
  ASSUME TypeOK, RevokeInv, GivenInv, NEW p \in Processes, Give(p)
  PROVE  RevokeInv' /\ GivenInv'
<1>. USE DEF storeVars, passVars, saveVars
<1>1. PICK x \in First(todo[p]) :
        \/ granted' = granted \cup {x} /\ Goes(p, "given") /\ UNCHANGED <<seen, part, read, todo>>
        \/ x \in granted /\ Goes(p, "down") /\ Forgets(p) /\ UNCHANGED granted
  BY DEF Give
<1>2. pc[p] = "give" /\ UNCHANGED <<role, seeded, taken, kept>>
  BY DEF Give
<1>3. CASE Goes(p, "down") /\ Forgets(p) /\ UNCHANGED granted
  <2>1. Idle(p)
    BY <1>2, <1>3, GoesFrame, ForgetsSeed DEF Idle, Seeding
  <2>. QED  BY <2>1, IdleKeeps
<1>4. CASE granted' = granted \cup {x} /\ Goes(p, "given") /\ UNCHANGED <<read, todo>>
  <2>1. SeedFits(p) /\ GivenFits(p)
    BY DEF RevokeInv, GivenInv
  <2>2. x \in todo[p]
    BY DEF First
  <2>3. x \notin kept
    BY <1>2, <2>1, <2>2 DEF SeedFits, Seeding
  <2>4. pc'[p] = "given" /\ \A q \in Processes \ {p} : pc'[q] = pc[q]
    BY <1>4, GoesFrame
  <2>5. Given' = Given \cup {x}
    BY <1>2, <1>4 DEF Given
  <2>6. ASSUME NEW q \in Processes
        PROVE  SeedFits(q)' /\ GivenFits(q)'
    <3>1. CASE q = p
      BY <1>2, <1>4, <2>1, <2>4, <2>5, <3>1 DEF SeedFits, GivenFits, Seeding
    <3>2. CASE q # p
      BY <1>2, <1>4, <2>4, <2>5, <3>2, OthersKeep
    <3>. QED  BY <3>1, <3>2
  <2>7. \A q \in Serving' : q \in Serving
    BY <2>4 DEF Serving
  <2>8. RevokeInv'
    BY <1>2, <1>4, <2>3, <2>6 DEF RevokeInv, SurvivesRestart
  <2>9. GivenInv'
    BY <1>2, <1>4, <2>6, <2>7 DEF GivenInv, GetsWhatItSeeds, Given
  <2>. QED  BY <2>8, <2>9
<1>. QED  BY <1>1, <1>3, <1>4

\* A pair whose row is read back is there; a boot that misses its row is over.
LEMMA ReadBackKeeps ==
  ASSUME TypeOK, RevokeInv, GivenInv, NEW p \in Processes, ReadBack(p)
  PROVE  RevokeInv' /\ GivenInv'
<1>. USE DEF storeVars, passVars, saveVars
<1>1. PICK x : \/ /\ x \in granted /\ Goes(p, "grants")
                  /\ todo' = [todo EXCEPT ![p] = @ \ {x}] /\ UNCHANGED read
               \/ Goes(p, "down") /\ Forgets(p)
  BY DEF ReadBack
<1>2. pc[p] = "given" /\ UNCHANGED <<role, granted, seeded, taken, kept>>
  BY DEF ReadBack
<1>3. CASE Goes(p, "down") /\ Forgets(p)
  <2>1. Idle(p)
    BY <1>2, <1>3, GoesFrame, ForgetsSeed DEF Idle, Seeding
  <2>. QED  BY <2>1, IdleKeeps
<1>4. CASE /\ x \in granted /\ Goes(p, "grants")
           /\ todo' = [todo EXCEPT ![p] = @ \ {x}] /\ UNCHANGED read
  <2>1. /\ pc'[p] = "grants" /\ todo'[p] = todo[p] \ {x}
        /\ \A q \in Processes \ {p} : pc'[q] = pc[q] /\ todo'[q] = todo[q]
    BY <1>4, GoesFrame DEF TypeOK
  <2>2. ASSUME NEW q \in Processes
        PROVE  SeedFits(q)' /\ GivenFits(q)'
    <3>1. CASE q = p
      <4>1. SeedFits(p) /\ GivenFits(p)
        BY DEF RevokeInv, GivenInv
      <4>. QED  BY <1>2, <1>4, <2>1, <3>1, <4>1 DEF SeedFits, GivenFits, Given, Seeding
    <3>2. CASE q # p
      BY <1>2, <1>4, <2>1, <3>2, OthersKeep DEF Given
    <3>. QED  BY <3>1, <3>2
  <2>3. \A q \in Serving' : q \in Serving
    BY <2>1 DEF Serving
  <2>. QED  BY <1>2, <2>2, <2>3 DEF RevokeInv, GivenInv, SurvivesRestart, GetsWhatItSeeds, Given
<1>. QED  BY <1>1, <1>3, <1>4

\* What is written is what was read and what is there now.
LEMMA WriteKeeps ==
  ASSUME TypeOK, RevokeInv, GivenInv, NEW p \in Processes, Write(p)
  PROVE  RevokeInv' /\ GivenInv'
<1>. USE DEF storeVars, passVars, saveVars
<1>1. /\ pc[p] = "grants" /\ todo[p] = {} /\ seeded' \in {seeded, read[p] \cup Grants[p]}
      /\ (Goes(p, "serving") \/ Goes(p, "down")) /\ Forgets(p)
      /\ UNCHANGED <<role, granted, taken, kept>>
  BY DEF Write
<1>2. /\ pc'[p] \in {"serving", "down"} /\ read'[p] = {}
      /\ \A q \in Processes \ {p} : pc'[q] = pc[q] /\ read'[q] = read[q] /\ todo'[q] = todo[q]
  BY <1>1, GoesFrame, ForgetsSeed
<1>3. role /\ kept \subseteq read[p] /\ read[p] \subseteq Given /\ Grants[p] \subseteq Given
  BY <1>1 DEF RevokeInv, GivenInv, SeedFits, GivenFits, Seeding
<1>4. ASSUME NEW q \in Processes
      PROVE  SeedFits(q)' /\ GivenFits(q)'
  <2>1. CASE q = p
    BY <1>2, <2>1 DEF SeedFits, GivenFits, Seeding
  <2>2. CASE q # p
    BY <1>1, <1>2, <2>2, OthersKeep DEF Given
  <2>. QED  BY <2>1, <2>2
<1>5. RevokeInv'
  BY <1>1, <1>3, <1>4 DEF RevokeInv, SurvivesRestart
<1>6. Given' = Given
  BY <1>1 DEF Given
<1>7. \A q \in Serving' : q \in Serving \/ q = p
  BY <1>2 DEF Serving
<1>8. \A q \in Serving' : Grants[q] \subseteq Given
  BY <1>3, <1>7 DEF GivenInv, GetsWhatItSeeds, Given
<1>9. GetsWhatItSeeds'
  BY <1>6, <1>8 DEF GetsWhatItSeeds, Given
<1>10. (seeded \subseteq Given)'
  BY <1>1, <1>3, <1>6 DEF GivenInv
<1>. QED  BY <1>4, <1>5, <1>9, <1>10 DEF GivenInv

\* A save takes away and gives again, and both are remembered.
LEMMA SaveKeeps ==
  ASSUME RevokeInv, GivenInv,
         \E p \in Processes : SaveRow(p) \/ \E keep \in SUBSET Pairs : Save(p, keep)
  PROVE  RevokeInv' /\ GivenInv'
<1>. USE DEF storeVars, passVars
<1>1. UNCHANGED <<pc, role, seeded, read, todo>>
  BY DEF Save, SaveRow
<1>2. /\ Given \subseteq Given' /\ kept' \cap granted' = {} /\ kept' \subseteq seeded
      /\ \A q \in Processes : pc[q] \in Seeding => kept' \subseteq read[q]
  <2>1. kept \cap granted = {} /\ kept \subseteq seeded
        /\ \A q \in Processes : pc[q] \in Seeding => kept \subseteq read[q]
    BY DEF RevokeInv, SurvivesRestart, SeedFits
  <2>2. CASE \E p \in Processes, keep \in SUBSET Pairs : Save(p, keep)
    <3>1. PICK keep \in SUBSET Pairs :
            /\ granted' = {} /\ taken' = taken \cup granted
            /\ kept' = kept \cup { x \in (granted \cap seeded) \ keep :
                                     \A q \in Processes : pc[q] \in Seeding => x \in read[q] }
      BY <2>2 DEF Save
    <3>2. Given \subseteq Given'
      BY <3>1 DEF Given
    <3>. QED  BY <2>1, <3>1, <3>2
  <2>3. CASE \E p \in Processes : SaveRow(p)
    <3>1. PICK x : \/ /\ granted' = granted \cup {x} /\ taken' = taken \ {x} /\ kept' = kept \ {x}
                   \/ UNCHANGED <<granted, taken, kept>>
      BY <2>3 DEF SaveRow
    <3>2. Given \subseteq Given'
      BY <3>1 DEF Given
    <3>. QED  BY <2>1, <3>1, <3>2
  <2>. QED  BY <2>2, <2>3
<1>3. RevokeInv'
  BY <1>1, <1>2 DEF RevokeInv, SurvivesRestart, SeedFits
<1>4. \A q \in Processes : GivenFits(q)'
  BY <1>1, <1>2 DEF GivenInv, GivenFits
<1>5. Serving' = Serving
  BY <1>1 DEF Serving
<1>6. GetsWhatItSeeds' /\ (seeded \subseteq Given)'
  BY <1>1, <1>2, <1>5 DEF GivenInv, GetsWhatItSeeds, Given
<1>. QED  BY <1>3, <1>4, <1>6 DEF GivenInv

\* Both invariants are inductive.
LEMMA SeedStep ==
  ASSUME TypeOK, RevokeInv, GivenInv, [Next]_vars
  PROVE  RevokeInv' /\ GivenInv'
<1>1. ASSUME NEW p \in Processes,
             Start(p) \/ GoesOn(p) \/ GiveUp(p) \/ PassThrows(p) \/ Crash(p) \/ SaveRow(p)
      PROVE  RevokeInv' /\ GivenInv'
  <2>1. CASE \/ Start(p) \/ GiveUp(p) \/ PassThrows(p) \/ Crash(p) \/ TakeLock(p)
             \/ ReadLedger(p) \/ Statement(p) \/ Clash(p) \/ Record(p) \/ PassEnds(p)
    <3>1. Idle(p)
      BY <2>1, IdleSteps
    <3>. QED  BY <3>1, IdleKeeps
  <2>2. CASE SeedRead(p)
    BY <2>2, ReadSeedKeeps
  <2>3. CASE FindRole(p) \/ CreateRole(p)
    BY <2>3, RoleKeeps
  <2>4. CASE Look(p)
    BY <2>4, LookKeeps
  <2>5. CASE Give(p)
    BY <2>5, GiveKeeps
  <2>6. CASE Write(p)
    BY <2>6, WriteKeeps
  <2>7. CASE ReadBack(p)
    BY <2>7, ReadBackKeeps
  <2>8. CASE SaveRow(p)
    BY <2>8, SaveKeeps
  <2>. QED  BY <1>1, <2>1, <2>2, <2>3, <2>4, <2>5, <2>6, <2>7, <2>8 DEF GoesOn
<1>2. CASE \E p \in Processes, keep \in SUBSET Pairs : Save(p, keep)
  BY <1>2, SaveKeeps
<1>3. CASE Reap \/ UNCHANGED vars
  <2>1. UNCHANGED <<pc, role, granted, seeded, read, todo, taken, kept>>
    BY <1>3 DEF Reap, vars, seedVars, saveVars
  <2>2. \A q \in Processes : SeedFits(q)' /\ GivenFits(q)'
    BY <2>1, OthersKeep DEF Given
  <2>. QED  BY <2>1, <2>2 DEF RevokeInv, GivenInv, SurvivesRestart, GetsWhatItSeeds, Serving, Given
<1>. QED  BY <1>1, <1>2, <1>3 DEF Next

\* A grant an operator took away is put back by no later boot, whatever versions
\* boot, die or meet (SurvivesRestart).
THEOREM RevocationsStay == Spec => []SurvivesRestart
<1>1. Init => TypeOK /\ RevokeInv /\ GivenInv
  BY InitType, InitSeed
<1>2. TypeOK /\ RevokeInv /\ GivenInv /\ [Next]_vars => TypeOK' /\ RevokeInv' /\ GivenInv'
  BY TypeStep, SeedStep
<1>3. RevokeInv => SurvivesRestart
  BY DEF RevokeInv
<1>. QED  BY <1>1, <1>2, <1>3, PTL DEF Spec

\* Who serves has given what its version gives, unless a save took it away
\* (GetsWhatItSeeds).
THEOREM ServersAreSeeded == Spec => []GetsWhatItSeeds
<1>1. Init => TypeOK /\ RevokeInv /\ GivenInv
  BY InitType, InitSeed
<1>2. TypeOK /\ RevokeInv /\ GivenInv /\ [Next]_vars => TypeOK' /\ RevokeInv' /\ GivenInv'
  BY TypeStep, SeedStep
<1>3. GivenInv => GetsWhatItSeeds
  BY DEF GivenInv
<1>. QED  BY <1>1, <1>2, <1>3, PTL DEF Spec
=============================================================================
