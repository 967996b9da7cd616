---------------------------- MODULE Refunds_proofs ----------------------------
(***************************************************************************)
(* Theorems about refunds, for any number of confirmations, dashboard      *)
(* refunds, amounts and workers, and every fault, however often it comes.  *)
(***************************************************************************)
EXTENDS Refunds, SumTheorems

-----------------------------------------------------------------------------
(* The inductive invariant *)

\* What the provider says of a refund it knows, and the refunds it knows.
Answers == {"pending", "succeeded", "failed", "cancelled"}
Known == { p \in Refs : made[p] # "none" }

\* A worker has a hold in hand that no live row stands for: its row is yet to be
\* made, or ended and is yet to give its hold back.
InHand(m) == m.step = "make" \/ (m.step \in {"hold", "commit", "again"} /\ m.then \in {"end", "follow"})
HandOf(m) == IF InHand(m) THEN AmountOf(m.row) ELSE 0
StaffHandOf(m) == IF InHand(m) /\ m.row[1] = "staff" THEN AmountOf(m.row) ELSE 0

\* What a worker at each step carries, of the refunds k the provider knows.
Carries(m, k) ==
  /\ m.step \in {"hold", "commit", "again", "make", "ask", "move", "merge"} => m.row \in Rows
  /\ m.step \in {"hold", "commit", "again"} => m.then # "last"
  /\ m.step = "make" => m.row[1] = "staff"
  /\ m.step \in {"hold", "commit", "again"} /\ m.then = "make" => m.row[1] = "staff"
  /\ m.step \in {"move", "decide"} => m.to \in Answers
  /\ m.step = "decide" => m.ref \in k
  /\ m.step \in {"move", "merge"} /\ m.ref # NoRefund => m.ref \in k
  /\ m.news \subseteq k

\* Every id is one of the provider's, and so is every event.
IdsKnown ==
  /\ news \subseteq Known
  /\ \A r \in Rows : row[r].ref # NoRefund => row[r].ref \in Known

\* What live rows and workers hold, and what they hold for people's refunds.
Hands == [w \in Workers |-> HandOf(work[w])]
StaffHands == [w \in Workers |-> StaffHandOf(work[w])]
StaffRows == { r \in LiveRows : r[1] = "staff" }

Covered == SumOf(LiveRows) + Sum(Hands, Workers) <= committed
StaffCovered == SumOf(StaffRows) + Sum(StaffHands, Workers) <= Taken

IInv ==
  /\ TypeOK
  /\ \A w \in Workers : Carries(work[w], Known)
  /\ IdsKnown
  /\ Covered
  /\ StaffCovered

-----------------------------------------------------------------------------
(* Sums of amounts *)

\* There are finitely many rows, and each is of a refund.
LEMMA RowsFinite ==
  /\ IsFiniteSet(Rows) /\ IsFiniteSet(Workers)
  /\ \A r \in Rows : r[2] \in Refs /\ AmountOf(r) \in Nat
<1>1. IsFiniteSet(Refs) /\ IsFiniteSet({"staff"}) /\ IsFiniteSet({"provider"})
  BY RefundAssumption, FS_Union, FS_Singleton DEF Refs
<1>2. IsFiniteSet({"staff"} \X Keys) /\ IsFiniteSet({"provider"} \X Refs)
  BY <1>1, RefundAssumption, FS_Product
<1>3. IsFiniteSet(Rows)
  BY <1>2, FS_Union DEF Rows
<1>4. \A r \in Rows : r[2] \in Refs
  BY DEF Rows, Refs
<1> QED BY <1>3, <1>4, RefundAssumption DEF AmountOf, Refs

\* The amounts of rows, as a function.
Worth == [r \in Rows |-> AmountOf(r)]

\* The sum of some rows' amounts is a sum of that function.
LEMMA SumOfIsSum == ASSUME NEW rs, rs \subseteq Rows PROVE SumOf(rs) = Sum(Worth, rs)
<1> DEFINE OfRows(g) == g = [s \in SUBSET rs |-> IF s = {} THEN 0 ELSE AmountOf(Pick(s)) + g[s \ {Pick(s)}]]
<1>1. SumOf(rs) = (CHOOSE g : OfRows(g))[rs]
  BY DEF SumOf, Pick, MapThenSumSet, MapThenFoldSet
<1>2. IsFiniteSet(rs)
  BY RowsFinite, FS_Subset
<1>3. Folds(Worth, Fold(Worth, rs), rs)
  BY <1>2, FoldExists
<1>4. ASSUME NEW s \in SUBSET rs, s # {} PROVE AmountOf(Pick(s)) = Worth[Pick(s)]
  BY <1>4, Picked DEF Worth
<1>5. ASSUME NEW g PROVE OfRows(g) <=> Folds(Worth, g, rs)
  BY <1>4 DEF Folds
<1> HIDE DEF OfRows
<1>6. Folds(Worth, CHOOSE g : OfRows(g), rs)
  BY <1>3, <1>5
<1>7. rs \in SUBSET rs
  OBVIOUS
<1>8. (CHOOSE g : OfRows(g))[rs] = Fold(Worth, rs)[rs]
  BY <1>2, <1>3, <1>6, <1>7, FoldsAgree
<1> QED BY <1>1, <1>8, SumIsFold

\* Such sums are numbers, and more rows sum up to no less.
LEMMA SumOfNatural == ASSUME NEW rs, rs \subseteq Rows PROVE SumOf(rs) \in Nat
<1>1. IsFiniteSet(rs)
  BY RowsFinite, FS_Subset
<1>2. \A x \in rs : Worth[x] \in Nat
  BY RowsFinite DEF Worth
<1> QED BY <1>1, <1>2, SumOfIsSum, SumNatural

\* More rows come to no less.
LEMMA SumOfGrows == ASSUME NEW rs, rs \subseteq Rows, NEW ss, ss \subseteq rs PROVE SumOf(ss) <= SumOf(rs)
<1>1. IsFiniteSet(rs) /\ ss \subseteq Rows
  BY RowsFinite, FS_Subset
<1>2. \A x \in rs : Worth[x] \in Nat
  BY RowsFinite DEF Worth
<1>3. Sum(Worth, ss) <= Sum(Worth, rs)
  BY <1>1, <1>2, SumGrows
<1> QED BY <1>1, <1>3, SumOfIsSum

\* What a row counts for among some rows.
Counts(r, rs) == IF r \in rs THEN AmountOf(r) ELSE 0

\* A sum is that of the other rows and what one row counts for.
LEMMA SumSplits ==
  ASSUME NEW rs, rs \subseteq Rows, NEW r
  PROVE  /\ Sum(Worth, rs) = Sum(Worth, rs \ {r}) + Counts(r, rs)
         /\ Counts(r, rs) \in Nat /\ Sum(Worth, rs \ {r}) \in Nat
<1>1. IsFiniteSet(rs) /\ IsFiniteSet(rs \ {r})
  <2>1. rs \ {r} \in SUBSET Rows
    OBVIOUS
  <2> QED BY <2>1, RowsFinite, FS_Subset
<1>2. \A x \in Rows : Worth[x] = AmountOf(x) /\ Worth[x] \in Nat
  BY RowsFinite DEF Worth
<1>3. Sum(Worth, rs \ {r}) \in Nat
  BY <1>1, <1>2, SumNatural
<1>4. CASE r \in rs
  <2>1. Sum(Worth, rs) = Worth[r] + Sum(Worth, rs \ {r})
    BY <1>1, <1>2, <1>4, SumWithout
  <2>2. Counts(r, rs) = Worth[r] /\ Worth[r] \in Nat
    BY <1>2, <1>4 DEF Counts
  <2> QED BY <1>3, <2>1, <2>2
<1>5. CASE r \notin rs
  <2>1. rs \ {r} = rs
    BY <1>5
  <2>2. Counts(r, rs) = 0
    BY <1>5 DEF Counts
  <2>3. Sum(Worth, rs) = Sum(Worth, rs \ {r})
    BY <2>1
  <2> QED BY <1>3, <2>2, <2>3
<1> QED BY <1>4, <1>5

\* When one row and one worker change, the sums change by what they hold.
LEMMA Balance ==
  ASSUME NEW rs, rs \subseteq Rows, NEW ss, ss \subseteq Rows, NEW r, ss \ {r} \subseteq rs,
         NEW f \in [Workers -> Nat], NEW g \in [Workers -> Nat], NEW w \in Workers,
         \A v \in Workers \ {w} : g[v] = f[v]
  PROVE  (SumOf(ss) + Sum(g, Workers)) + (Counts(r, rs) + f[w])
           <= (SumOf(rs) + Sum(f, Workers)) + (Counts(r, ss) + g[w])
<1>1. IsFiniteSet(rs) /\ IsFiniteSet(ss) /\ IsFiniteSet(rs \ {r}) /\ IsFiniteSet(ss \ {r})
  <2>1. rs \ {r} \in SUBSET Rows /\ ss \ {r} \in SUBSET Rows
    OBVIOUS
  <2> QED BY <2>1, RowsFinite, FS_Subset
<1>2. \A x \in Rows : Worth[x] = AmountOf(x) /\ Worth[x] \in Nat
  BY RowsFinite DEF Worth
<1>3. Sum(Worth, rs) = Sum(Worth, rs \ {r}) + Counts(r, rs) /\ Counts(r, rs) \in Nat /\ Sum(Worth, rs \ {r}) \in Nat
  BY SumSplits
<1>4. Sum(Worth, ss) = Sum(Worth, ss \ {r}) + Counts(r, ss) /\ Counts(r, ss) \in Nat /\ Sum(Worth, ss \ {r}) \in Nat
  BY SumSplits
<1>5. Sum(Worth, ss \ {r}) <= Sum(Worth, rs \ {r})
  <2>1. ss \ {r} \subseteq rs \ {r}
    OBVIOUS
  <2>2. \A x \in rs \ {r} : Worth[x] \in Nat
    BY <1>2
  <2> QED BY <1>1, <2>1, <2>2, SumGrows
<1>6. Sum(g, Workers) + f[w] = Sum(f, Workers) + g[w]
  BY RowsFinite, SumChanged
<1>7. Sum(g, Workers) \in Nat /\ Sum(f, Workers) \in Nat /\ f[w] \in Nat /\ g[w] \in Nat
  BY RowsFinite, SumNatural
<1>8. SumOf(rs) = Sum(Worth, rs) /\ SumOf(ss) = Sum(Worth, ss)
  BY SumOfIsSum
<1>9. \A a, b, c, d, e, x, y, z \in Nat :
        a <= b /\ x + y = z + e => ((a + c) + x) + (d + y) <= ((b + d) + z) + (c + e)
  OBVIOUS
<1> HIDE DEF Counts
<1> QED BY <1>3, <1>4, <1>5, <1>6, <1>7, <1>8, <1>9

-----------------------------------------------------------------------------
(* A worker's turn *)

\* Taking its step a worker comes to carry m.
Turns(w, m) == m \in WorkType /\ Carries(m, Known') /\ work' = [work EXCEPT ![w] = m]

\* It comes to a step at which it has no hold in hand and its row does not matter.
Rests(w) ==
  \E m \in WorkType :
    /\ m.step \in {"idle", "check", "follow", "write", "mark"} /\ m.news \subseteq Known'
    /\ work' = [work EXCEPT ![w] = m]

\* What a worker has in hand is an amount.
LEMMA HandNatural ==
  ASSUME NEW m \in WorkType, NEW k, Carries(m, k)
  PROVE  /\ HandOf(m) \in Nat /\ StaffHandOf(m) \in Nat
         /\ m.step \notin {"hold", "commit", "again", "make"} => HandOf(m) = 0 /\ StaffHandOf(m) = 0
<1>1. InHand(m) => m.row \in Rows
  BY DEF InHand, Carries
<1>2. InHand(m) => AmountOf(m.row) \in Nat
  BY <1>1, RowsFinite
<1>3. m.step \notin {"hold", "commit", "again", "make"} => ~InHand(m)
  BY DEF InHand
<1> QED BY <1>2, <1>3 DEF HandOf, StaffHandOf

\* What a worker carries it still does when the provider knows more.
LEMMA CarriesOn ==
  ASSUME NEW m, NEW k, NEW l, k \subseteq l, Carries(m, k)
  PROVE  Carries(m, l)
BY DEF Carries

\* The functions of what workers have in hand.
LEMMA HandsTyped ==
  ASSUME work \in [Workers -> WorkType], \A v \in Workers : Carries(work[v], Known)
  PROVE  Hands \in [Workers -> Nat] /\ StaffHands \in [Workers -> Nat]
<1>1. \A v \in Workers : HandOf(work[v]) \in Nat /\ StaffHandOf(work[v]) \in Nat
  BY HandNatural
<1> QED BY <1>1 DEF Hands, StaffHands

\* And after a step.
LEMMA HandsTypedNext ==
  ASSUME work' \in [Workers -> WorkType], \A v \in Workers : Carries(work'[v], Known')
  PROVE  Hands' \in [Workers -> Nat] /\ StaffHands' \in [Workers -> Nat]
<1>1. \A v \in Workers : HandOf(work'[v]) \in Nat /\ StaffHandOf(work'[v]) \in Nat
  BY HandNatural
<1> QED BY <1>1 DEF Hands, StaffHands

\* After a turn every worker carries what is known.
LEMMA TurnCarries ==
  ASSUME IInv, NEW w \in Workers, NEW m, Turns(w, m), Known \subseteq Known'
  PROVE  /\ work' \in [Workers -> WorkType] /\ work'[w] = m
         /\ \A v \in Workers \ {w} : work'[v] = work[v]
         /\ \A v \in Workers : Carries(work'[v], Known')
<1>1. work \in [Workers -> WorkType] /\ m \in WorkType /\ work' = [work EXCEPT ![w] = m]
  BY DEF IInv, TypeOK, Turns
<1>2. work' \in [Workers -> WorkType] /\ work'[w] = m /\ \A v \in Workers \ {w} : work'[v] = work[v]
  BY <1>1
<1>3. ASSUME NEW v \in Workers PROVE Carries(work'[v], Known')
  <2>1. CASE v = w
    BY <1>2, <2>1 DEF Turns
  <2>2. CASE v # w
    <3>1. Carries(work[v], Known)
      BY DEF IInv
    <3>2. Carries(work[v], Known')
      BY <3>1, CarriesOn
    <3> QED BY <1>2, <2>2, <3>2
  <2> QED BY <2>1, <2>2
<1> QED BY <1>2, <1>3

\* A turn that takes no more in hand, or to live rows, than it adds to the hold
\* leaves all of it covered.
LEMMA TurnCovered ==
  ASSUME IInv, NEW w \in Workers, NEW m, Turns(w, m), Known \subseteq Known', committed' \in Nat,
         NEW r, LiveRows' \subseteq Rows, LiveRows' \ {r} \subseteq LiveRows,
         (committed + Counts(r, LiveRows')) + HandOf(m) <= (committed' + Counts(r, LiveRows)) + HandOf(work[w])
  PROVE  Covered'
<1>1. Hands \in [Workers -> Nat]
  BY HandsTyped DEF IInv, TypeOK
<1>2. Hands' \in [Workers -> Nat]
  BY TurnCarries, HandsTypedNext
<1>3. Hands[w] = HandOf(work[w]) /\ Hands'[w] = HandOf(m) /\ \A v \in Workers \ {w} : Hands'[v] = Hands[v]
  BY TurnCarries DEF Hands
<1>4. LiveRows \subseteq Rows
  BY DEF LiveRows
<1>5. (SumOf(LiveRows') + Sum(Hands', Workers)) + (Counts(r, LiveRows) + Hands[w])
        <= (SumOf(LiveRows) + Sum(Hands, Workers)) + (Counts(r, LiveRows') + Hands'[w])
  BY <1>1, <1>2, <1>3, <1>4, Balance
<1>6. SumOf(LiveRows) + Sum(Hands, Workers) <= committed
  BY DEF IInv, Covered
<1>7. SumOf(LiveRows) \in Nat /\ SumOf(LiveRows') \in Nat
  BY <1>4, SumOfNatural
<1>8. Sum(Hands, Workers) \in Nat /\ Sum(Hands', Workers) \in Nat
  BY <1>1, <1>2, RowsFinite, SumNatural
<1>9. Counts(r, LiveRows) \in Nat /\ Counts(r, LiveRows') \in Nat
  BY <1>4, SumSplits
<1>10. HandOf(m) \in Nat /\ HandOf(work[w]) \in Nat /\ committed \in Nat
  BY <1>1, <1>2, <1>3 DEF IInv, TypeOK
<1>11. \A a, b, c, d, x, y, p, q, g, h \in Nat :
         (a + b) + (p + g) <= (c + d) + (q + h) /\ c + d <= x /\ (x + q) + h <= (y + p) + g => a + b <= y
  OBVIOUS
<1>12. (SumOf(LiveRows') + Sum(Hands', Workers)) + (Counts(r, LiveRows) + HandOf(work[w]))
        <= (SumOf(LiveRows) + Sum(Hands, Workers)) + (Counts(r, LiveRows') + HandOf(m))
  BY <1>3, <1>5
<1>13. SumOf(LiveRows') + Sum(Hands', Workers) <= committed'
  BY <1>6, <1>7, <1>8, <1>9, <1>10, <1>11, <1>12
<1> QED BY <1>13 DEF Covered

\* What people's refunds hold is part of it.
LEMMA StaffIsPart ==
  ASSUME IInv
  PROVE  SumOf(StaffRows) + Sum(StaffHands, Workers) <= committed
<1>1. Hands \in [Workers -> Nat] /\ StaffHands \in [Workers -> Nat]
  BY HandsTyped DEF IInv, TypeOK
<1>2. \A v \in Workers : StaffHands[v] <= Hands[v]
  <2>1. \A v \in Workers : StaffHandOf(work[v]) = HandOf(work[v]) \/ StaffHandOf(work[v]) = 0
    BY DEF StaffHandOf, HandOf
  <2>2. \A v \in Workers : StaffHands[v] = Hands[v] \/ StaffHands[v] = 0
    BY <2>1 DEF StaffHands, Hands
  <2> QED BY <1>1, <2>2
<1>3. Sum(StaffHands, Workers) <= Sum(Hands, Workers)
  BY <1>1, <1>2, RowsFinite, SumAtMost
<1>4. LiveRows \subseteq Rows /\ StaffRows \subseteq LiveRows /\ StaffRows \subseteq Rows
  BY DEF LiveRows, StaffRows
<1>5. SumOf(StaffRows) <= SumOf(LiveRows)
  BY <1>4, SumOfGrows
<1>6. SumOf(StaffRows) \in Nat /\ SumOf(LiveRows) \in Nat
  BY <1>4, SumOfNatural
<1>7. Sum(StaffHands, Workers) \in Nat /\ Sum(Hands, Workers) \in Nat
  BY <1>1, RowsFinite, SumNatural
<1>8. SumOf(LiveRows) + Sum(Hands, Workers) <= committed /\ committed \in Nat
  BY DEF IInv, Covered, TypeOK
<1> QED BY <1>3, <1>5, <1>6, <1>7, <1>8

\* The same for people's refunds, for any bound they are held to be within.
LEMMA TurnStaffCovered ==
  ASSUME IInv, NEW w \in Workers, NEW m, Turns(w, m), Known \subseteq Known',
         NEW r, LiveRows' \subseteq Rows, StaffRows' \ {r} \subseteq StaffRows,
         NEW n \in Nat, SumOf(StaffRows) + Sum(StaffHands, Workers) <= n,
         (n + Counts(r, StaffRows')) + StaffHandOf(m) <= (Taken + Counts(r, StaffRows)) + StaffHandOf(work[w])
  PROVE  StaffCovered'
<1>1. StaffHands \in [Workers -> Nat]
  BY HandsTyped DEF IInv, TypeOK
<1>2. StaffHands' \in [Workers -> Nat]
  BY TurnCarries, HandsTypedNext
<1>3. /\ StaffHands[w] = StaffHandOf(work[w]) /\ StaffHands'[w] = StaffHandOf(m)
      /\ \A v \in Workers \ {w} : StaffHands'[v] = StaffHands[v]
  BY TurnCarries DEF StaffHands
<1>4. StaffRows \subseteq Rows /\ StaffRows' \subseteq Rows
  BY DEF LiveRows, StaffRows
<1>5. (SumOf(StaffRows') + Sum(StaffHands', Workers)) + (Counts(r, StaffRows) + StaffHands[w])
        <= (SumOf(StaffRows) + Sum(StaffHands, Workers)) + (Counts(r, StaffRows') + StaffHands'[w])
  BY <1>1, <1>2, <1>3, <1>4, Balance
<1>6. Taken \in Nat
  BY RefundAssumption
<1>7. SumOf(StaffRows) \in Nat /\ SumOf(StaffRows') \in Nat
  BY <1>4, SumOfNatural
<1>8. Sum(StaffHands, Workers) \in Nat /\ Sum(StaffHands', Workers) \in Nat
  BY <1>1, <1>2, RowsFinite, SumNatural
<1>9. Counts(r, StaffRows) \in Nat /\ Counts(r, StaffRows') \in Nat
  BY <1>4, SumSplits
<1>10. StaffHandOf(m) \in Nat /\ StaffHandOf(work[w]) \in Nat
  BY <1>1, <1>2, <1>3
<1>11. \A a, b, c, d, x, y, p, q, g, h \in Nat :
         (a + b) + (p + g) <= (c + d) + (q + h) /\ c + d <= x /\ (x + q) + h <= (y + p) + g => a + b <= y
  OBVIOUS
<1>12. (SumOf(StaffRows') + Sum(StaffHands', Workers)) + (Counts(r, StaffRows) + StaffHandOf(work[w]))
        <= (SumOf(StaffRows) + Sum(StaffHands, Workers)) + (Counts(r, StaffRows') + StaffHandOf(m))
  BY <1>3, <1>5
<1>13. SumOf(StaffRows') + Sum(StaffHands', Workers) <= Taken
  BY <1>6, <1>7, <1>8, <1>9, <1>10, <1>11, <1>12
<1> QED BY <1>13 DEF StaffCovered

\* A turn that changes no row's state or id, nor the hold, and takes nothing more in hand.
LEMMA QuietTurn ==
  ASSUME IInv, NEW w \in Workers, NEW m, Turns(w, m),
         made' \in [Refs -> {"none"} \cup Answers], Known \subseteq Known', news' \subseteq Known',
         row' \in [Rows -> RowType], \A r \in Rows : row'[r].state = row[r].state /\ row'[r].ref = row[r].ref,
         committed' = committed, shown' \in 0 .. Taken, recorded' \in BOOLEAN, faults' \in 0 .. MaxFaults,
         HandOf(m) <= HandOf(work[w]), StaffHandOf(m) <= StaffHandOf(work[w])
  PROVE  IInv'
<1>1. work' \in [Workers -> WorkType] /\ \A v \in Workers : Carries(work'[v], Known')
  BY TurnCarries
<1>2. TypeOK'
  BY <1>1 DEF TypeOK, IInv, Known, Answers
<1>3. IdsKnown'
  BY DEF IInv, IdsKnown
<1>4. LiveRows' = LiveRows /\ StaffRows' = StaffRows /\ LiveRows \subseteq Rows
  BY DEF LiveRows, StaffRows
<1>5. Counts(w, LiveRows) \in Nat /\ Counts(w, StaffRows) \in Nat
  <2>1. StaffRows \subseteq Rows
    BY <1>4 DEF StaffRows
  <2> QED BY <1>4, <2>1, SumSplits
<1>6. committed \in Nat /\ Taken \in Nat /\ committed' \in Nat
  BY RefundAssumption DEF IInv, TypeOK
<1>7. /\ HandOf(m) \in Nat /\ HandOf(work[w]) \in Nat
      /\ StaffHandOf(m) \in Nat /\ StaffHandOf(work[w]) \in Nat
  BY HandNatural DEF IInv, TypeOK, Turns
<1>8. \A a, b, c, d \in Nat : c <= d => (a + b) + c <= (a + b) + d
  OBVIOUS
<1>9. Covered'
  <2>1. (committed + Counts(w, LiveRows')) + HandOf(m) <= (committed' + Counts(w, LiveRows)) + HandOf(work[w])
    BY <1>4, <1>5, <1>6, <1>7, <1>8
  <2>2. LiveRows' \ {w} \subseteq LiveRows /\ LiveRows' \subseteq Rows
    BY <1>4
  <2> QED BY <1>6, <2>1, <2>2, TurnCovered
<1>10. StaffCovered'
  <2>1. (Taken + Counts(w, StaffRows')) + StaffHandOf(m) <= (Taken + Counts(w, StaffRows)) + StaffHandOf(work[w])
    BY <1>4, <1>5, <1>6, <1>7, <1>8
  <2>2. StaffRows' \ {w} \subseteq StaffRows /\ LiveRows' \subseteq Rows
    BY <1>4
  <2>3. SumOf(StaffRows) + Sum(StaffHands, Workers) <= Taken
    BY DEF IInv, StaffCovered
  <2> QED BY <1>6, <2>1, <2>2, <2>3, TurnStaffCovered
<1> QED BY <1>1, <1>2, <1>3, <1>9, <1>10 DEF IInv

\* A worker that rests has nothing in hand.
LEMMA RestHasNone ==
  ASSUME NEW w \in Workers, Rests(w)
  PROVE  \E m : Turns(w, m) /\ HandOf(m) = 0 /\ StaffHandOf(m) = 0
<1>1. PICK m \in WorkType :
        /\ m.step \in {"idle", "check", "follow", "write", "mark"} /\ m.news \subseteq Known'
        /\ work' = [work EXCEPT ![w] = m]
  BY DEF Rests
<1>2. Carries(m, Known')
  BY <1>1 DEF Carries
<1>3. ~InHand(m)
  BY <1>1 DEF InHand
<1> QED BY <1>1, <1>2, <1>3 DEF Turns, HandOf, StaffHandOf

\* A worker at rest, with rows whose state and id stay, keeps the invariant.
LEMMA QuietRest ==
  ASSUME IInv, NEW w \in Workers, Rests(w),
         made' \in [Refs -> {"none"} \cup Answers], Known \subseteq Known', news' \subseteq Known',
         row' \in [Rows -> RowType], \A r \in Rows : row'[r].state = row[r].state /\ row'[r].ref = row[r].ref,
         committed' = committed, shown' \in 0 .. Taken, recorded' \in BOOLEAN, faults' \in 0 .. MaxFaults
  PROVE  IInv'
<1>1. PICK m : Turns(w, m) /\ HandOf(m) = 0 /\ StaffHandOf(m) = 0
  BY RestHasNone
<1>2. HandOf(work[w]) \in Nat /\ StaffHandOf(work[w]) \in Nat
  BY HandNatural DEF IInv, TypeOK
<1>3. HandOf(m) <= HandOf(work[w]) /\ StaffHandOf(m) <= StaffHandOf(work[w])
  BY <1>1, <1>2
<1> QED BY <1>1, <1>3, QuietTurn

-----------------------------------------------------------------------------
(* Where a worker goes *)

\* The states of rows, and what an idle worker is, are typed.
LEMMA StatesAre == "none" \in States /\ "requested" \in States /\ Answers \subseteq States
BY DEF States, Answers

\* A worker at rest is well typed.
LEMMA IdleTyped == NoWork \in WorkType
BY StatesAre DEF NoWork, WorkType

\* Whatever ends a worker, one that ended rests.
LEMMA ThrowsRests == ASSUME NEW w \in Workers, work' = [work EXCEPT ![w] = NoWork] PROVE Rests(w)
<1>1. NoWork.step = "idle" /\ NoWork.news = {}
  BY DEF NoWork
<1> QED BY <1>1, IdleTyped DEF Rests

\* A worker whose request or job ends is well typed and has empty hands,
LEMMA EndsRests ==
  ASSUME IInv, NEW w \in Workers, Known \subseteq Known', Ends(w)
  PROVE  Rests(w)
<1>1. CASE ~work[w].job
  BY <1>1, ThrowsRests DEF Ends, IInv, TypeOK
<1>2. CASE work[w].job
  <2> DEFINE m == [work[w] EXCEPT !.step = "check", !.to = "none", !.seen = "none", !.was = 0, !.then = "end", !.done = {}, !.undo = {}]
  <2>1. work[w] \in WorkType /\ work[w].news \subseteq Known'
    BY DEF IInv, TypeOK, Carries
  <2>2. m \in WorkType /\ m.step = "check" /\ m.news = work[w].news
    BY <2>1, StatesAre DEF WorkType
  <2>3. work' = [work EXCEPT ![w] = m]
    BY <1>2 DEF Ends, IInv, TypeOK
  <2> HIDE DEF m
  <2> QED BY <2>1, <2>2, <2>3 DEF Rests
<1> QED BY <1>1, <1>2

\* so is one that goes to follow,
LEMMA FollowsRests ==
  ASSUME IInv, NEW w \in Workers, Known \subseteq Known', Follows(w)
  PROVE  Rests(w)
<1>1. CASE ~recorded
  BY <1>1, EndsRests DEF Follows
<1>2. CASE recorded
  <2> DEFINE m == [work[w] EXCEPT !.step = "follow", !.to = "none", !.seen = "none", !.was = 0, !.then = "end"]
  <2>1. work[w] \in WorkType /\ work[w].news \subseteq Known'
    BY DEF IInv, TypeOK, Carries
  <2>2. m \in WorkType /\ m.step = "follow" /\ m.news = work[w].news
    BY <2>1, StatesAre DEF WorkType
  <2>3. work' = [work EXCEPT ![w] = m]
    BY <1>2 DEF Follows, IInv, TypeOK
  <2> HIDE DEF m
  <2> QED BY <2>1, <2>2, <2>3 DEF Rests
<1> QED BY <1>1, <1>2

\* and one that has followed.
LEMMA FollowedRests ==
  ASSUME IInv, NEW w \in Workers, Known \subseteq Known', Followed(w)
  PROVE  Rests(w)
BY ThrowsRests, EndsRests DEF Followed

\* A worker that goes on to a step at which it has no hold.
LEMMA GoesRests ==
  ASSUME IInv, NEW w \in Workers, Known \subseteq Known',
         NEW step \in {"follow", "write", "mark", "check"}, Goes(w, step)
  PROVE  Rests(w)
<1> DEFINE m == [work[w] EXCEPT !.step = step]
<1>1. work[w] \in WorkType /\ work[w].news \subseteq Known'
  BY DEF IInv, TypeOK, Carries
<1>2. m \in WorkType /\ m.step = step /\ m.news = work[w].news
  BY <1>1 DEF WorkType
<1>3. work' = [work EXCEPT ![w] = m]
  BY DEF Goes, IInv, TypeOK
<1> HIDE DEF m
<1> QED BY <1>1, <1>2, <1>3 DEF Rests

\* What a worker settles a row with: it asks, or moves the row, or looks at it.
LEMMA SettlesTurns ==
  ASSUME IInv, NEW w \in Workers, NEW r \in Rows, NEW told, told \subseteq Known, made' = made, Settles(w, r, told)
  PROVE  \E m : Turns(w, m) /\ HandOf(m) = 0 /\ StaffHandOf(m) = 0
<1> DEFINE goes == [NoWork EXCEPT !.row = r, !.job = TRUE, !.news = told, !.seen = row[r].state, !.ref = row[r].ref]
           to == made[row[r].ref]
           m == CASE row[r].ref = NoRefund /\ row[r].state = "requested" -> [goes EXCEPT !.step = "ask", !.seen = "none"]
                  [] row[r].ref # NoRefund /\ to # row[r].state          -> [goes EXCEPT !.step = "move", !.to = to]
                  [] OTHER                                              -> [goes EXCEPT !.step = "check", !.seen = "none"]
<1>1. work' = [work EXCEPT ![w] = m]
  BY DEF Settles
<1>2. row[r] \in RowType /\ made \in [Refs -> {"none"} \cup Answers] /\ Known \subseteq Refs /\ Known' = Known
  BY DEF IInv, TypeOK, Known, Answers
<1>3. goes \in WorkType /\ goes.row = r /\ goes.ref = row[r].ref /\ goes.news = told
  <2>1. row[r].state \in States /\ row[r].ref \in Refs \cup {NoRefund} /\ told \in SUBSET Refs
    BY <1>2 DEF RowType
  <2> QED BY <2>1, IdleTyped DEF WorkType
<1>4. row[r].ref # NoRefund => row[r].ref \in Known /\ to \in Answers
  BY <1>2 DEF IInv, IdsKnown, Known
<1>5. m \in WorkType /\ Carries(m, Known') /\ m.step \in {"ask", "move", "check"}
  <2> HIDE DEF goes
  <2>1. CASE row[r].ref = NoRefund /\ row[r].state = "requested"
    <3> DEFINE n == [goes EXCEPT !.step = "ask", !.seen = "none"]
    <3>1. m = n
      BY <2>1
    <3>2. n \in WorkType /\ n.step = "ask" /\ n.row = r /\ n.news = told
      BY <1>3, StatesAre DEF WorkType
    <3> HIDE DEF n, m
    <3> QED BY <3>1, <3>2, <1>2 DEF Carries
  <2>2. CASE row[r].ref # NoRefund /\ to # row[r].state
    <3> DEFINE n == [goes EXCEPT !.step = "move", !.to = to]
    <3>1. m = n
      BY <2>2
    <3>2. to \in States /\ to \in Answers /\ row[r].ref \in Known
      BY <1>4, <2>2, StatesAre
    <3> HIDE DEF to
    <3>3. n \in WorkType /\ n.step = "move" /\ n.row = r /\ n.news = told /\ n.to = to /\ n.ref = row[r].ref
      BY <1>3, <3>2 DEF WorkType
    <3> HIDE DEF n, m
    <3> QED BY <3>1, <3>2, <3>3, <1>2 DEF Carries
  <2>3. CASE /\ ~(row[r].ref = NoRefund /\ row[r].state = "requested")
             /\ ~(row[r].ref # NoRefund /\ to # row[r].state)
    <3> DEFINE n == [goes EXCEPT !.step = "check", !.seen = "none"]
    <3>1. m = n
      BY <2>3
    <3>2. n \in WorkType /\ n.step = "check" /\ n.news = told
      BY <1>3, StatesAre DEF WorkType
    <3> HIDE DEF n, m
    <3> QED BY <3>1, <3>2, <1>2 DEF Carries
  <2> QED BY <2>1, <2>2, <2>3
<1> HIDE DEF m
<1>6. HandOf(m) = 0 /\ StaffHandOf(m) = 0
  BY <1>5, HandNatural
<1> QED BY <1>1, <1>5, <1>6 DEF Turns

\* A turn of a worker that then has nothing in hand, and that changes no row's
\* state or id, nor the hold.
LEMMA QuietFree ==
  ASSUME IInv, NEW w \in Workers, NEW m, Turns(w, m), HandOf(m) = 0, StaffHandOf(m) = 0,
         made' \in [Refs -> {"none"} \cup Answers], Known \subseteq Known', news' \subseteq Known',
         UNCHANGED <<row, committed, recorded, shown>>, faults' \in 0 .. MaxFaults
  PROVE  IInv'
<1>1. HandOf(work[w]) \in Nat /\ StaffHandOf(work[w]) \in Nat
  BY HandNatural DEF IInv, TypeOK
<1>2. HandOf(m) <= HandOf(work[w]) /\ StaffHandOf(m) <= StaffHandOf(work[w])
  BY <1>1
<1>3. row' \in [Rows -> RowType] /\ shown' \in 0 .. Taken /\ recorded' \in BOOLEAN /\ committed' = committed
  BY DEF IInv, TypeOK
<1>4. \A r \in Rows : row'[r].state = row[r].state /\ row'[r].ref = row[r].ref
  OBVIOUS
<1> QED BY <1>2, <1>3, <1>4, QuietTurn

\* What the types say of the provider, unless something changes them.
LEMMA SameKnown ==
  ASSUME IInv, made' = made
  PROVE  made' \in [Refs -> {"none"} \cup Answers] /\ Known' = Known /\ Known \subseteq Known'
BY DEF IInv, TypeOK, Known, Answers

\* A fault is counted.
LEMMA FaultTyped == ASSUME IInv, NEW kind, Fault(kind) PROVE faults' \in 0 .. MaxFaults
BY RefundAssumption DEF IInv, TypeOK, Fault

-----------------------------------------------------------------------------
(* Every step keeps it: the provider *)

\* A refund of the provider that becomes one of its answers is known.
LEMMA BecomesKnown ==
  ASSUME IInv, NEW p \in Refs, NEW to \in Answers, made' = [made EXCEPT ![p] = to]
  PROVE  made' \in [Refs -> {"none"} \cup Answers] /\ Known \subseteq Known' /\ p \in Known'
BY DEF IInv, TypeOK, Known, Answers

\* What the provider does alone changes no row and no hold.
LEMMA ProviderKeeps ==
  ASSUME IInv, NEW p \in Refs, NEW to \in Answers, Becomes(p, to),
         UNCHANGED <<row, committed, recorded, shown, work, faults>>
  PROVE  IInv'
<1>1. made' \in [Refs -> {"none"} \cup Answers] /\ Known \subseteq Known' /\ p \in Known'
  BY BecomesKnown DEF Becomes
<1>2. news' \subseteq Known' /\ Known' \subseteq Refs
  BY <1>1 DEF Becomes, IInv, IdsKnown, Known
<1>3. TypeOK'
  BY <1>1, <1>2 DEF IInv, TypeOK, Answers
<1>4. IdsKnown'
  BY <1>1, <1>2 DEF IInv, IdsKnown
<1>5. \A v \in Workers : Carries(work'[v], Known')
  BY <1>1, CarriesOn DEF IInv
<1>6. LiveRows' = LiveRows /\ StaffRows' = StaffRows /\ Hands' = Hands /\ StaffHands' = StaffHands
  BY DEF LiveRows, StaffRows, Hands, StaffHands
<1>7. Covered' /\ StaffCovered'
  BY <1>6 DEF IInv, Covered, StaffCovered
<1> QED BY <1>3, <1>4, <1>5, <1>7 DEF IInv

LEMMA DeskKeeps == ASSUME IInv, NEW d \in Desk, MakeAtDesk(d) PROVE IInv'
<1>1. d \in Refs /\ {"pending", "succeeded"} \subseteq Answers
  BY DEF Refs, Answers
<1> QED BY <1>1, ProviderKeeps DEF MakeAtDesk

LEMMA ProgressKeeps == ASSUME IInv, NEW p \in Refs, Progress(p) PROVE IInv'
<1>1. {"succeeded", "failed", "cancelled"} \subseteq Answers
  BY DEF Answers
<1> QED BY <1>1, ProviderKeeps DEF Progress

-----------------------------------------------------------------------------
(* Every step keeps it: what begins a worker *)

LEMMA RequestKeeps == ASSUME IInv, NEW w \in Workers, NEW k \in Keys, Request(w, k) PROVE IInv'
<1> DEFINE r == <<"staff", k>>
           m == [NoWork EXCEPT !.step = "hold", !.row = r, !.then = "make"]
           n == [NoWork EXCEPT !.step = "ask", !.row = r]
<1>1. r \in Rows /\ r[1] = "staff"
  BY DEF Rows
<1>2. made' \in [Refs -> {"none"} \cup Answers] /\ Known' = Known /\ Known \subseteq Known' /\ news' \subseteq Known' /\ faults' \in 0 .. MaxFaults
  BY SameKnown DEF Request, IInv, IdsKnown, TypeOK
<1>3. UNCHANGED <<row, committed, recorded, shown>>
  BY DEF Request
<1>4. work' = [work EXCEPT ![w] = m] \/ work' = [work EXCEPT ![w] = n]
  BY DEF Request
<1> HIDE DEF r
<1>5. Carries(m, Known) /\ m \in WorkType /\ HandOf(m) = 0 /\ StaffHandOf(m) = 0
  <2>1. m \in WorkType /\ m.step = "hold" /\ m.row = r /\ m.then = "make" /\ m.news = {}
    BY <1>1, IdleTyped DEF WorkType, NoWork
  <2> HIDE DEF m
  <2> QED BY <2>1, <1>1 DEF Carries, HandOf, StaffHandOf, InHand
<1>6. Carries(n, Known) /\ n \in WorkType /\ HandOf(n) = 0 /\ StaffHandOf(n) = 0
  <2>1. n \in WorkType /\ n.step = "ask" /\ n.row = r /\ n.news = {}
    BY <1>1, IdleTyped DEF WorkType, NoWork
  <2> HIDE DEF n
  <2> QED BY <2>1, <1>1 DEF Carries, HandOf, StaffHandOf, InHand
<1> HIDE DEF m, n
<1>7. Turns(w, m) \/ Turns(w, n)
  BY <1>2, <1>4, <1>5, <1>6 DEF Turns
<1> QED BY <1>2, <1>3, <1>5, <1>6, <1>7, QuietFree

LEMMA SettleKeeps == ASSUME IInv, NEW w \in Workers, NEW r \in Rows, Settle(w, r) PROVE IInv'
<1>1. made' \in [Refs -> {"none"} \cup Answers] /\ Known' = Known /\ Known \subseteq Known' /\ news' \subseteq Known' /\ faults' \in 0 .. MaxFaults
  BY SameKnown DEF Settle, IInv, IdsKnown, TypeOK
<1>2. PICK m : Turns(w, m) /\ HandOf(m) = 0 /\ StaffHandOf(m) = 0
  <2>1. Settles(w, r, {}) /\ {} \subseteq Known /\ made' = made
    BY DEF Settle
  <2> QED BY <2>1, SettlesTurns
<1>3. UNCHANGED <<row, committed, recorded, shown>>
  BY DEF Settle
<1> QED BY <1>1, <1>2, <1>3, QuietFree

LEMMA EventKeeps == ASSUME IInv, NEW w \in Workers, NEW p \in Refs, Event(w, p) PROVE IInv'
<1>1. made' \in [Refs -> {"none"} \cup Answers] /\ Known' = Known /\ Known \subseteq Known' /\ news' \subseteq Known' /\ faults' \in 0 .. MaxFaults
  BY SameKnown DEF Event, IInv, IdsKnown, TypeOK
<1>2. p \in Known /\ made[p] \in Answers
  BY SameKnown DEF Event, IInv, IdsKnown, Known, TypeOK, Answers
<1>3. \E m : Turns(w, m) /\ HandOf(m) = 0 /\ StaffHandOf(m) = 0
  <2>1. CASE With(p) # {}
    <3>1. PICK r \in With(p) : Settles(w, r, {p})
      BY <2>1 DEF Event
    <3>2. r \in Rows /\ {p} \subseteq Known /\ made' = made
      BY <1>2 DEF With, Event
    <3> QED BY <3>1, <3>2, SettlesTurns
  <2>2. CASE With(p) = {}
    <3> DEFINE m == [NoWork EXCEPT !.step = "decide", !.ref = p, !.to = made[p], !.job = TRUE, !.news = {p}]
    <3>1. work' = [work EXCEPT ![w] = m]
      BY <2>2 DEF Event
    <3>2. made[p] \in States /\ {p} \in SUBSET Refs
      BY <1>2, StatesAre
    <3>3. m \in WorkType /\ m.step = "decide" /\ m.ref = p /\ m.to = made[p] /\ m.news = {p}
      BY <3>2, IdleTyped DEF WorkType, NoWork
    <3> HIDE DEF m
    <3>4. Carries(m, Known')
      BY <1>1, <1>2, <3>3 DEF Carries
    <3>5. HandOf(m) = 0 /\ StaffHandOf(m) = 0
      BY <3>3, <3>4, HandNatural
    <3> QED BY <3>1, <3>3, <3>4, <3>5 DEF Turns
  <2> QED BY <2>1, <2>2
<1>4. UNCHANGED <<row, committed, recorded, shown>>
  BY DEF Event
<1> QED BY <1>1, <1>3, <1>4, QuietFree

LEMMA RecordPaymentKeeps == ASSUME IInv, NEW w \in Workers, RecordPayment(w) PROVE IInv'
<1> DEFINE m == [NoWork EXCEPT !.step = "follow", !.then = "last"]
<1>1. made' \in [Refs -> {"none"} \cup Answers] /\ Known' = Known /\ Known \subseteq Known' /\ news' \subseteq Known' /\ faults' \in 0 .. MaxFaults
  BY SameKnown DEF RecordPayment, IInv, IdsKnown, TypeOK
<1>2. m \in WorkType /\ m.step = "follow" /\ m.news = {}
  BY IdleTyped DEF WorkType, NoWork
<1>3. work[w] \in WorkType /\ work[w].step = "idle" /\ work[w].news \subseteq Known
  BY DEF RecordPayment, IInv, TypeOK, Carries
<1>4. work' = [work EXCEPT ![w] = m] \/ work' = work
  BY DEF RecordPayment
<1>5. work' = work => work' = [work EXCEPT ![w] = work[w]]
  BY DEF IInv, TypeOK
<1> HIDE DEF m
<1>6. Rests(w)
  BY <1>1, <1>2, <1>3, <1>4, <1>5 DEF Rests
<1>7. row' \in [Rows -> RowType] /\ \A r \in Rows : row'[r].state = row[r].state /\ row'[r].ref = row[r].ref
  BY DEF RecordPayment, IInv, TypeOK
<1>8. committed' = committed /\ shown' \in 0 .. Taken /\ recorded' \in BOOLEAN
  BY DEF RecordPayment, IInv, TypeOK
<1> QED BY <1>1, <1>6, <1>7, <1>8, QuietRest

LEMMA CrashKeeps == ASSUME IInv, NEW w \in Workers, Crash(w) PROVE IInv'
<1>1. made' \in [Refs -> {"none"} \cup Answers] /\ Known' = Known /\ Known \subseteq Known'
  BY SameKnown DEF Crash
<1>2. news' \subseteq Known'
  BY <1>1 DEF Crash, Throws, IInv, IdsKnown, Carries
<1>3. faults' \in 0 .. MaxFaults
  BY FaultTyped DEF Crash
<1>4. Rests(w)
  BY ThrowsRests DEF Crash, Throws
<1>5. row' \in [Rows -> RowType] /\ \A r \in Rows : row'[r].state = row[r].state /\ row'[r].ref = row[r].ref
  BY DEF Crash, IInv, TypeOK
<1>6. committed' = committed /\ shown' \in 0 .. Taken /\ recorded' \in BOOLEAN
  BY DEF Crash, IInv, TypeOK
<1> QED BY <1>1, <1>2, <1>3, <1>4, <1>5, <1>6, QuietRest

-----------------------------------------------------------------------------
(* Every step keeps it: the hold *)

LEMMA HoldReadKeeps == ASSUME IInv, NEW w \in Workers, HoldRead(w) PROVE IInv'
<1> DEFINE m == [work[w] EXCEPT !.step = "commit", !.was = committed, !.to = "none", !.seen = "none"]
<1>1. made' \in [Refs -> {"none"} \cup Answers] /\ Known' = Known /\ Known \subseteq Known' /\ news' \subseteq Known' /\ faults' \in 0 .. MaxFaults
  BY SameKnown DEF HoldRead, IInv, IdsKnown, TypeOK
<1>2. work[w] \in WorkType /\ work[w].step = "hold" /\ Carries(work[w], Known) /\ committed \in Nat
  BY DEF HoldRead, IInv, TypeOK
<1>3. m \in WorkType /\ m.step = "commit" /\ m.row = work[w].row /\ m.then = work[w].then /\ m.news = work[w].news
  BY <1>2, StatesAre DEF WorkType
<1>4. work' = [work EXCEPT ![w] = m]
  BY DEF HoldRead, IInv, TypeOK
<1> HIDE DEF m
<1>5. Turns(w, m)
  BY <1>1, <1>2, <1>3, <1>4 DEF Turns, Carries
<1>6. HandOf(m) = HandOf(work[w]) /\ StaffHandOf(m) = StaffHandOf(work[w])
  BY <1>2, <1>3 DEF HandOf, StaffHandOf, InHand
<1>7. HandOf(m) \in Nat /\ StaffHandOf(m) \in Nat
  BY <1>5, HandNatural DEF Turns
<1>8. row' \in [Rows -> RowType] /\ \A r \in Rows : row'[r].state = row[r].state /\ row'[r].ref = row[r].ref
  BY DEF HoldRead, IInv, TypeOK
<1>9. committed' = committed /\ shown' \in 0 .. Taken /\ recorded' \in BOOLEAN
  BY DEF HoldRead, IInv, TypeOK
<1>10. HandOf(m) <= HandOf(work[w]) /\ StaffHandOf(m) <= StaffHandOf(work[w])
  BY <1>6, <1>7
<1> QED BY <1>1, <1>5, <1>8, <1>9, <1>10, QuietTurn

\* The general step: one row and one worker change, and the hold with them.
LEMMA TurnKeeps ==
  ASSUME IInv, NEW w \in Workers, NEW m, Turns(w, m), Known \subseteq Known',
         made' \in [Refs -> {"none"} \cup Answers], news' \subseteq Known',
         committed' \in Nat, shown' \in 0 .. Taken, recorded' \in BOOLEAN, faults' \in 0 .. MaxFaults,
         row' \in [Rows -> RowType], \A x \in Rows : row'[x].ref # NoRefund => row'[x].ref \in Known',
         NEW r, \A x \in Rows : x # r => row'[x].state = row[x].state,
         (committed + Counts(r, LiveRows')) + HandOf(m) <= (committed' + Counts(r, LiveRows)) + HandOf(work[w]),
         NEW n \in Nat, SumOf(StaffRows) + Sum(StaffHands, Workers) <= n,
         (n + Counts(r, StaffRows')) + StaffHandOf(m) <= (Taken + Counts(r, StaffRows)) + StaffHandOf(work[w])
  PROVE  IInv'
<1>1. work' \in [Workers -> WorkType] /\ \A v \in Workers : Carries(work'[v], Known')
  BY TurnCarries
<1>2. TypeOK'
  BY <1>1 DEF TypeOK, Known, Answers
<1>3. IdsKnown'
  BY DEF IdsKnown
<1>4. LiveRows' \subseteq Rows /\ LiveRows' \ {r} \subseteq LiveRows /\ StaffRows' \ {r} \subseteq StaffRows
  BY DEF LiveRows, StaffRows
<1>5. Covered'
  BY <1>4, TurnCovered
<1>6. StaffCovered'
  BY <1>4, TurnStaffCovered
<1> QED BY <1>1, <1>2, <1>3, <1>5, <1>6 DEF IInv

\* Its rows stay, and what they count for.
LEMMA SameRows ==
  ASSUME IInv, row' = row, Known' = Known
  PROVE  /\ row' \in [Rows -> RowType]
         /\ \A x \in Rows : row'[x].ref # NoRefund => row'[x].ref \in Known'
         /\ LiveRows' = LiveRows /\ StaffRows' = StaffRows
         /\ \A x : Counts(x, LiveRows) \in Nat /\ Counts(x, StaffRows) \in Nat
<1>1. LiveRows \subseteq Rows /\ StaffRows \subseteq Rows
  BY DEF LiveRows, StaffRows
<1>2. \A x : Counts(x, LiveRows) \in Nat /\ Counts(x, StaffRows) \in Nat
  BY <1>1, SumSplits
<1> QED BY <1>2 DEF IInv, TypeOK, IdsKnown, LiveRows, StaffRows

\* A worker that goes on with the same hold in hand.
LEMMA HoldStays ==
  ASSUME IInv, NEW w \in Workers, NEW m \in WorkType, work' = [work EXCEPT ![w] = m],
         work[w].step \in {"commit", "again"}, m.step \in {"hold", "again"},
         m.row = work[w].row, m.then = work[w].then, m.news = work[w].news,
         made' \in [Refs -> {"none"} \cup Answers], Known' = Known, news' \subseteq Known', faults' \in 0 .. MaxFaults,
         row' \in [Rows -> RowType], \A r \in Rows : row'[r].state = row[r].state /\ row'[r].ref = row[r].ref,
         committed' = committed, shown' \in 0 .. Taken, recorded' \in BOOLEAN
  PROVE  IInv'
<1>1. Carries(work[w], Known)
  BY DEF IInv
<1>2. Turns(w, m)
  BY <1>1 DEF Turns, Carries
<1>3. HandOf(m) = HandOf(work[w]) /\ StaffHandOf(m) = StaffHandOf(work[w])
  BY DEF HandOf, StaffHandOf, InHand
<1>4. HandOf(m) \in Nat /\ StaffHandOf(m) \in Nat
  BY <1>2, HandNatural DEF Turns
<1>5. HandOf(m) <= HandOf(work[w]) /\ StaffHandOf(m) <= StaffHandOf(work[w])
  BY <1>3, <1>4
<1> QED BY <1>2, <1>5, QuietTurn

\* A hold that lands takes in hand what it adds, or gives back what was in hand.
LEMMA HoldCommitKeeps == ASSUME IInv, NEW w \in Workers, HoldCommit(w) PROVE IInv'
<1>1. made' \in [Refs -> {"none"} \cup Answers] /\ Known' = Known /\ Known \subseteq Known' /\ news' \subseteq Known' /\ faults' \in 0 .. MaxFaults
  BY SameKnown DEF HoldCommit, IInv, IdsKnown, TypeOK
<1>2. work[w] \in WorkType /\ work[w].step = "commit" /\ Carries(work[w], Known) /\ committed \in Nat /\ Taken \in Nat
  BY RefundAssumption DEF HoldCommit, IInv, TypeOK
<1>3. work[w].row \in Rows /\ work[w].then \in {"make", "follow", "end"} /\ work[w].was \in Nat
  BY <1>2 DEF Carries, WorkType
<1> DEFINE n == AmountOf(work[w].row)
<1>4. n \in Nat
  BY <1>3, RowsFinite
<1>5. row' = row /\ recorded' = recorded /\ shown' = shown /\ made' = made
  BY DEF HoldCommit
<1>6. /\ row' \in [Rows -> RowType] /\ \A r \in Rows : row'[r].state = row[r].state /\ row'[r].ref = row[r].ref
      /\ shown' \in 0 .. Taken /\ recorded' \in BOOLEAN
  BY <1>5 DEF IInv, TypeOK
<1>7. CASE committed # work[w].was \/ Held(w) > Taken
  <2> DEFINE m == [work[w] EXCEPT !.step = "again"]
  <2>1. m \in WorkType /\ m.step = "again" /\ m.row = work[w].row /\ m.then = work[w].then /\ m.news = work[w].news
    BY <1>2 DEF WorkType
  <2>2. work' = [work EXCEPT ![w] = m] /\ committed' = committed
    BY <1>7 DEF HoldCommit, Goes, IInv, TypeOK
  <2> HIDE DEF m
  <2> QED BY <1>1, <1>2, <1>6, <2>1, <2>2, HoldStays
<1>9. CASE committed = work[w].was /\ ~(Held(w) > Taken)
  <2>1. committed' = Held(w) /\ Moved(w)
    BY <1>9 DEF HoldCommit
  <2>2. /\ LiveRows' = LiveRows /\ StaffRows' = StaffRows
        /\ \A x : Counts(x, LiveRows) \in Nat /\ Counts(x, StaffRows) \in Nat
        /\ \A x \in Rows : row'[x].ref # NoRefund => row'[x].ref \in Known'
    BY <1>1, <1>5, SameRows
  <2>3. CASE work[w].then = "make"
    <3> DEFINE m == [work[w] EXCEPT !.step = "make", !.then = "end", !.was = 0]
    <3>1. m \in WorkType /\ m.step = "make" /\ m.row = work[w].row /\ m.news = work[w].news
      BY <1>2 DEF WorkType
    <3>2. work' = [work EXCEPT ![w] = m]
      BY <2>1, <2>3 DEF Moved, IInv, TypeOK
    <3> HIDE DEF m
    <3>3. Turns(w, m)
      BY <1>1, <1>2, <2>3, <3>1, <3>2 DEF Turns, Carries
    <3>4. HandOf(m) = n /\ StaffHandOf(m) = n /\ HandOf(work[w]) = 0 /\ StaffHandOf(work[w]) = 0
      <4>1. work[w].row[1] = "staff"
        BY <1>2, <2>3 DEF Carries
      <4> QED BY <1>2, <2>3, <3>1, <4>1 DEF HandOf, StaffHandOf, InHand
    <3>5. committed' = committed + n /\ committed' \in Nat /\ committed + n <= Taken
      BY <1>2, <1>4, <1>9, <2>1, <2>3 DEF Held
    <3> HIDE DEF n
    <3>6. (committed + Counts(w, LiveRows')) + HandOf(m) <= (committed' + Counts(w, LiveRows)) + HandOf(work[w])
      BY <1>2, <1>4, <2>2, <3>4, <3>5
    <3>7. (committed + Counts(w, StaffRows')) + StaffHandOf(m) <= (Taken + Counts(w, StaffRows)) + StaffHandOf(work[w])
      BY <1>2, <1>4, <2>2, <3>4, <3>5
    <3>8. SumOf(StaffRows) + Sum(StaffHands, Workers) <= committed
      BY StaffIsPart
    <3>9. \A x \in Rows : x # w => row'[x].state = row[x].state
      BY <1>5
    <3> QED BY <1>1, <1>2, <1>6, <2>2, <3>3, <3>5, <3>6, <3>7, <3>8, <3>9, TurnKeeps
  <2>4. CASE work[w].then \in {"follow", "end"}
    <3>1. Rests(w)
      BY <1>1, <2>1, <2>4, EndsRests, FollowsRests DEF Moved
    <3>2. PICK m : Turns(w, m) /\ HandOf(m) = 0 /\ StaffHandOf(m) = 0
      BY <3>1, RestHasNone
    <3>3. HandOf(work[w]) = n
      BY <1>2, <2>4 DEF HandOf, InHand
    <3>4. StaffHandOf(work[w]) \in Nat
      BY <1>2, HandNatural
    <3>5. committed' \in Nat /\ committed <= committed' + n
      BY <1>2, <1>4, <1>9, <2>1, <2>4 DEF Held
    <3> HIDE DEF n
    <3>6. (committed + Counts(w, LiveRows')) + HandOf(m) <= (committed' + Counts(w, LiveRows)) + HandOf(work[w])
      BY <1>2, <1>4, <2>2, <3>2, <3>3, <3>5
    <3>7. (Taken + Counts(w, StaffRows')) + StaffHandOf(m) <= (Taken + Counts(w, StaffRows)) + StaffHandOf(work[w])
      BY <1>2, <2>2, <3>2, <3>4
    <3>8. SumOf(StaffRows) + Sum(StaffHands, Workers) <= Taken
      BY DEF IInv, StaffCovered
    <3>9. \A x \in Rows : x # w => row'[x].state = row[x].state
      BY <1>5
    <3> QED BY <1>1, <1>2, <1>6, <2>2, <3>2, <3>5, <3>6, <3>7, <3>8, <3>9, TurnKeeps
  <2> QED BY <1>3, <2>3, <2>4
<1> QED BY <1>7, <1>9

\* A hold that did not land is tried again, or given up with what was to be given
\* back still held.
LEMMA HoldAgainKeeps == ASSUME IInv, NEW w \in Workers, HoldAgain(w) PROVE IInv'
<1>1. made' \in [Refs -> {"none"} \cup Answers] /\ Known' = Known /\ Known \subseteq Known' /\ news' \subseteq Known' /\ faults' \in 0 .. MaxFaults
  BY SameKnown DEF HoldAgain, IInv, IdsKnown, TypeOK
<1>2. work[w] \in WorkType /\ work[w].step = "again" /\ Carries(work[w], Known)
  BY DEF HoldAgain, IInv, TypeOK
<1>3. work[w].then \in {"make", "follow", "end"}
  BY <1>2 DEF Carries, WorkType
<1>4. /\ row' \in [Rows -> RowType] /\ \A r \in Rows : row'[r].state = row[r].state /\ row'[r].ref = row[r].ref
      /\ committed' = committed /\ shown' \in 0 .. Taken /\ recorded' \in BOOLEAN
  BY DEF HoldAgain, IInv, TypeOK
<1>5. CASE work' = [work EXCEPT ![w].step = "hold", ![w].was = 0]
  <2> DEFINE m == [work[w] EXCEPT !.step = "hold", !.was = 0]
  <2>1. m \in WorkType /\ m.step = "hold" /\ m.row = work[w].row /\ m.then = work[w].then /\ m.news = work[w].news
    BY <1>2 DEF WorkType
  <2>2. work' = [work EXCEPT ![w] = m]
    BY <1>5 DEF IInv, TypeOK
  <2> HIDE DEF m
  <2> QED BY <1>1, <1>2, <1>4, <2>1, <2>2, HoldStays
<1>6. CASE Refused(w)
  <2>1. CASE work[w].then = "make"
    BY <1>1, <1>4, <1>6, <2>1, ThrowsRests, QuietRest DEF Refused
  <2>2. CASE work[w].then = "end"
    BY <1>1, <1>4, <1>6, <2>2, EndsRests, QuietRest DEF Refused, Moved
  <2>3. CASE work[w].then = "follow"
    BY <1>1, <1>4, <1>6, <2>3, FollowsRests, QuietRest DEF Refused, Moved
  <2> QED BY <1>3, <2>1, <2>2, <2>3
<1> QED BY <1>5, <1>6 DEF HoldAgain

\* A row is made with the hold that was in hand for it, or the hold goes back.
LEMMA MakeRowKeeps == ASSUME IInv, NEW w \in Workers, MakeRow(w) PROVE IInv'
<1> DEFINE r == work[w].row
<1>1. made' \in [Refs -> {"none"} \cup Answers] /\ Known' = Known /\ Known \subseteq Known' /\ news' \subseteq Known' /\ faults' \in 0 .. MaxFaults
  BY SameKnown DEF MakeRow, IInv, IdsKnown, TypeOK
<1>2. work[w] \in WorkType /\ work[w].step = "make" /\ Carries(work[w], Known) /\ committed \in Nat /\ Taken \in Nat
  BY RefundAssumption DEF MakeRow, IInv, TypeOK
<1>3. r \in Rows /\ r[1] = "staff"
  BY <1>2 DEF Carries
<1>4. AmountOf(r) \in Nat
  BY <1>3, RowsFinite
<1>5. committed' = committed /\ committed' \in Nat /\ shown' \in 0 .. Taken /\ recorded' \in BOOLEAN
  BY DEF MakeRow, IInv, TypeOK
<1>6. HandOf(work[w]) = AmountOf(r) /\ StaffHandOf(work[w]) = AmountOf(r)
  BY <1>2, <1>3 DEF HandOf, StaffHandOf, InHand
<1>7. CASE row[r].state = "none"
  <2> DEFINE m == [work[w] EXCEPT !.step = "ask"]
  <2>1. m \in WorkType /\ m.step = "ask" /\ m.row = r /\ m.news = work[w].news
    BY <1>2 DEF WorkType
  <2>2. work' = [work EXCEPT ![w] = m] /\ row' = [row EXCEPT ![r] = [row[r] EXCEPT !.state = "requested"]]
    BY <1>3, <1>7 DEF MakeRow, Goes, IInv, TypeOK
  <2> HIDE DEF m
  <2>3. Turns(w, m)
    BY <1>1, <1>2, <1>3, <2>1, <2>2 DEF Turns, Carries
  <2>4. HandOf(m) = 0 /\ StaffHandOf(m) = 0
    BY <2>1, <2>3, HandNatural DEF Turns
  <2> HIDE DEF r
  <2>5. row \in [Rows -> RowType]
    BY DEF IInv, TypeOK
  <2>6. [row[r] EXCEPT !.state = "requested"] \in RowType
    BY <1>3, <2>5, StatesAre DEF RowType
  <2>7. row' \in [Rows -> RowType] /\ \A x \in Rows : x # r => row'[x] = row[x]
    BY <2>2, <2>5, <2>6
  <2>8. row'[r].state = "requested" /\ row'[r].ref = row[r].ref
    BY <1>3, <2>2, <2>5 DEF RowType
  <2>9. \A x \in Rows : row'[x].ref # NoRefund => row'[x].ref \in Known'
    BY <1>1, <2>7, <2>8 DEF IInv, IdsKnown
  <2>10. r \notin LiveRows /\ r \in LiveRows' /\ r \notin StaffRows /\ r \in StaffRows'
    BY <1>3, <1>7, <2>8 DEF LiveRows, StaffRows
  <2>11. /\ Counts(r, LiveRows) = 0 /\ Counts(r, LiveRows') = AmountOf(r)
         /\ Counts(r, StaffRows) = 0 /\ Counts(r, StaffRows') = AmountOf(r)
    BY <2>10 DEF Counts
  <2>12. (committed + Counts(r, LiveRows')) + HandOf(m) <= (committed' + Counts(r, LiveRows)) + HandOf(work[w])
    BY <1>2, <1>4, <1>5, <1>6, <2>4, <2>11
  <2>13. (Taken + Counts(r, StaffRows')) + StaffHandOf(m) <= (Taken + Counts(r, StaffRows)) + StaffHandOf(work[w])
    BY <1>2, <1>4, <1>6, <2>4, <2>11
  <2>14. SumOf(StaffRows) + Sum(StaffHands, Workers) <= Taken
    BY DEF IInv, StaffCovered
  <2>15. \A x \in Rows : x # r => row'[x].state = row[x].state
    BY <2>7
  <2> QED BY <1>1, <1>2, <1>5, <2>3, <2>7, <2>9, <2>12, <2>13, <2>14, <2>15, TurnKeeps
<1>8. CASE row[r].state # "none"
  <2> DEFINE m == [work[w] EXCEPT !.step = "hold", !.then = "end"]
  <2>1. m \in WorkType /\ m.step = "hold" /\ m.row = r /\ m.then = "end" /\ m.news = work[w].news
    BY <1>2 DEF WorkType
  <2>2. work' = [work EXCEPT ![w] = m] /\ row' = row
    BY <1>8 DEF MakeRow, IInv, TypeOK
  <2> HIDE DEF m
  <2>3. Turns(w, m)
    BY <1>1, <1>2, <1>3, <2>1, <2>2 DEF Turns, Carries
  <2>4. HandOf(m) = AmountOf(r) /\ StaffHandOf(m) = AmountOf(r)
    BY <1>3, <2>1 DEF HandOf, StaffHandOf, InHand
  <2>5. HandOf(m) <= HandOf(work[w]) /\ StaffHandOf(m) <= StaffHandOf(work[w])
    BY <1>4, <1>6, <2>4
  <2>6. row' \in [Rows -> RowType] /\ \A x \in Rows : row'[x].state = row[x].state /\ row'[x].ref = row[x].ref
    BY <2>2 DEF IInv, TypeOK
  <2> QED BY <1>1, <1>5, <2>3, <2>5, <2>6, QuietTurn
<1> QED BY <1>7, <1>8

-----------------------------------------------------------------------------
(* Every step keeps it: the provider is asked, and the row moves *)

\* What it hears is an answer, with an id the provider knows.
LEMMA HearsTurns ==
  ASSUME IInv, NEW w \in Workers, Known \subseteq Known', work[w].row \in Rows,
         NEW to \in Answers, NEW p, p \in Known' \/ p = NoRefund, Hears(w, to, p)
  PROVE  \E m : Turns(w, m) /\ HandOf(m) = 0 /\ StaffHandOf(m) = 0
<1> DEFINE m == [work[w] EXCEPT !.step = "move", !.to = to, !.ref = p, !.seen = "requested"]
<1>1. work[w] \in WorkType /\ Carries(work[w], Known)
  BY DEF IInv, TypeOK
<1>2. p \in Refs \cup {NoRefund} /\ to \in States
  BY StatesAre DEF Known
<1>3. m \in WorkType /\ m.step = "move" /\ m.to = to /\ m.ref = p /\ m.row = work[w].row /\ m.news = work[w].news
  BY <1>1, <1>2, StatesAre DEF WorkType
<1>4. work' = [work EXCEPT ![w] = m]
  BY DEF Hears, IInv, TypeOK
<1> HIDE DEF m
<1>5. Carries(m, Known')
  BY <1>1, <1>3 DEF Carries
<1>6. HandOf(m) = 0 /\ StaffHandOf(m) = 0
  BY <1>3, <1>5, HandNatural
<1> QED BY <1>3, <1>4, <1>5, <1>6 DEF Turns

LEMMA AskKeeps == ASSUME IInv, NEW w \in Workers, Ask(w) PROVE IInv'
<1> DEFINE r == work[w].row
           k == r[2]
<1>1. work[w] \in WorkType /\ work[w].step = "ask" /\ Carries(work[w], Known)
  BY DEF Ask, IInv, TypeOK
<1>2. r \in Rows /\ work[w].news \subseteq Known
  BY <1>1 DEF Carries
<1>3. k \in Refs
  BY <1>2, RowsFinite
<1>4. /\ made \in [Refs -> {"none"} \cup Answers] /\ news \subseteq Known
      /\ faults \in 0 .. MaxFaults /\ {"pending", "succeeded", "failed"} \subseteq Answers
  BY DEF IInv, TypeOK, IdsKnown, Answers
<1>5. UNCHANGED <<row, committed, recorded, shown>>
  BY DEF Ask
<1>6. /\ row' \in [Rows -> RowType] /\ \A x \in Rows : row'[x].state = row[x].state /\ row'[x].ref = row[x].ref
      /\ committed' = committed /\ shown' \in 0 .. Taken /\ recorded' \in BOOLEAN
  BY <1>5 DEF IInv, TypeOK
<1> HIDE DEF k, r
<1>7. CASE Ends(w) /\ UNCHANGED <<made, news, faults>>
  <2>1. made' \in [Refs -> {"none"} \cup Answers] /\ Known' = Known /\ Known \subseteq Known'
    BY <1>7, SameKnown
  <2>2. Rests(w)
    BY <1>7, <2>1, EndsRests
  <2> QED BY <1>4, <1>6, <1>7, <2>1, <2>2, QuietRest
<1>8. ASSUME NEW to \in Answers, NEW p, p \in Known \/ p = NoRefund, Hears(w, to, p),
             UNCHANGED <<made, news>>, faults' \in 0 .. MaxFaults
      PROVE  IInv'
  <2>1. made' \in [Refs -> {"none"} \cup Answers] /\ Known' = Known /\ Known \subseteq Known'
    BY <1>8, SameKnown
  <2>2. PICK m : Turns(w, m) /\ HandOf(m) = 0 /\ StaffHandOf(m) = 0
    BY <1>2, <1>8, <2>1, HearsTurns DEF r
  <2> QED BY <1>4, <1>5, <1>8, <2>1, <2>2, QuietFree
<1>9. CASE made[k] # "none" /\ Hears(w, made[k], k) /\ UNCHANGED <<made, news, faults>>
  <2>1. made[k] \in Answers /\ k \in Known
    BY <1>3, <1>4, <1>9 DEF Known
  <2> QED BY <1>4, <1>8, <1>9, <2>1
<1>10. ASSUME NEW to \in {"pending", "succeeded"}, Becomes(k, to), Hears(w, to, k), UNCHANGED faults
       PROVE  IInv'
  <2>1. made' \in [Refs -> {"none"} \cup Answers] /\ Known \subseteq Known' /\ k \in Known'
    BY <1>3, <1>4, <1>10, BecomesKnown DEF Becomes
  <2>2. news' \subseteq Known'
    BY <1>4, <1>10, <2>1 DEF Becomes
  <2>3. PICK m : Turns(w, m) /\ HandOf(m) = 0 /\ StaffHandOf(m) = 0
    BY <1>2, <1>4, <1>10, <2>1, HearsTurns DEF r
  <2> QED BY <1>4, <1>5, <1>10, <2>1, <2>2, <2>3, QuietFree
<1>11. CASE Hears(w, "failed", NoRefund) /\ UNCHANGED <<made, news>> /\ (UNCHANGED faults \/ Fault("refused"))
  <2>1. faults' \in 0 .. MaxFaults
    BY <1>4, <1>11, FaultTyped
  <2> QED BY <1>4, <1>8, <1>11, <2>1
<1>12. CASE Fault("unsaid") /\ Throws(w) /\ UNCHANGED made
  <2>1. made' \in [Refs -> {"none"} \cup Answers] /\ Known' = Known /\ Known \subseteq Known'
    BY <1>12, SameKnown
  <2>2. news' \subseteq Known'
    BY <1>2, <1>4, <1>12, <2>1 DEF Throws
  <2>3. Rests(w)
    BY <1>12, ThrowsRests DEF Throws
  <2>4. faults' \in 0 .. MaxFaults
    BY <1>12, FaultTyped
  <2> QED BY <1>6, <2>1, <2>2, <2>3, <2>4, QuietRest
<1>13. CASE /\ Fault("unsaid") /\ made' = [made EXCEPT ![k] = "pending"]
            /\ work' = [work EXCEPT ![w] = NoWork] /\ news' = news \cup work[w].news \cup {k}
  <2>1. made' \in [Refs -> {"none"} \cup Answers] /\ Known \subseteq Known' /\ k \in Known'
    BY <1>3, <1>4, <1>13, BecomesKnown
  <2>2. news' \subseteq Known'
    BY <1>2, <1>4, <1>13, <2>1
  <2>3. Rests(w)
    BY <1>13, ThrowsRests
  <2>4. faults' \in 0 .. MaxFaults
    BY <1>13, FaultTyped
  <2> QED BY <1>6, <2>1, <2>2, <2>3, <2>4, QuietRest
<1>14. \/ Ends(w) /\ UNCHANGED <<made, news, faults>>
       \/ made[k] # "none" /\ Hears(w, made[k], k) /\ UNCHANGED <<made, news, faults>>
       \/ \E to \in {"pending", "succeeded"} : Becomes(k, to) /\ Hears(w, to, k) /\ UNCHANGED faults
       \/ Hears(w, "failed", NoRefund) /\ UNCHANGED <<made, news>> /\ (UNCHANGED faults \/ Fault("refused"))
       \/ Fault("unsaid") /\ Throws(w) /\ UNCHANGED made
       \/ /\ Fault("unsaid") /\ made' = [made EXCEPT ![k] = "pending"]
          /\ work' = [work EXCEPT ![w] = NoWork] /\ news' = news \cup work[w].news \cup {k}
  BY DEF Ask, r, k
<1> QED BY <1>7, <1>9, <1>10, <1>11, <1>12, <1>13, <1>14

\* Only a live row moves, and to what it may.
LEMMA MovesFromLive ==
  ASSUME NEW to \in Answers, NEW from \in Moves(to)
  PROVE  from \in {"requested", "pending", "succeeded"}
BY DEF Answers, Moves

\* A live row that ends leaves its hold in the worker's hand.
LEMMA RowEnds ==
  ASSUME IInv, NEW w \in Workers, NEW r \in Rows, NEW m, Turns(w, m), made' = made, news' = news,
         UNCHANGED <<committed, recorded, shown, faults>>,
         work[w].step \in {"move", "merge"}, row[r].state \in {"requested", "pending", "succeeded"},
         NEW to \in {"failed", "cancelled"}, NEW p \in Known \cup {row[r].ref},
         row' = [row EXCEPT ![r] = [row[r] EXCEPT !.state = to, !.ref = p]],
         m.step = "hold", m.row = r, m.then \in {"end", "follow"}
  PROVE  IInv'
<1>1. made' \in [Refs -> {"none"} \cup Answers] /\ Known' = Known /\ Known \subseteq Known' /\ news' \subseteq Known' /\ faults' \in 0 .. MaxFaults
  BY SameKnown DEF IInv, IdsKnown, TypeOK
<1>2. committed \in Nat /\ Taken \in Nat /\ committed' = committed /\ shown' \in 0 .. Taken /\ recorded' \in BOOLEAN
  BY RefundAssumption DEF IInv, TypeOK
<1>3. AmountOf(r) \in Nat
  BY RowsFinite
<1>4. row \in [Rows -> RowType]
  BY DEF IInv, TypeOK
<1>5. [row[r] EXCEPT !.state = to, !.ref = p] \in RowType
  <2>1. to \in States /\ p \in Refs \cup {NoRefund}
    BY <1>4, StatesAre DEF Answers, Known, RowType
  <2> QED BY <1>4, <2>1 DEF RowType
<1>6. row' \in [Rows -> RowType] /\ \A x \in Rows : x # r => row'[x] = row[x]
  BY <1>4, <1>5
<1>7. row'[r].state = to /\ row'[r].ref = p
  BY <1>4 DEF RowType
<1>8. \A x \in Rows : row'[x].ref # NoRefund => row'[x].ref \in Known'
  BY <1>1, <1>6, <1>7 DEF IInv, IdsKnown
<1>9. r \in LiveRows /\ r \notin LiveRows' /\ r \notin StaffRows' /\ (r \in StaffRows <=> r[1] = "staff")
  BY <1>7 DEF LiveRows, StaffRows
<1>10. /\ Counts(r, LiveRows) = AmountOf(r) /\ Counts(r, LiveRows') = 0 /\ Counts(r, StaffRows') = 0
       /\ Counts(r, StaffRows) = IF r[1] = "staff" THEN AmountOf(r) ELSE 0
  BY <1>9 DEF Counts
<1>11. HandOf(m) = AmountOf(r) /\ StaffHandOf(m) = IF r[1] = "staff" THEN AmountOf(r) ELSE 0
  BY DEF HandOf, StaffHandOf, InHand
<1>12. HandOf(work[w]) = 0 /\ StaffHandOf(work[w]) = 0
  BY DEF HandOf, StaffHandOf, InHand
<1>13. (committed + Counts(r, LiveRows')) + HandOf(m) <= (committed' + Counts(r, LiveRows)) + HandOf(work[w])
  BY <1>2, <1>3, <1>10, <1>11, <1>12
<1>14. (Taken + Counts(r, StaffRows')) + StaffHandOf(m) <= (Taken + Counts(r, StaffRows)) + StaffHandOf(work[w])
  BY <1>2, <1>3, <1>10, <1>11, <1>12
<1>15. SumOf(StaffRows) + Sum(StaffHands, Workers) <= Taken
  BY DEF IInv, StaffCovered
<1>16. \A x \in Rows : x # r => row'[x].state = row[x].state
  BY <1>6
<1> QED BY <1>1, <1>2, <1>6, <1>8, <1>13, <1>14, <1>15, <1>16, TurnKeeps

LEMMA MoveKeeps == ASSUME IInv, NEW w \in Workers, Move(w) PROVE IInv'
<1> DEFINE me == work[w]
           r == me.row
<1>1. made' \in [Refs -> {"none"} \cup Answers] /\ Known' = Known /\ Known \subseteq Known' /\ news' \subseteq Known' /\ faults' \in 0 .. MaxFaults
  BY SameKnown DEF Move, IInv, IdsKnown, TypeOK
<1>2. me \in WorkType /\ me.step = "move" /\ Carries(me, Known)
  BY DEF Move, IInv, TypeOK
<1>3. r \in Rows /\ me.to \in Answers /\ (me.ref # NoRefund => me.ref \in Known) /\ me.news \subseteq Known
  BY <1>2 DEF Carries
<1>4. UNCHANGED <<made, news, committed, recorded, shown, faults>>
  BY DEF Move
<1>5. shown' \in 0 .. Taken /\ recorded' \in BOOLEAN /\ committed' = committed
  BY <1>4 DEF IInv, TypeOK
<1>6. row \in [Rows -> RowType]
  BY DEF IInv, TypeOK
<1>7. CASE row[r].state \notin Moves(me.to)
  <2>1. Ends(w) /\ row' = row
    BY <1>7 DEF Move
  <2>2. Rests(w)
    BY <1>1, <2>1, EndsRests
  <2>3. row' \in [Rows -> RowType] /\ \A x \in Rows : row'[x].state = row[x].state /\ row'[x].ref = row[x].ref
    BY <1>6, <2>1
  <2> QED BY <1>1, <1>5, <2>2, <2>3, QuietRest
<1>8. CASE row[r].state \in Moves(me.to) /\ me.ref # NoRefund /\ ~(With(me.ref) \subseteq {r})
  <2> DEFINE m == [me EXCEPT !.step = "merge"]
  <2>1. m \in WorkType /\ m.step = "merge" /\ m.row = r /\ m.ref = me.ref /\ m.news = me.news
    BY <1>2 DEF WorkType
  <2>2. work' = [work EXCEPT ![w] = m] /\ row' = row
    BY <1>8 DEF Move, Goes, IInv, TypeOK
  <2> HIDE DEF m, me, r
  <2>3. Turns(w, m)
    BY <1>1, <1>3, <2>1, <2>2 DEF Turns, Carries
  <2>4. HandOf(m) = 0 /\ StaffHandOf(m) = 0
    BY <2>1, <2>3, HandNatural DEF Turns
  <2> QED BY <1>1, <1>4, <2>2, <2>3, <2>4, QuietFree
<1>9. CASE row[r].state \in Moves(me.to) /\ ~(me.ref # NoRefund /\ ~(With(me.ref) \subseteq {r}))
  <2> DEFINE p == IF me.ref = NoRefund THEN row[r].ref ELSE me.ref
  <2>1. row[r].state \in {"requested", "pending", "succeeded"}
    BY <1>3, <1>9, MovesFromLive
  <2>2. p \in Known \cup {row[r].ref}
    BY <1>3
  <2>3. row' = [row EXCEPT ![r] = [row[r] EXCEPT !.state = me.to, !.ref = p]]
    BY <1>9, <1>6 DEF Move
  <2>4. CASE me.to \in {"failed", "cancelled"}
    <3> DEFINE then == IF me.seen = "succeeded" THEN "follow" ELSE "end"
               m == [me EXCEPT !.step = "hold", !.then = then]
    <3>1. then \in {"end", "follow"}
      OBVIOUS
    <3>2. work' = [work EXCEPT ![w] = m]
      BY <1>9, <2>4 DEF Move, IInv, TypeOK
    <3> HIDE DEF then
    <3>3. m \in WorkType /\ m.step = "hold" /\ m.row = r /\ m.then = then /\ m.news = me.news
      BY <1>2, <3>1 DEF WorkType
    <3> HIDE DEF m, me, r, p
    <3>4. Turns(w, m)
      BY <1>1, <1>3, <3>1, <3>2, <3>3 DEF Turns, Carries
    <3>5. work[w].step \in {"move", "merge"}
      BY <1>2 DEF me
    <3> QED BY <1>3, <1>4, <2>1, <2>2, <2>3, <2>4, <3>1, <3>3, <3>4, <3>5, RowEnds
  <2>5. CASE me.to \in {"pending", "succeeded"}
    <3>1. Rests(w)
      BY <1>1, <1>9, <2>5, EndsRests, FollowsRests DEF Move
    <3>2. PICK m : Turns(w, m) /\ HandOf(m) = 0 /\ StaffHandOf(m) = 0
      BY <3>1, RestHasNone
    <3> HIDE DEF me, r, p
    <3>3. [row[r] EXCEPT !.state = me.to, !.ref = p] \in RowType
      <4>1. me.to \in States /\ p \in Refs \cup {NoRefund}
        BY <1>3, <1>6, <2>2, StatesAre DEF Known, RowType
      <4> QED BY <1>3, <1>6, <4>1 DEF RowType
    <3>4. row' \in [Rows -> RowType] /\ \A x \in Rows : x # r => row'[x] = row[x]
      BY <1>3, <1>6, <2>3, <3>3
    <3>5. row'[r].state = me.to /\ row'[r].ref = p
      BY <1>3, <1>6, <2>3 DEF RowType
    <3>6. \A x \in Rows : row'[x].ref # NoRefund => row'[x].ref \in Known'
      BY <1>1, <2>2, <3>4, <3>5 DEF IInv, IdsKnown
    <3>7. r \in LiveRows /\ r \in LiveRows' /\ (r \in StaffRows <=> r \in StaffRows')
      BY <1>3, <2>1, <2>5, <3>5 DEF LiveRows, StaffRows
    <3>8. /\ Counts(r, LiveRows) = Counts(r, LiveRows') /\ Counts(r, StaffRows) = Counts(r, StaffRows')
          /\ Counts(r, LiveRows) \in Nat /\ Counts(r, StaffRows) \in Nat
      <4>1. AmountOf(r) \in Nat
        BY <1>3, RowsFinite
      <4> QED BY <3>7, <4>1 DEF Counts
    <3>9. committed \in Nat /\ committed' = committed /\ Taken \in Nat
      BY <1>4, RefundAssumption DEF IInv, TypeOK
    <3>10. HandOf(work[w]) \in Nat /\ StaffHandOf(work[w]) \in Nat
      BY HandNatural DEF IInv, TypeOK
    <3>11. (committed + Counts(r, LiveRows')) + HandOf(m) <= (committed' + Counts(r, LiveRows)) + HandOf(work[w])
      BY <3>2, <3>8, <3>9, <3>10
    <3>12. (Taken + Counts(r, StaffRows')) + StaffHandOf(m) <= (Taken + Counts(r, StaffRows)) + StaffHandOf(work[w])
      BY <3>2, <3>8, <3>9, <3>10
    <3>13. SumOf(StaffRows) + Sum(StaffHands, Workers) <= Taken
      BY DEF IInv, StaffCovered
    <3>14. \A x \in Rows : x # r => row'[x].state = row[x].state
      BY <3>4
    <3> QED BY <1>1, <1>5, <3>2, <3>4, <3>6, <3>9, <3>11, <3>12, <3>13, <3>14, TurnKeeps
  <2> QED BY <1>3, <2>4, <2>5 DEF Answers
<1> QED BY <1>7, <1>8, <1>9

LEMMA MergeKeeps == ASSUME IInv, NEW w \in Workers, Merge(w) PROVE IInv'
<1> DEFINE r == work[w].row
<1>1. made' \in [Refs -> {"none"} \cup Answers] /\ Known' = Known /\ Known \subseteq Known' /\ news' \subseteq Known' /\ faults' \in 0 .. MaxFaults
  BY SameKnown DEF Merge, IInv, IdsKnown, TypeOK
<1>2. work[w] \in WorkType /\ work[w].step = "merge" /\ Carries(work[w], Known)
  BY DEF Merge, IInv, TypeOK
<1>3. r \in Rows /\ work[w].news \subseteq Known
  BY <1>2 DEF Carries
<1>4. UNCHANGED <<made, news, committed, recorded, shown, faults>> /\ row \in [Rows -> RowType]
  BY DEF Merge, IInv, TypeOK
<1>5. CASE row[r].state \notin Moves("cancelled")
  <2>1. Ends(w) /\ row' = row
    BY <1>5 DEF Merge
  <2>2. Rests(w)
    BY <1>1, <2>1, EndsRests
  <2>3. row' \in [Rows -> RowType] /\ \A x \in Rows : row'[x].state = row[x].state /\ row'[x].ref = row[x].ref
    BY <1>4, <2>1
  <2>4. shown' \in 0 .. Taken /\ recorded' \in BOOLEAN /\ committed' = committed
    BY <1>4 DEF IInv, TypeOK
  <2> QED BY <1>1, <2>2, <2>3, <2>4, QuietRest
<1>6. CASE row[r].state \in Moves("cancelled")
  <2> DEFINE m == [work[w] EXCEPT !.step = "hold", !.then = "end"]
  <2>1. m \in WorkType /\ m.step = "hold" /\ m.row = r /\ m.then = "end" /\ m.news = work[w].news
    BY <1>2 DEF WorkType
  <2>2. work' = [work EXCEPT ![w] = m]
    BY <1>6 DEF Merge, IInv, TypeOK
  <2>3. row' = [row EXCEPT ![r] = [row[r] EXCEPT !.state = "cancelled"]]
    BY <1>6, <1>4 DEF Merge
  <2>4. [row[r] EXCEPT !.state = "cancelled"] = [row[r] EXCEPT !.state = "cancelled", !.ref = row[r].ref]
    BY <1>3, <1>4 DEF RowType
  <2>5. row[r].state \in {"requested", "pending", "succeeded"}
    BY <1>6, MovesFromLive DEF Answers
  <2> HIDE DEF m, r
  <2>6. Turns(w, m)
    BY <1>1, <1>3, <2>1, <2>2 DEF Turns, Carries
  <2>7. row' = [row EXCEPT ![r] = [row[r] EXCEPT !.state = "cancelled", !.ref = row[r].ref]]
    BY <2>3, <2>4
  <2>8. row[r].ref \in Known \cup {row[r].ref} /\ m.then \in {"end", "follow"} /\ work[w].step \in {"move", "merge"}
    BY <1>2, <2>1
  <2>9. "cancelled" \in {"failed", "cancelled"}
    OBVIOUS
  <2> QED BY <1>3, <1>4, <2>1, <2>5, <2>6, <2>7, <2>8, <2>9, RowEnds
<1> QED BY <1>5, <1>6

-----------------------------------------------------------------------------
(* Every step keeps it: an event of a refund not known *)

\* A row made for a refund of the provider is held in the same transaction.
LEMMA DecideKeeps == ASSUME IInv, NEW w \in Workers, Decide(w) PROVE IInv'
<1> DEFINE p == work[w].ref
           to == work[w].to
           new == <<"provider", p>>
<1>1. made' \in [Refs -> {"none"} \cup Answers] /\ Known' = Known /\ Known \subseteq Known' /\ news' \subseteq Known' /\ faults' \in 0 .. MaxFaults
  BY SameKnown DEF Decide, IInv, IdsKnown, TypeOK
<1>2. work[w] \in WorkType /\ work[w].step = "decide" /\ Carries(work[w], Known)
  BY DEF Decide, IInv, TypeOK
<1>3. p \in Known /\ to \in Answers /\ work[w].news \subseteq Known /\ p \in Refs
  BY <1>2 DEF Carries, Known
<1>4. UNCHANGED <<made, news, recorded, shown, faults>> /\ row \in [Rows -> RowType]
  BY DEF Decide, IInv, TypeOK
<1>5. shown' \in 0 .. Taken /\ recorded' \in BOOLEAN
  BY <1>4 DEF IInv, TypeOK
<1>6. ASSUME NEW r \in With(p), Settles(w, r, work[w].news), UNCHANGED <<row, committed>> PROVE IInv'
  <2>1. r \in Rows
    BY <1>6 DEF With
  <2>2. PICK m : Turns(w, m) /\ HandOf(m) = 0 /\ StaffHandOf(m) = 0
    BY <1>3, <1>4, <1>6, <2>1, SettlesTurns
  <2> QED BY <1>1, <1>4, <1>6, <2>2, QuietFree
<1>7. ASSUME NEW r \in Lost(p), row' = [row EXCEPT ![r].ref = p], UNCHANGED committed,
             work' = [work EXCEPT ![w].step = "move", ![w].row = r, ![w].seen = "requested"]
      PROVE  IInv'
  <2> DEFINE m == [work[w] EXCEPT !.step = "move", !.row = r, !.seen = "requested"]
  <2>1. r \in Rows
    BY <1>7 DEF Lost
  <2>2. m \in WorkType /\ m.step = "move" /\ m.row = r /\ m.ref = p /\ m.to = to /\ m.news = work[w].news
    BY <1>2, <2>1, StatesAre DEF WorkType
  <2>3. work' = [work EXCEPT ![w] = m]
    BY <1>7 DEF IInv, TypeOK
  <2> HIDE DEF m, p, to
  <2>4. Turns(w, m)
    BY <1>1, <1>3, <2>1, <2>2, <2>3 DEF Turns, Carries
  <2>5. HandOf(m) = 0 /\ StaffHandOf(m) = 0
    BY <2>2, <2>4, HandNatural DEF Turns
  <2>6. row' = [row EXCEPT ![r] = [row[r] EXCEPT !.ref = p]]
    BY <1>7
  <2>7. [row[r] EXCEPT !.ref = p] \in RowType
    BY <1>3, <1>4, <2>1 DEF RowType
  <2>8. row' \in [Rows -> RowType] /\ \A x \in Rows : x # r => row'[x] = row[x]
    BY <1>4, <2>6, <2>7
  <2>9. row'[r].ref = p /\ row'[r].state = row[r].state
    BY <1>4, <2>1, <2>6 DEF RowType
  <2>10. \A x \in Rows : row'[x].ref # NoRefund => row'[x].ref \in Known'
    BY <1>1, <1>3, <2>8, <2>9 DEF IInv, IdsKnown
  <2>11. \A x \in Rows : row'[x].state = row[x].state
    BY <2>8, <2>9
  <2>12. LiveRows' = LiveRows /\ StaffRows' = StaffRows
    BY <2>11 DEF LiveRows, StaffRows
  <2>13. Counts(r, LiveRows) \in Nat /\ Counts(r, StaffRows) \in Nat
    <3>1. LiveRows \subseteq Rows /\ StaffRows \subseteq Rows
      BY DEF LiveRows, StaffRows
    <3> QED BY <3>1, SumSplits
  <2>14. committed \in Nat /\ committed' = committed /\ Taken \in Nat
    BY <1>7, RefundAssumption DEF IInv, TypeOK
  <2>15. HandOf(work[w]) \in Nat /\ StaffHandOf(work[w]) \in Nat
    BY HandNatural DEF IInv, TypeOK
  <2>16. (committed + Counts(r, LiveRows')) + HandOf(m) <= (committed' + Counts(r, LiveRows)) + HandOf(work[w])
    BY <2>5, <2>12, <2>13, <2>14, <2>15
  <2>17. (Taken + Counts(r, StaffRows')) + StaffHandOf(m) <= (Taken + Counts(r, StaffRows)) + StaffHandOf(work[w])
    BY <2>5, <2>12, <2>13, <2>14, <2>15
  <2>18. SumOf(StaffRows) + Sum(StaffHands, Workers) <= Taken
    BY DEF IInv, StaffCovered
  <2>19. \A x \in Rows : x # r => row'[x].state = row[x].state
    BY <2>11
  <2> QED BY <1>1, <1>5, <2>4, <2>8, <2>10, <2>14, <2>16, <2>17, <2>18, <2>19, TurnKeeps
<1>8. ASSUME row' = [row EXCEPT ![new] = [NoRow EXCEPT !.state = to, !.ref = p]],
             committed' = IF to \in {"failed", "cancelled"} THEN committed ELSE committed + Amount[p],
             work' = [work EXCEPT ![w].row = new, ![w].to = "none",
                                  ![w].step = IF to = "succeeded" /\ recorded THEN "follow" ELSE "check"]
      PROVE  IInv'
  <2> DEFINE step == IF to = "succeeded" /\ recorded THEN "follow" ELSE "check"
             m == [work[w] EXCEPT !.row = new, !.to = "none", !.step = step]
             fresh == [NoRow EXCEPT !.state = to, !.ref = p]
  <2>1. new \in Rows /\ new[1] = "provider" /\ AmountOf(new) = Amount[p]
    BY <1>3 DEF Rows, AmountOf
  <2>2. work' = [work EXCEPT ![w] = m]
    BY <1>8 DEF IInv, TypeOK
  <2>3. step \in {"follow", "check"}
    OBVIOUS
  <2>4. fresh \in RowType /\ fresh.state = to /\ fresh.ref = p
    BY <1>3, StatesAre DEF NoRow, RowType
  <2>5. row' = [row EXCEPT ![new] = fresh]
    BY <1>8
  <2> HIDE DEF step, new, fresh
  <2>6. m \in WorkType /\ m.step = step /\ m.news = work[w].news
    BY <1>2, <2>1, <2>3, StatesAre DEF WorkType
  <2> HIDE DEF m, p, to
  <2>7. Turns(w, m)
    BY <1>1, <1>3, <2>2, <2>3, <2>6 DEF Turns, Carries
  <2>8. HandOf(m) = 0 /\ StaffHandOf(m) = 0
    BY <2>3, <2>6, <2>7, HandNatural DEF Turns
  <2>9. row' \in [Rows -> RowType] /\ (\A x \in Rows : x # new => row'[x] = row[x]) /\ row'[new] = fresh
    BY <1>4, <2>1, <2>4, <2>5
  <2>10. \A x \in Rows : row'[x].ref # NoRefund => row'[x].ref \in Known'
    BY <1>1, <1>3, <2>4, <2>9 DEF IInv, IdsKnown
  <2>11. new \notin StaffRows /\ new \notin StaffRows' /\ (new \in LiveRows' => to \notin {"failed", "cancelled"})
    BY <2>1, <2>4, <2>9 DEF LiveRows, StaffRows
  <2>12. Amount[p] \in Nat /\ committed \in Nat /\ Taken \in Nat
    BY <1>3, <2>1, RowsFinite, RefundAssumption DEF IInv, TypeOK
  <2>13. /\ Counts(new, StaffRows) = 0 /\ Counts(new, StaffRows') = 0 /\ Counts(new, LiveRows) \in Nat
         /\ Counts(new, LiveRows') = IF new \in LiveRows' THEN Amount[p] ELSE 0
    BY <2>1, <2>11, <2>12 DEF Counts
  <2>14. HandOf(work[w]) \in Nat /\ StaffHandOf(work[w]) \in Nat
    BY HandNatural DEF IInv, TypeOK
  <2>15. committed' \in Nat /\ committed + Counts(new, LiveRows') <= committed'
    BY <1>8, <2>11, <2>12, <2>13
  <2>16. (committed + Counts(new, LiveRows')) + HandOf(m) <= (committed' + Counts(new, LiveRows)) + HandOf(work[w])
    BY <2>8, <2>12, <2>13, <2>14, <2>15
  <2>17. (Taken + Counts(new, StaffRows')) + StaffHandOf(m) <= (Taken + Counts(new, StaffRows)) + StaffHandOf(work[w])
    BY <2>8, <2>12, <2>13, <2>14
  <2>18. SumOf(StaffRows) + Sum(StaffHands, Workers) <= Taken
    BY DEF IInv, StaffCovered
  <2>19. \A x \in Rows : x # new => row'[x].state = row[x].state
    BY <2>9
  <2> QED BY <1>1, <1>5, <2>7, <2>9, <2>10, <2>12, <2>15, <2>16, <2>17, <2>18, <2>19, TurnKeeps
<1>9. \/ (\E r \in With(p) : Settles(w, r, work[w].news)) /\ UNCHANGED <<row, committed>>
      \/ /\ \E r \in Lost(p) : /\ row' = [row EXCEPT ![r].ref = p]
                              /\ work' = [work EXCEPT ![w].step = "move", ![w].row = r, ![w].seen = "requested"]
         /\ UNCHANGED committed
      \/ /\ row' = [row EXCEPT ![new] = [NoRow EXCEPT !.state = to, !.ref = p]]
         /\ committed' = IF to \in {"failed", "cancelled"} THEN committed ELSE committed + Amount[p]
         /\ work' = [work EXCEPT ![w].row = new, ![w].to = "none",
                                 ![w].step = IF to = "succeeded" /\ recorded THEN "follow" ELSE "check"]
  BY DEF Decide
<1> HIDE DEF p, to, new
<1> QED BY <1>6, <1>7, <1>8, <1>9

-----------------------------------------------------------------------------
(* Every step keeps it: the record follows *)

LEMMA FollowReadKeeps == ASSUME IInv, NEW w \in Workers, FollowRead(w) PROVE IInv'
<1> DEFINE done == { r \in Rows : row[r].state = "succeeded" }
           undo == { r \in Rows : row[r].state = "failed" /\ row[r].applied /\ ~row[r].undone }
           m == [work[w] EXCEPT !.step = "write", !.done = done, !.undo = undo]
<1>1. made' \in [Refs -> {"none"} \cup Answers] /\ Known' = Known /\ Known \subseteq Known' /\ news' \subseteq Known' /\ faults' \in 0 .. MaxFaults
  BY SameKnown DEF FollowRead, IInv, IdsKnown, TypeOK
<1>2. work[w] \in WorkType /\ work[w].news \subseteq Known
  BY DEF IInv, TypeOK, Carries
<1>3. work' = [work EXCEPT ![w] = m]
  BY DEF FollowRead, IInv, TypeOK
<1>4. done \in SUBSET Rows /\ undo \in SUBSET Rows
  OBVIOUS
<1> HIDE DEF done, undo
<1>5. m \in WorkType /\ m.step = "write" /\ m.news = work[w].news
  BY <1>2, <1>4 DEF WorkType
<1> HIDE DEF m
<1>6. Rests(w)
  BY <1>1, <1>2, <1>3, <1>5 DEF Rests
<1>7. /\ row' \in [Rows -> RowType] /\ \A x \in Rows : row'[x].state = row[x].state /\ row'[x].ref = row[x].ref
      /\ committed' = committed /\ shown' \in 0 .. Taken /\ recorded' \in BOOLEAN
  BY DEF FollowRead, IInv, TypeOK
<1> QED BY <1>1, <1>6, <1>7, QuietRest

LEMMA WriteTotalKeeps == ASSUME IInv, NEW w \in Workers, WriteTotal(w) PROVE IInv'
<1>1. made' \in [Refs -> {"none"} \cup Answers] /\ Known' = Known /\ Known \subseteq Known'
  BY SameKnown DEF WriteTotal
<1>2. committed' = committed /\ recorded' \in BOOLEAN /\ row \in [Rows -> RowType] /\ shown \in 0 .. Taken
  BY DEF WriteTotal, IInv, TypeOK
<1>3. news \subseteq Known /\ work[w].news \subseteq Known /\ faults \in 0 .. MaxFaults
  BY DEF IInv, IdsKnown, Carries, TypeOK
<1>4. CASE shown' = Shown(work[w].done) /\ Goes(w, "mark") /\ UNCHANGED <<news, row, faults>>
  <2>1. shown' \in 0 .. Taken
    <3>1. work[w].done \subseteq Rows
      BY DEF IInv, TypeOK, WorkType
    <3>2. SumOf(work[w].done) \in Nat /\ Taken \in Nat
      BY <3>1, SumOfNatural, RefundAssumption
    <3> QED BY <1>4, <3>2 DEF Shown
  <2>2. Rests(w)
    BY <1>1, <1>4, GoesRests
  <2>3. row' \in [Rows -> RowType] /\ \A x \in Rows : row'[x].state = row[x].state /\ row'[x].ref = row[x].ref
    BY <1>2, <1>4
  <2> QED BY <1>1, <1>2, <1>3, <1>4, <2>1, <2>2, <2>3, QuietRest
<1>5. CASE Fault("failed") /\ UNCHANGED shown /\ Throws(w) /\ UNCHANGED row
  <2>1. Rests(w)
    BY <1>5, ThrowsRests DEF Throws
  <2>2. row' \in [Rows -> RowType] /\ \A x \in Rows : row'[x].state = row[x].state /\ row'[x].ref = row[x].ref
    BY <1>2, <1>5
  <2>3. faults' \in 0 .. MaxFaults /\ shown' \in 0 .. Taken
    BY <1>2, <1>5, FaultTyped
  <2>4. news' \subseteq Known'
    BY <1>1, <1>3, <1>5 DEF Throws
  <2> QED BY <1>1, <1>2, <2>1, <2>2, <2>3, <2>4, QuietRest
<1>6. CASE Fault("failed") /\ UNCHANGED shown /\ Ends(w) /\ row' = [row EXCEPT ![work[w].row].more = FALSE] /\ UNCHANGED news
  <2>1. Rests(w)
    BY <1>1, <1>6, EndsRests
  <2> DEFINE r == work[w].row
  <2>2. row' = [row EXCEPT ![r] = [row[r] EXCEPT !.more = FALSE]]
    BY <1>6
  <2> HIDE DEF r
  <2>3. CASE r \in Rows
    <3>1. [row[r] EXCEPT !.more = FALSE] \in RowType
      BY <1>2, <2>3 DEF RowType
    <3>2. [row[r] EXCEPT !.more = FALSE].state = row[r].state /\ [row[r] EXCEPT !.more = FALSE].ref = row[r].ref
      BY <1>2, <2>3 DEF RowType
    <3>3. row' \in [Rows -> RowType] /\ row'[r] = [row[r] EXCEPT !.more = FALSE] /\ \A x \in Rows : x # r => row'[x] = row[x]
      BY <1>2, <2>2, <2>3, <3>1
    <3>4. \A x \in Rows : row'[x].state = row[x].state /\ row'[x].ref = row[x].ref
      BY <3>2, <3>3
    <3> QED BY <3>3, <3>4, <1>1, <1>2, <1>3, <1>6, <2>1, FaultTyped, QuietRest
  <2>4. CASE r \notin Rows
    <3>1. row' = row
      BY <1>2, <2>2, <2>4
    <3>2. row' \in [Rows -> RowType] /\ \A x \in Rows : row'[x].state = row[x].state /\ row'[x].ref = row[x].ref
      BY <1>2, <3>1
    <3> QED BY <3>2, <1>1, <1>2, <1>3, <1>6, <2>1, FaultTyped, QuietRest
  <2> QED BY <2>3, <2>4
<1> QED BY <1>4, <1>5, <1>6 DEF WriteTotal

\* A mark changes neither the state of a row nor its id,
LEMMA MarkRowKeeps == ASSUME IInv, NEW w \in Workers, MarkRow(w) PROVE IInv'
<1>1. made' \in [Refs -> {"none"} \cup Answers] /\ Known' = Known /\ Known \subseteq Known' /\ news' \subseteq Known' /\ faults' \in 0 .. MaxFaults
  BY SameKnown DEF MarkRow, IInv, IdsKnown, TypeOK
<1>2. row \in [Rows -> RowType] /\ work[w] \in WorkType /\ work[w].step = "mark" /\ work[w].news \subseteq Known'
  BY <1>1 DEF MarkRow, IInv, TypeOK, Carries
<1>3. work' = [work EXCEPT ![w] = work[w]]
  BY DEF MarkRow, IInv, TypeOK
<1>4. Rests(w)
  BY <1>2, <1>3 DEF Rests
<1>5. PICK r : row' = [row EXCEPT ![r].applied = TRUE] \/ row' = [row EXCEPT ![r].undone = TRUE]
  BY DEF MarkRow
<1>6. ASSUME NEW x \in Rows
      PROVE  row'[x] \in RowType /\ row'[x].state = row[x].state /\ row'[x].ref = row[x].ref
  <2>1. row'[x] = row[x] \/ row'[x] = [row[x] EXCEPT !.applied = TRUE] \/ row'[x] = [row[x] EXCEPT !.undone = TRUE]
    BY <1>2, <1>5
  <2>2. row[x] \in RowType
    BY <1>2
  <2> QED BY <2>1, <2>2 DEF RowType
<1>7. row' \in [Rows -> RowType]
  BY <1>2, <1>5, <1>6
<1>8. committed' = committed /\ shown' \in 0 .. Taken /\ recorded' \in BOOLEAN
  BY DEF MarkRow, IInv, TypeOK
<1> QED BY <1>1, <1>4, <1>6, <1>7, <1>8, QuietRest

\* and neither does the flag for a person.
LEMMA FlagPastKeeps == ASSUME IInv, NEW w \in Workers, FlagPast(w) PROVE IInv'
<1>1. made' \in [Refs -> {"none"} \cup Answers] /\ Known' = Known /\ Known \subseteq Known' /\ news' \subseteq Known' /\ faults' \in 0 .. MaxFaults
  BY SameKnown DEF FlagPast, IInv, IdsKnown, TypeOK
<1>2. Rests(w)
  BY <1>1, FollowedRests DEF FlagPast
<1>3. row \in [Rows -> RowType]
  BY DEF IInv, TypeOK
<1>4. row' = row \/ \E r : row' = [row EXCEPT ![r].more = TRUE]
  BY DEF FlagPast
<1>5. ASSUME NEW x \in Rows
      PROVE  row'[x] \in RowType /\ row'[x].state = row[x].state /\ row'[x].ref = row[x].ref
  <2>1. row'[x] = row[x] \/ row'[x] = [row[x] EXCEPT !.more = TRUE]
    BY <1>3, <1>4
  <2>2. row[x] \in RowType
    BY <1>3
  <2> QED BY <2>1, <2>2 DEF RowType
<1>6. row' \in [Rows -> RowType]
  BY <1>3, <1>4, <1>5
<1>7. committed' = committed /\ shown' \in 0 .. Taken /\ recorded' \in BOOLEAN
  BY DEF FlagPast, IInv, TypeOK
<1> QED BY <1>1, <1>2, <1>5, <1>6, <1>7, QuietRest

LEMMA CheckKeeps == ASSUME IInv, NEW w \in Workers, Check(w) PROVE IInv'
<1> DEFINE m == [work[w] EXCEPT !.step = "follow", !.then = "last"]
<1>1. made' \in [Refs -> {"none"} \cup Answers] /\ Known' = Known /\ Known \subseteq Known' /\ news' \subseteq Known' /\ faults' \in 0 .. MaxFaults
  BY SameKnown DEF Check, IInv, IdsKnown, TypeOK
<1>2. work[w] \in WorkType /\ work[w].news \subseteq Known
  BY DEF IInv, TypeOK, Carries
<1>3. m \in WorkType /\ m.step = "follow" /\ m.news = work[w].news
  BY <1>2 DEF WorkType
<1>4. work' = [work EXCEPT ![w] = m] \/ work' = [work EXCEPT ![w] = NoWork]
  BY DEF Check, IInv, TypeOK
<1> HIDE DEF m
<1>5. Rests(w)
  BY <1>1, <1>2, <1>3, <1>4, ThrowsRests DEF Rests
<1>6. /\ row' \in [Rows -> RowType] /\ \A x \in Rows : row'[x].state = row[x].state /\ row'[x].ref = row[x].ref
      /\ committed' = committed /\ shown' \in 0 .. Taken /\ recorded' \in BOOLEAN
  BY DEF Check, IInv, TypeOK
<1> QED BY <1>1, <1>5, <1>6, QuietRest

-----------------------------------------------------------------------------
(* The theorems *)

\* Nothing is held and nothing refunded at first.
LEMMA InitKeeps == Init => IInv
<1> SUFFICES ASSUME Init PROVE IInv
  OBVIOUS
<1>1. TypeOK
  <2>1. NoRow \in RowType
    BY StatesAre DEF NoRow, RowType
  <2>2. row \in [Rows -> RowType] /\ work \in [Workers -> WorkType]
    BY <2>1, IdleTyped DEF Init
  <2>3. 0 \in 0 .. Taken /\ 0 \in 0 .. MaxFaults
    BY RefundAssumption
  <2>4. shown \in 0 .. Taken /\ faults \in 0 .. MaxFaults /\ committed \in Nat
    BY <2>3 DEF Init
  <2>5. made \in [Refs -> {"none", "pending", "succeeded", "failed", "cancelled"}] /\ news \subseteq Refs /\ recorded \in BOOLEAN
    BY DEF Init
  <2> QED BY <2>2, <2>4, <2>5 DEF TypeOK
<1>2. \A w \in Workers : Carries(work[w], Known) /\ HandOf(work[w]) = 0 /\ StaffHandOf(work[w]) = 0
  BY DEF Init, NoWork, Carries, HandOf, StaffHandOf, InHand
<1>3. IdsKnown
  BY DEF Init, IdsKnown, NoRow
<1>4. LiveRows = {} /\ StaffRows = {}
  BY DEF Init, LiveRows, StaffRows, NoRow
<1>5. Sum(Hands, Workers) = 0 /\ Sum(StaffHands, Workers) = 0
  <2>1. \A w \in Workers : Hands[w] = 0 /\ StaffHands[w] = 0
    BY <1>2 DEF Hands, StaffHands
  <2> QED BY <2>1, RowsFinite, SumOfZeroes
<1>6. SumOf({}) = 0
  BY SumOfIsSum, SumEmpty
<1>7. Covered
  BY <1>4, <1>5, <1>6 DEF Covered, Init
<1>8. StaffCovered
  BY <1>4, <1>5, <1>6, RefundAssumption DEF StaffCovered
<1> QED BY <1>1, <1>2, <1>3, <1>7, <1>8 DEF IInv

\* Every step keeps the invariant,
LEMMA NextKeeps == IInv /\ [Next]_vars => IInv'
<1> SUFFICES ASSUME IInv, [Next]_vars PROVE IInv'
  OBVIOUS
<1>1. CASE UNCHANGED vars
  <2>1. TypeOK' /\ Known' = Known /\ IdsKnown'
    BY <1>1 DEF vars, IInv, TypeOK, Known, IdsKnown
  <2>2. LiveRows' = LiveRows /\ StaffRows' = StaffRows /\ Hands' = Hands /\ StaffHands' = StaffHands
    BY <1>1 DEF vars, LiveRows, StaffRows, Hands, StaffHands
  <2>3. work' = work /\ committed' = committed
    BY <1>1 DEF vars
  <2> QED BY <2>1, <2>2, <2>3 DEF IInv, Covered, StaffCovered
<1>2. CASE \E d \in Desk : MakeAtDesk(d)
  BY <1>2, DeskKeeps
<1>3. CASE \E p \in Refs : Progress(p)
  BY <1>3, ProgressKeeps
<1>4. ASSUME NEW w \in Workers, \/ \E k \in Keys : Request(w, k)
                                \/ \E r \in Rows : Settle(w, r)
                                \/ \E p \in Refs : Event(w, p)
                                \/ RecordPayment(w) \/ Crash(w)
      PROVE  IInv'
  BY <1>4, RequestKeeps, SettleKeeps, EventKeeps, RecordPaymentKeeps, CrashKeeps
<1>5. ASSUME NEW w \in Workers, Step(w) PROVE IInv'
  <2>1. CASE HoldRead(w) \/ HoldCommit(w) \/ HoldAgain(w) \/ MakeRow(w)
    BY <2>1, HoldReadKeeps, HoldCommitKeeps, HoldAgainKeeps, MakeRowKeeps
  <2>2. CASE Ask(w) \/ Move(w) \/ Merge(w) \/ Decide(w)
    BY <2>2, AskKeeps, MoveKeeps, MergeKeeps, DecideKeeps
  <2>3. CASE FollowRead(w) \/ WriteTotal(w) \/ MarkRow(w) \/ FlagPast(w) \/ Check(w)
    BY <2>3, FollowReadKeeps, WriteTotalKeeps, MarkRowKeeps, FlagPastKeeps, CheckKeeps
  <2> QED BY <1>5, <2>1, <2>2, <2>3 DEF Step
<1> QED BY <1>1, <1>2, <1>3, <1>4, <1>5 DEF Next

\* so that it always holds.
LEMMA Invariant == Spec => []IInv
BY InitKeeps, NextKeeps, PTL DEF Spec

\* Every reachable state is well typed: a worker moves a row only to what the
\* provider answered, and the record never shows more than was paid.
THEOREM TypeCorrect == Spec => []TypeOK
<1>1. IInv => TypeOK
  BY DEF IInv
<1> QED BY <1>1, Invariant, PTL

\* commitRefund: what the attempt holds back is never less than what its live
\* refunds come to, whatever workers, deaths and events are between its two
\* statements and the row.
THEOREM HoldCoversRows == Spec => []HoldCovers
<1>1. IInv => HoldCovers
  <2> SUFFICES ASSUME IInv PROVE HoldCovers
    OBVIOUS
  <2>1. Hands \in [Workers -> Nat]
    BY HandsTyped DEF IInv, TypeOK
  <2>2. Sum(Hands, Workers) \in Nat
    BY <2>1, RowsFinite, SumNatural
  <2>3. SumOf(LiveRows) \in Nat
    BY SumOfNatural DEF LiveRows
  <2>4. committed \in Nat /\ SumOf(LiveRows) + Sum(Hands, Workers) <= committed
    BY DEF IInv, TypeOK, Covered
  <2> QED BY <2>2, <2>3, <2>4 DEF HoldCovers
<1> QED BY <1>1, Invariant, PTL

\* requestRefund: people together are never promised back more than was taken,
\* however many ask at once and whatever is refunded in the dashboard meanwhile.
THEOREM StaffStaysWithinTaken == Spec => []StaffWithinTaken
<1>1. IInv => StaffWithinTaken
  <2> SUFFICES ASSUME IInv PROVE StaffWithinTaken
    OBVIOUS
  <2>1. StaffHands \in [Workers -> Nat]
    BY HandsTyped DEF IInv, TypeOK
  <2>2. Sum(StaffHands, Workers) \in Nat
    BY <2>1, RowsFinite, SumNatural
  <2>3. SumOf(StaffRows) \in Nat /\ Taken \in Nat
    <3>1. StaffRows \subseteq Rows
      BY DEF StaffRows, LiveRows
    <3> QED BY <3>1, SumOfNatural, RefundAssumption
  <2>4. SumOf(StaffRows) + Sum(StaffHands, Workers) <= Taken
    BY DEF IInv, StaffCovered
  <2>5. SumOf(StaffRows) <= Taken
    BY <2>2, <2>3, <2>4
  <2> QED BY <2>5 DEF StaffWithinTaken, StaffRows
<1> QED BY <1>1, Invariant, PTL
-----------------------------------------------------------------------------
(* What the record shows *)

\* The other workers stay where they are.
Others(w) == \A v \in Workers \ {w} : work'[v] = work[v]

\* The refunds that are done, those to be taken back out of the record, and those
\* whose marks say that the record has them.
Done == { r \in Rows : row[r].state = "succeeded" }
Undo == { r \in Rows : row[r].state = "failed" /\ row[r].applied /\ ~row[r].undone }
Standing == { r \in Rows : row[r].applied /\ ~row[r].undone }

\* Marks go with the states they speak of, and a row made for an id keeps it.
MarksFit(r) ==
  /\ row[r].applied => row[r].state \in {"succeeded", "failed"}
  /\ row[r].undone => row[r].state = "failed"
  /\ r[1] = "provider" => row[r].ref = IF row[r].state = "none" THEN NoRefund ELSE r[2]

\* While nobody else follows, what a worker read of the refunds is still so.
Sees(w) ==
  LET m == work[w] IN
  /\ m.step = "move" /\ m.row[1] = "provider" => m.ref \in {m.row[2], NoRefund}
  /\ m.step \in {"follow", "write", "mark"} => recorded
  /\ m.step \in {"write", "mark"} => m.done = Done
  /\ m.step = "write" => m.undo = Undo
  /\ m.step = "mark" => Undo \subseteq m.undo /\ shown = Shown(Done)

\* It is going to follow, or knows that the row it is about to move was done, and
\* will follow if that fails.
OnTheWay(m) == (m.step \in {"hold", "commit", "again"} /\ m.then = "follow") \/ m.step \in {"follow", "write"}
Aware(w) == work[w].step = "move" /\ row[work[w].row].state = "succeeded" => work[w].seen = "succeeded"

\* What the marks do not say yet, after the one fault that may come between a
\* total and its marks, is being followed, or is behind.
Unmarked ==
  /\ recorded /\ faults = MaxFaults
  /\ \/ \E w \in Workers : OnTheWay(work[w])
     \/ (Done \ Standing # {} \/ Undo # {}) /\ \A w \in Workers : Aware(w)

AgreeInv ==
  /\ \A r \in Rows : MarksFit(r)
  /\ \A w \in Workers : Sees(w)
  /\ shown = Shown(Standing) \/ (\E w \in Workers : work[w].step = "mark") \/ Unmarked

\* Where a worker is, once it ended, goes to follow, or threw.
LEMMA Steps ==
  ASSUME IInv, NEW w \in Workers
  PROVE  /\ Ends(w) \/ Followed(w) => work'[w].step \in {"idle", "check"}
         /\ Follows(w) => \/ recorded /\ work'[w].step = "follow"
                          \/ ~recorded /\ work'[w].step \in {"idle", "check"}
         /\ work' = [work EXCEPT ![w] = NoWork] => work'[w].step = "idle"
         /\ \A step : Goes(w, step) => /\ work'[w].step = step /\ work'[w].then = work[w].then
                                       /\ work'[w].done = work[w].done /\ work'[w].undo = work[w].undo
<1>1. work \in [Workers -> WorkType] /\ work[w] \in WorkType
  BY DEF IInv, TypeOK
<1>2. ASSUME work' = [work EXCEPT ![w] = NoWork] PROVE work'[w].step = "idle"
  BY <1>1, <1>2 DEF NoWork
<1>3. ASSUME Ends(w) PROVE work'[w].step \in {"idle", "check"}
  <2>1. CASE ~work[w].job
    BY <1>1, <1>2, <1>3, <2>1 DEF Ends
  <2>2. CASE work[w].job
    <3>1. work'[w] = [work[w] EXCEPT !.step = "check", !.to = "none", !.seen = "none", !.was = 0, !.then = "end", !.done = {}, !.undo = {}]
      BY <1>1, <1>3, <2>2 DEF Ends
    <3> QED BY <1>1, <3>1 DEF WorkType
  <2> QED BY <2>1, <2>2
<1>4. ASSUME Followed(w) PROVE work'[w].step \in {"idle", "check"}
  BY <1>2, <1>3, <1>4 DEF Followed
<1>5. ASSUME Follows(w), recorded PROVE work'[w].step = "follow"
  <2>1. work'[w] = [work[w] EXCEPT !.step = "follow", !.to = "none", !.seen = "none", !.was = 0, !.then = "end"]
    BY <1>1, <1>5 DEF Follows
  <2> QED BY <1>1, <2>1 DEF WorkType
<1>6. ASSUME Follows(w), ~recorded PROVE work'[w].step \in {"idle", "check"}
  BY <1>3, <1>6 DEF Follows
<1>7. ASSUME NEW step, Goes(w, step)
      PROVE  /\ work'[w].step = step /\ work'[w].then = work[w].then
             /\ work'[w].done = work[w].done /\ work'[w].undo = work[w].undo
  <2>1. work'[w] = [work[w] EXCEPT !.step = step]
    BY <1>1, <1>7 DEF Goes
  <2> QED BY <1>1, <2>1 DEF WorkType
<1> QED BY <1>2, <1>3, <1>4, <1>5, <1>6, <1>7

\* Where a job goes, and what it takes along of its row.
LEMMA SettlesSteps ==
  ASSUME IInv, NEW w \in Workers, NEW r \in Rows, NEW told, Settles(w, r, told)
  PROVE  /\ work'[w].step \in {"ask", "move", "check"}
         /\ work'[w].step = "move" => /\ work'[w].row = r /\ work'[w].seen = row[r].state
                                      /\ work'[w].ref = row[r].ref
<1> DEFINE goes == [NoWork EXCEPT !.row = r, !.job = TRUE, !.news = told, !.seen = row[r].state, !.ref = row[r].ref]
           to == made[row[r].ref]
           m == CASE row[r].ref = NoRefund /\ row[r].state = "requested" -> [goes EXCEPT !.step = "ask", !.seen = "none"]
                  [] row[r].ref # NoRefund /\ to # row[r].state          -> [goes EXCEPT !.step = "move", !.to = to]
                  [] OTHER                                              -> [goes EXCEPT !.step = "check", !.seen = "none"]
<1>1. work' = [work EXCEPT ![w] = m]
  BY DEF Settles
<1>2. \/ work'[w] = [goes EXCEPT !.step = "ask", !.seen = "none"]
      \/ work'[w] = [goes EXCEPT !.step = "move", !.to = to]
      \/ work'[w] = [goes EXCEPT !.step = "check", !.seen = "none"]
  <2>1. \/ m = [goes EXCEPT !.step = "ask", !.seen = "none"]
        \/ m = [goes EXCEPT !.step = "move", !.to = to]
        \/ m = [goes EXCEPT !.step = "check", !.seen = "none"]
    <3> HIDE DEF goes
    <3>1. CASE row[r].ref = NoRefund /\ row[r].state = "requested"
      BY <3>1
    <3>2. CASE row[r].ref # NoRefund /\ to # row[r].state
      BY <3>2
    <3>3. CASE /\ ~(row[r].ref = NoRefund /\ row[r].state = "requested")
               /\ ~(row[r].ref # NoRefund /\ to # row[r].state)
      BY <3>3
    <3> QED BY <3>1, <3>2, <3>3
  <2> HIDE DEF m
  <2>2. work'[w] = m
    BY <1>1 DEF IInv, TypeOK
  <2> HIDE DEF goes, to
  <2> QED BY <2>1, <2>2
<1>3. goes.row = r /\ goes.seen = row[r].state /\ goes.ref = row[r].ref
  BY DEF NoWork
<1>4. /\ [goes EXCEPT !.step = "ask", !.seen = "none"].step = "ask"
      /\ [goes EXCEPT !.step = "check", !.seen = "none"].step = "check"
  BY DEF NoWork
<1>5. /\ [goes EXCEPT !.step = "move", !.to = to].step = "move"
      /\ [goes EXCEPT !.step = "move", !.to = to].row = goes.row
      /\ [goes EXCEPT !.step = "move", !.to = to].seen = goes.seen
      /\ [goes EXCEPT !.step = "move", !.to = to].ref = goes.ref
  BY DEF NoWork
<1> HIDE DEF goes, to
<1>6. CASE work'[w] = [goes EXCEPT !.step = "move", !.to = to]
  BY <1>3, <1>5, <1>6
<1>7. CASE work'[w] = [goes EXCEPT !.step = "ask", !.seen = "none"]
  BY <1>4, <1>7
<1>8. CASE work'[w] = [goes EXCEPT !.step = "check", !.seen = "none"]
  BY <1>4, <1>8
<1> QED BY <1>2, <1>6, <1>7, <1>8

\* A fault was still to come.
LEMMA FaultFits == ASSUME IInv, NEW kind, Fault(kind) PROVE ~Unmarked
BY RefundAssumption DEF IInv, TypeOK, Fault, Unmarked

\* What the others see is still so when the refunds and what is shown stay, or
\* none of them had read them.
LEMMA OthersSee ==
  ASSUME AgreeInv, NEW w \in Workers, Others(w), recorded => recorded',
         \/ Done' = Done /\ Undo' = Undo /\ UNCHANGED shown
         \/ \A v \in Workers \ {w} : work[v].step \notin {"write", "mark"}
  PROVE  \A v \in Workers \ {w} : Sees(v)'
<1> SUFFICES ASSUME NEW v \in Workers \ {w} PROVE Sees(v)'
  OBVIOUS
<1>1. Sees(v) /\ work'[v] = work[v]
  BY DEF AgreeInv, Others
<1>2. CASE Done' = Done /\ Undo' = Undo /\ UNCHANGED shown
  BY <1>1, <1>2 DEF Sees, Shown
<1>3. CASE work[v].step \notin {"write", "mark"}
  BY <1>1, <1>3 DEF Sees
<1> QED BY <1>2, <1>3

\* A step that leaves what is shown and the marks as they are.
LEMMA MarksStand ==
  ASSUME AgreeInv, NEW w \in Workers, Others(w), work[w].step # "mark",
         UNCHANGED shown, Standing' = Standing,
         \A r \in Rows : MarksFit(r)', Sees(w)', \A v \in Workers \ {w} : Sees(v)',
         Unmarked => Unmarked'
  PROVE  AgreeInv'
<1>1. \A v \in Workers : work[v].step = "mark" => work'[v].step = "mark"
  BY DEF Others
<1>2. shown' = Shown(Standing)' \/ (\E v \in Workers : work'[v].step = "mark") \/ Unmarked'
  BY <1>1 DEF AgreeInv, Shown
<1> QED BY <1>2 DEF AgreeInv

\* What was not marked yet still is not when no refund is, and the worker follows
\* as it would have, or knows what it is about to move.
LEMMA UnmarkedStays ==
  ASSUME NEW w \in Workers, Others(w), Unmarked, recorded', UNCHANGED faults,
         OnTheWay(work[w]) => OnTheWay(work'[w]),
         OnTheWay(work'[w]) \/ ~Aware(w) \/
         ( /\ Done \subseteq Done' /\ Standing' = Standing /\ Undo \subseteq Undo'
           /\ Aware(w)' /\ \A v \in Workers \ {w} : Aware(v) => Aware(v)' )
  PROVE  Unmarked'
<1>1. CASE \E v \in Workers : OnTheWay(work[v])
  <2>1. \E v \in Workers : OnTheWay(work'[v])
    BY <1>1 DEF Others
  <2> QED BY <2>1 DEF Unmarked
<1>2. CASE OnTheWay(work'[w])
  BY <1>2 DEF Unmarked
<1>3. CASE ~(\E v \in Workers : OnTheWay(work[v])) /\ ~OnTheWay(work'[w])
  <2>1. (Done \ Standing # {} \/ Undo # {}) /\ \A v \in Workers : Aware(v)
    BY <1>3 DEF Unmarked
  <2>2. Done' \ Standing' # {} \/ Undo' # {}
    BY <1>3, <2>1
  <2>3. \A v \in Workers : Aware(v)'
    BY <1>3, <2>1
  <2> QED BY <2>2, <2>3 DEF Unmarked
<1> QED BY <1>1, <1>2, <1>3

\* Most steps leave the rows as they are.
LEMMA RowsStand ==
  ASSUME IInv, AgreeInv, NEW w \in Workers, Others(w), work[w].step # "mark",
         UNCHANGED <<row, shown>>, recorded => recorded', Sees(w)', Aware(w)',
         UNCHANGED faults \/ (\E kind \in EventKinds : Fault(kind)) \/ ~recorded,
         recorded /\ UNCHANGED faults /\ OnTheWay(work[w]) => OnTheWay(work'[w])
  PROVE  AgreeInv'
<1>1. Standing' = Standing /\ Done' = Done /\ Undo' = Undo
  BY DEF Standing, Done, Undo
<1>2. \A r \in Rows : MarksFit(r)'
  BY DEF AgreeInv, MarksFit
<1>3. ASSUME Unmarked PROVE Unmarked'
  <2>1. UNCHANGED faults /\ recorded
    BY <1>3, FaultFits DEF Unmarked
  <2>2. \A v \in Workers \ {w} : Aware(v) => Aware(v)'
    BY DEF Others, Aware
  <2> QED BY <1>1, <1>3, <2>1, <2>2, UnmarkedStays
<1>4. \A v \in Workers \ {w} : Sees(v)'
  BY <1>1, OthersSee
<1> QED BY <1>1, <1>2, <1>3, <1>4, MarksStand

\* While a worker moves a row or follows no other is between its reading and its marks.
LEMMA NoneFollow ==
  ASSUME FollowsAlone, NEW w \in Workers, work[w].step \in {"move", "decide", "follow", "write", "mark"}
  PROVE  \A v \in Workers \ {w} : work[v].step \notin {"write", "mark"}
BY DEF FollowsAlone

\* With no marks missing what is marked is what is done.
LEMMA AllMarked ==
  ASSUME \A r \in Rows : MarksFit(r), Done \ Standing = {}, Undo = {}
  PROVE  Standing = Done
BY DEF MarksFit, Done, Standing, Undo

LEMMA RequestAgrees ==
  ASSUME IInv, AgreeInv, NEW w \in Workers, Others(w), NEW k \in Keys, Request(w, k)
  PROVE  AgreeInv'
<1>1. work \in [Workers -> WorkType]
  BY DEF IInv, TypeOK
<1>2. work'[w].step \in {"hold", "ask"} /\ work[w].step = "idle"
  <2>1. PICK step \in {"hold", "ask"}, then \in {"make", "end"} :
          work'[w] = [NoWork EXCEPT !.step = step, !.row = <<"staff", k>>, !.then = then] \/
          work'[w] = [NoWork EXCEPT !.step = step, !.row = <<"staff", k>>]
    BY <1>1 DEF Request
  <2>2. work'[w].step = step
    BY <2>1 DEF NoWork
  <2> QED BY <2>2 DEF Request
<1> QED BY <1>2, RowsStand DEF Request, Sees, Aware, OnTheWay

LEMMA SettleAgrees ==
  ASSUME IInv, AgreeInv, NEW w \in Workers, Others(w), NEW r \in Rows, NEW told, Settles(w, r, told),
         work[w].step \in {"idle", "decide"}, UNCHANGED <<row, recorded, shown, faults>>
  PROVE  AgreeInv'
<1>1. MarksFit(r)
  BY DEF AgreeInv
<1>2. /\ work'[w].step \in {"ask", "move", "check"}
      /\ work'[w].step = "move" => work'[w].row = r /\ work'[w].seen = row[r].state /\ work'[w].ref = row[r].ref
  BY SettlesSteps
<1>3. Sees(w)'
  BY <1>1, <1>2 DEF MarksFit, Sees
<1>4. Aware(w)'
  BY <1>2 DEF Aware
<1> QED BY <1>3, <1>4, RowsStand DEF OnTheWay

LEMMA EventAgrees ==
  ASSUME IInv, AgreeInv, NEW w \in Workers, Others(w), NEW p \in Refs, Event(w, p)
  PROVE  AgreeInv'
<1>1. CASE With(p) # {}
  <2>1. PICK r \in Rows : Settles(w, r, {p})
    BY <1>1 DEF Event, With
  <2> QED BY <2>1, SettleAgrees DEF Event
<1>2. CASE With(p) = {}
  <2>1. work'[w] = [NoWork EXCEPT !.step = "decide", !.ref = p, !.to = made[p], !.job = TRUE, !.news = {p}]
    BY <1>2 DEF Event, IInv, TypeOK
  <2>2. work'[w].step = "decide"
    BY <2>1 DEF NoWork
  <2> QED BY <2>2, RowsStand DEF Event, Sees, Aware, OnTheWay
<1> QED BY <1>1, <1>2

LEMMA RecordPaymentAgrees ==
  ASSUME IInv, AgreeInv, NEW w \in Workers, Others(w), RecordPayment(w)
  PROVE  AgreeInv'
<1>1. work' = work \/ work' = [work EXCEPT ![w] = [NoWork EXCEPT !.step = "follow", !.then = "last"]]
  BY DEF RecordPayment
<1>2. work'[w] = work[w] \/ work'[w] = [NoWork EXCEPT !.step = "follow", !.then = "last"]
  BY <1>1 DEF IInv, TypeOK
<1>3. work'[w].step \in {"idle", "follow"}
  BY <1>2 DEF NoWork, RecordPayment
<1>4. Sees(w)'
  BY <1>3 DEF RecordPayment, Sees
<1>5. Aware(w)'
  BY <1>3 DEF Aware
<1> QED BY <1>3, <1>4, <1>5, RowsStand DEF RecordPayment, OnTheWay

LEMMA CrashAgrees ==
  ASSUME IInv, AgreeInv, FollowsAlone, "crash" \notin Events \/ MaxFaults <= 1, NEW w \in Workers, Others(w), Crash(w)
  PROVE  AgreeInv'
<1>1. work'[w].step = "idle" /\ UNCHANGED <<row, shown, recorded>> /\ Fault("crash")
  BY Steps DEF Crash, Throws
<1>2. CASE work[w].step # "mark"
  <2>1. Sees(w)' /\ Aware(w)' /\ "crash" \in EventKinds
    BY <1>1 DEF Sees, Aware, EventKinds
  <2> QED BY <1>1, <1>2, <2>1, RowsStand DEF Fault, IInv, TypeOK
<1>3. CASE work[w].step = "mark"
  <2>1. recorded /\ shown = Shown(Done) /\ \A r \in Rows : MarksFit(r)
    BY <1>3 DEF AgreeInv, Sees
  <2>2. faults' = MaxFaults
    BY <1>1, RefundAssumption DEF Fault, IInv, TypeOK
  <2>3. Standing' = Standing /\ Done' = Done /\ Undo' = Undo
    BY <1>1 DEF Standing, Done, Undo
  <2>4. shown' = Shown(Standing)' \/ Unmarked'
    <3>1. CASE Done \ Standing = {} /\ Undo = {}
      BY <1>1, <2>1, <2>3, <3>1, AllMarked DEF Shown
    <3>2. CASE Done \ Standing # {} \/ Undo # {}
      <4>1. ASSUME NEW v \in Workers PROVE Aware(v)'
        <5>1. CASE v = w
          BY <1>1, <5>1 DEF Aware
        <5>2. CASE v # w
          <6>1. work[v].step # "move"
            BY <1>3, <5>2 DEF FollowsAlone
          <6> QED BY <5>2, <6>1 DEF Others, Aware
        <5> QED BY <5>1, <5>2
      <4> QED BY <1>1, <2>1, <2>2, <2>3, <3>2, <4>1 DEF Unmarked
    <3> QED BY <3>1, <3>2
  <2>5. \A r \in Rows : MarksFit(r)'
    BY <1>1, <2>1 DEF MarksFit
  <2>6. \A v \in Workers : Sees(v)'
    <3>1. Sees(w)'
      BY <1>1 DEF Sees
    <3>2. \A v \in Workers \ {w} : Sees(v)'
      BY <1>1, <2>3, OthersSee
    <3> QED BY <3>1, <3>2
  <2> QED BY <2>4, <2>5, <2>6 DEF AgreeInv
<1> QED BY <1>2, <1>3

LEMMA HoldReadAgrees ==
  ASSUME IInv, AgreeInv, NEW w \in Workers, Others(w), HoldRead(w)
  PROVE  AgreeInv'
<1>1. work[w] \in WorkType /\ work \in [Workers -> WorkType]
  BY DEF IInv, TypeOK
<1>2. work'[w] = [work[w] EXCEPT !.step = "commit", !.was = committed, !.to = "none", !.seen = "none"]
  BY <1>1 DEF HoldRead
<1>3. work'[w].step = "commit" /\ work'[w].then = work[w].then
  BY <1>1, <1>2 DEF WorkType
<1> QED BY <1>3, RowsStand DEF HoldRead, Sees, Aware, OnTheWay

\* Where a worker goes once its hold is moved or given up.
LEMMA MovedSteps ==
  ASSUME IInv, NEW w \in Workers, work[w].step \in {"commit", "again"}, Moved(w) \/ Refused(w)
  PROVE  /\ work'[w].step \in {"idle", "check", "make", "follow"}
         /\ work'[w].step = "follow" => recorded
         /\ work[w].then = "follow" /\ recorded => work'[w].step = "follow"
<1>1. work[w] \in WorkType /\ work \in [Workers -> WorkType]
  BY DEF IInv, TypeOK
<1>2. work[w].then \in {"make", "follow", "end"}
  BY <1>1 DEF IInv, Carries, WorkType
<1>3. CASE work[w].then = "end"
  BY <1>3, Steps DEF Moved, Refused
<1>4. CASE work[w].then = "follow"
  <2>1. Follows(w)
    BY <1>4 DEF Moved, Refused
  <2>2. (recorded /\ work'[w].step = "follow") \/ (~recorded /\ work'[w].step \in {"idle", "check"})
    BY <2>1, Steps
  <2> QED BY <1>4, <2>2
<1>5. CASE work[w].then = "make" /\ Moved(w)
  <2>1. work'[w] = [work[w] EXCEPT !.step = "make", !.then = "end", !.was = 0]
    BY <1>1, <1>5 DEF Moved
  <2>2. work'[w].step = "make"
    BY <1>1, <2>1 DEF WorkType
  <2> QED BY <1>5, <2>2
<1>6. CASE work[w].then = "make" /\ ~Moved(w)
  BY <1>6, Steps DEF Refused
<1> QED BY <1>2, <1>3, <1>4, <1>5, <1>6

LEMMA HoldCommitAgrees ==
  ASSUME IInv, AgreeInv, NEW w \in Workers, Others(w), HoldCommit(w)
  PROVE  AgreeInv'
<1>1. work[w].step = "commit"
  BY DEF HoldCommit
<1>2. ASSUME Goes(w, "again") PROVE work'[w].step = "again" /\ work'[w].then = work[w].then
  BY <1>2, Steps
<1>3. Goes(w, "again") \/ Moved(w)
  BY DEF HoldCommit
<1>4. Sees(w)' /\ Aware(w)' /\ (recorded /\ OnTheWay(work[w]) => OnTheWay(work'[w]))
  <2>1. CASE Goes(w, "again")
    BY <1>1, <1>2, <2>1 DEF Sees, Aware, OnTheWay
  <2>2. CASE Moved(w)
    BY <1>1, <2>2, MovedSteps DEF Sees, Aware, OnTheWay, HoldCommit
  <2> QED BY <1>3, <2>1, <2>2
<1> QED BY <1>1, <1>4, RowsStand DEF HoldCommit

LEMMA HoldAgainAgrees ==
  ASSUME IInv, AgreeInv, NEW w \in Workers, Others(w), HoldAgain(w)
  PROVE  AgreeInv'
<1>1. work[w] \in WorkType /\ work \in [Workers -> WorkType] /\ work[w].step = "again"
  BY DEF IInv, TypeOK, HoldAgain
<1>2. CASE work' = [work EXCEPT ![w].step = "hold", ![w].was = 0]
  <2>1. work'[w] = [work[w] EXCEPT !.step = "hold", !.was = 0]
    BY <1>1, <1>2
  <2>2. work'[w].step = "hold" /\ work'[w].then = work[w].then
    BY <1>1, <2>1 DEF WorkType
  <2> QED BY <1>1, <2>2, RowsStand DEF HoldAgain, Sees, Aware, OnTheWay
<1>3. CASE Refused(w)
  <2>1. Sees(w)' /\ Aware(w)' /\ (recorded /\ OnTheWay(work[w]) => OnTheWay(work'[w]))
    BY <1>1, <1>3, MovedSteps DEF Sees, Aware, OnTheWay, HoldAgain
  <2> QED BY <1>1, <2>1, RowsStand DEF HoldAgain
<1> QED BY <1>2, <1>3 DEF HoldAgain

LEMMA AskAgrees ==
  ASSUME IInv, AgreeInv, NEW w \in Workers, Others(w), Ask(w)
  PROVE  AgreeInv'
<1> DEFINE r == work[w].row
<1>1. work[w] \in WorkType /\ work \in [Workers -> WorkType] /\ work[w].step = "ask" /\ r \in Rows
  BY DEF IInv, TypeOK, Ask, Carries
<1>2. ASSUME NEW to, NEW p, Hears(w, to, p)
      PROVE  work'[w].step = "move" /\ work'[w].row = r /\ work'[w].seen = "requested" /\ work'[w].ref = p
  <2>1. work'[w] = [work[w] EXCEPT !.step = "move", !.to = to, !.ref = p, !.seen = "requested"]
    BY <1>1, <1>2 DEF Hears
  <2> QED BY <1>1, <2>1 DEF WorkType
<1>3. ASSUME NEW to, NEW p \in {r[2], NoRefund}, Hears(w, to, p), row[r].state = "requested" PROVE Sees(w)' /\ Aware(w)'
  <2>1. row' = row
    BY DEF Ask
  <2> QED BY <1>2, <1>3, <2>1 DEF Sees, Aware
<1>4. ASSUME work'[w].step \in {"idle", "check"} PROVE Sees(w)' /\ Aware(w)'
  BY <1>4 DEF Sees, Aware
<1>5. Sees(w)' /\ Aware(w)'
  <2>1. CASE Ends(w) \/ work' = [work EXCEPT ![w] = NoWork]
    BY <1>4, <2>1, Steps
  <2>2. CASE /\ row[r].state = "requested"
             /\ \E to : \E p \in {r[2], NoRefund} : Hears(w, to, p)
    BY <1>3, <2>2
  <2> QED BY <2>1, <2>2 DEF Ask, Throws
<1>6. UNCHANGED faults \/ (\E kind \in EventKinds : Fault(kind))
  BY DEF Ask, EventKinds
<1>7. UNCHANGED <<row, shown, recorded>>
  BY DEF Ask
<1> QED BY <1>1, <1>5, <1>6, <1>7, RowsStand DEF OnTheWay

LEMMA MakeRowAgrees ==
  ASSUME IInv, AgreeInv, NEW w \in Workers, Others(w), MakeRow(w)
  PROVE  AgreeInv'
<1> DEFINE r == work[w].row
<1>1. work[w] \in WorkType /\ work \in [Workers -> WorkType] /\ work[w].step = "make" /\ r \in Rows /\ row \in [Rows -> RowType]
  BY DEF IInv, TypeOK, MakeRow, Carries
<1>2. r[1] = "staff"
  BY <1>1 DEF IInv, Carries
<1>3. UNCHANGED <<shown, recorded, faults>>
  BY DEF MakeRow
<1>4. CASE row[r].state = "none"
  <2>1. row' = [row EXCEPT ![r].state = "requested"] /\ Goes(w, "ask")
    BY <1>4 DEF MakeRow
  <2>2. work'[w].step = "ask"
    BY <2>1, Steps
  <2>3. /\ row'[r].state = "requested" /\ row'[r].applied = row[r].applied /\ row'[r].undone = row[r].undone
        /\ \A x \in Rows \ {r} : row'[x] = row[x]
    BY <1>1, <2>1 DEF RowType
  <2>4. MarksFit(r) /\ \A x \in Rows : MarksFit(x)
    BY <1>1 DEF AgreeInv
  <2>5. ~row[r].applied /\ ~row[r].undone
    BY <1>4, <2>4 DEF MarksFit
  <2>6. \A x \in Rows : MarksFit(x)'
    BY <1>2, <2>3, <2>4, <2>5 DEF MarksFit
  <2>7. Standing' = Standing /\ Done' = Done /\ Undo' = Undo
    BY <1>4, <2>3, <2>5 DEF Standing, Done, Undo
  <2>8. Unmarked => Unmarked'
    <3>1. Aware(w)' /\ \A v \in Workers \ {w} : Aware(v) => Aware(v)'
      <4> SUFFICES ASSUME NEW v \in Workers \ {w}, Aware(v) PROVE Aware(v)'
        BY <2>2 DEF Aware
      <4>1. work'[v] = work[v] /\ (work[v].step = "move" => work[v].row \in Rows)
        BY DEF Others, IInv, Carries
      <4> QED BY <2>3, <4>1 DEF Aware
    <3>2. ~OnTheWay(work[w])
      BY <1>1 DEF OnTheWay
    <3> QED BY <1>3, <2>7, <3>1, <3>2, UnmarkedStays DEF Unmarked
  <2>9. \A v \in Workers \ {w} : Sees(v)'
    BY <1>3, <2>7, OthersSee
  <2> QED BY <1>1, <1>3, <2>2, <2>6, <2>7, <2>8, <2>9, MarksStand DEF Sees
<1>5. CASE row[r].state # "none"
  <2>1. work'[w] = [work[w] EXCEPT !.step = "hold", !.then = "end"] /\ UNCHANGED row
    BY <1>1, <1>5 DEF MakeRow
  <2>2. work'[w].step = "hold"
    BY <1>1, <2>1 DEF WorkType
  <2> QED BY <1>1, <1>3, <2>1, <2>2, RowsStand DEF Sees, Aware, OnTheWay
<1> QED BY <1>4, <1>5

\* A row that fails once it was done is one the worker goes on to follow.
LEMMA MoveAgrees ==
  ASSUME IInv, AgreeInv, FollowsAlone, NEW w \in Workers, Others(w), Move(w)
  PROVE  AgreeInv'
<1> DEFINE r == work[w].row
           to == work[w].to
<1>1. work[w] \in WorkType /\ work \in [Workers -> WorkType] /\ work[w].step = "move" /\ r \in Rows
      /\ to \in Answers /\ row \in [Rows -> RowType]
  BY DEF IInv, TypeOK, Move, Carries
<1>2. UNCHANGED <<shown, recorded, faults>>
  BY DEF Move
<1>3. r[1] = "provider" => work[w].ref \in {r[2], NoRefund}
  BY <1>1 DEF AgreeInv, Sees
<1>6. ~OnTheWay(work[w]) /\ \A v \in Workers \ {w} : Sees(v)'
  <2>1. \A v \in Workers \ {w} : work[v].step \notin {"write", "mark"}
    BY <1>1, NoneFollow
  <2> QED BY <1>1, <1>2, <2>1, OthersSee DEF OnTheWay
<1>4. CASE UNCHANGED row
  <2>1. Ends(w) \/ Goes(w, "merge")
    <3>1. ASSUME ~Ends(w), ~Goes(w, "merge") PROVE FALSE
      <4>1. row' = [row EXCEPT ![r].state = to, ![r].ref = IF work[w].ref = NoRefund THEN @ ELSE work[w].ref]
            /\ row[r].state \in Moves(to)
        BY <3>1 DEF Move
      <4>2. row'[r].state = to
        BY <1>1, <4>1 DEF RowType
      <4> QED BY <1>1, <1>4, <4>1, <4>2 DEF Moves, Answers
    <3> QED BY <3>1
  <2>2. work'[w].step \in {"idle", "check", "merge"}
    BY <2>1, Steps
  <2> QED BY <1>1, <1>2, <1>4, <2>2, RowsStand DEF Sees, Aware, OnTheWay
<1>5. CASE ~UNCHANGED row
  <2>1. /\ row[r].state \in Moves(to)
        /\ row' = [row EXCEPT ![r].state = to, ![r].ref = IF work[w].ref = NoRefund THEN @ ELSE work[w].ref]
    BY <1>5 DEF Move
  <2>2. /\ row'[r].state = to /\ row'[r].applied = row[r].applied /\ row'[r].undone = row[r].undone
        /\ row'[r].ref = (IF work[w].ref = NoRefund THEN row[r].ref ELSE work[w].ref)
        /\ \A x \in Rows \ {r} : row'[x] = row[x]
    <3> DEFINE ref == IF work[w].ref = NoRefund THEN row[r].ref ELSE work[w].ref
    <3>1. row'[r] = [row[r] EXCEPT !.state = to, !.ref = ref] /\ \A x \in Rows \ {r} : row'[x] = row[x]
      BY <1>1, <2>1 DEF RowType
    <3> HIDE DEF ref, to
    <3>2. /\ row'[r].state = to /\ row'[r].applied = row[r].applied /\ row'[r].undone = row[r].undone
          /\ row'[r].ref = ref
      BY <1>1, <3>1 DEF RowType
    <3> USE DEF ref
    <3> QED BY <3>1, <3>2
  <2>3. MarksFit(r) /\ \A x \in Rows : MarksFit(x)
    BY <1>1 DEF AgreeInv
  <2>4. row[r].state \in {"requested", "pending", "succeeded"} /\ (row[r].state = "succeeded" => to = "failed")
    BY <1>1, <2>1 DEF Moves, Answers
  <2>5. /\ row'[r].applied => to \in {"succeeded", "failed"}
        /\ row'[r].undone => to = "failed"
        /\ r[1] = "provider" => row'[r].ref = r[2] /\ to # "none"
    BY <1>1, <1>3, <2>2, <2>3, <2>4 DEF MarksFit, Answers
  <2>6. \A x \in Rows : MarksFit(x)'
    BY <2>2, <2>3, <2>5 DEF MarksFit
  <2>7. Standing' = Standing
    BY <1>1, <2>2 DEF Standing
  <2>8. IF to \in {"failed", "cancelled"}
        THEN work' = [work EXCEPT ![w].step = "hold", ![w].then = IF work[w].seen = "succeeded" THEN "follow" ELSE "end"]
        ELSE Follows(w) \/ Ends(w)
    BY <1>5 DEF Move
  <2>9. CASE to \in {"failed", "cancelled"}
    <3> DEFINE then == IF work[w].seen = "succeeded" THEN "follow" ELSE "end"
    <3>1. work'[w] = [work[w] EXCEPT !.step = "hold", !.then = then]
      BY <1>1, <2>8, <2>9
    <3>2. work[w].seen = "succeeded" => then = "follow"
      OBVIOUS
    <3> HIDE DEF then
    <3>3. work'[w].step = "hold" /\ work'[w].then = then
      BY <1>1, <3>1 DEF WorkType
    <3>4. Sees(w)' /\ Aware(w)'
      BY <3>3 DEF Sees, Aware
    <3>5. Unmarked => Unmarked'
      <4>1. CASE row[r].state = "succeeded" /\ work[w].seen = "succeeded"
        <5>1. OnTheWay(work'[w])
          BY <3>2, <3>3, <4>1 DEF OnTheWay
        <5> QED BY <1>2, <1>6, <5>1, UnmarkedStays DEF Unmarked
      <4>2. CASE row[r].state = "succeeded" /\ work[w].seen # "succeeded"
        <5>1. ~Aware(w)
          BY <1>1, <4>2 DEF Aware
        <5> QED BY <1>2, <1>6, <5>1, UnmarkedStays DEF Unmarked
      <4>3. CASE row[r].state # "succeeded"
        <5>1. Done \subseteq Done'
          BY <2>2, <4>3 DEF Done
        <5>2. Undo \subseteq Undo'
          BY <2>2, <2>4 DEF Undo
        <5>3. \A v \in Workers \ {w} : Aware(v) => Aware(v)'
          <6> SUFFICES ASSUME NEW v \in Workers \ {w}, Aware(v) PROVE Aware(v)'
            OBVIOUS
          <6>1. work'[v] = work[v] /\ (work[v].step = "move" => work[v].row \in Rows)
            BY DEF Others, IInv, Carries
          <6>2. row'[r].state # "succeeded"
            BY <2>2, <2>9
          <6> QED BY <2>2, <6>1, <6>2 DEF Aware
        <5> QED BY <1>2, <1>6, <2>7, <3>4, <5>1, <5>2, <5>3, UnmarkedStays DEF Unmarked
      <4> QED BY <4>1, <4>2, <4>3
    <3> QED BY <1>1, <1>2, <1>6, <2>6, <2>7, <3>4, <3>5, MarksStand
  <2>10. CASE to \notin {"failed", "cancelled"}
    <3>1. Follows(w) \/ (to # "succeeded" /\ Ends(w))
      BY <1>5, <2>10 DEF Move
    <3>2. \/ recorded /\ work'[w].step = "follow"
          \/ work'[w].step \in {"idle", "check"} /\ (~recorded \/ to # "succeeded")
      BY <3>1, Steps
    <3>3. Sees(w)' /\ Aware(w)'
      BY <1>2, <3>2 DEF Sees, Aware
    <3>4. Unmarked => Unmarked'
      <4>1. Done \subseteq Done' /\ Undo \subseteq Undo'
        BY <2>2, <2>4, <2>10 DEF Done, Undo
      <4>2. CASE work'[w].step = "follow"
        BY <1>2, <1>6, <4>2, UnmarkedStays DEF Unmarked, OnTheWay
      <4>3. CASE to # "succeeded"
        <5>1. \A v \in Workers \ {w} : Aware(v) => Aware(v)'
          <6> SUFFICES ASSUME NEW v \in Workers \ {w}, Aware(v) PROVE Aware(v)'
            OBVIOUS
          <6>1. work'[v] = work[v] /\ (work[v].step = "move" => work[v].row \in Rows)
            BY DEF Others, IInv, Carries
          <6>2. row'[r].state # "succeeded"
            BY <2>2, <4>3
          <6> QED BY <2>2, <6>1, <6>2 DEF Aware
        <5> QED BY <1>2, <1>6, <2>7, <3>3, <4>1, <5>1, UnmarkedStays DEF Unmarked
      <4> QED BY <3>2, <4>2, <4>3 DEF Unmarked
    <3> QED BY <1>1, <1>2, <1>6, <2>6, <2>7, <3>3, <3>4, MarksStand
  <2> QED BY <2>9, <2>10
<1> QED BY <1>4, <1>5

LEMMA MergeAgrees ==
  ASSUME IInv, AgreeInv, NEW w \in Workers, Others(w), Merge(w)
  PROVE  AgreeInv'
<1> DEFINE r == work[w].row
<1>1. work[w] \in WorkType /\ work \in [Workers -> WorkType] /\ work[w].step = "merge" /\ r \in Rows /\ row \in [Rows -> RowType]
  BY DEF IInv, TypeOK, Merge, Carries
<1>2. UNCHANGED <<shown, recorded, faults>>
  BY DEF Merge
<1>3. CASE row[r].state \in Moves("cancelled")
  <2>1. row' = [row EXCEPT ![r].state = "cancelled"] /\ row[r].state \in {"requested", "pending"}
    BY <1>3 DEF Merge, Moves
  <2>2. work'[w] = [work[w] EXCEPT !.step = "hold", !.then = "end"]
    BY <1>1, <1>3 DEF Merge
  <2>3. work'[w].step = "hold"
    BY <1>1, <2>2 DEF WorkType
  <2>4. /\ row'[r].state = "cancelled" /\ row'[r].applied = row[r].applied /\ row'[r].undone = row[r].undone
        /\ row'[r].ref = row[r].ref /\ \A x \in Rows \ {r} : row'[x] = row[x]
    BY <1>1, <2>1 DEF RowType
  <2>5. MarksFit(r) /\ \A x \in Rows : MarksFit(x)
    BY <1>1 DEF AgreeInv
  <2>6. \A x \in Rows : MarksFit(x)'
    BY <2>1, <2>4, <2>5 DEF MarksFit
  <2>7. Standing' = Standing /\ Done' = Done /\ Undo' = Undo
    BY <2>1, <2>4 DEF Standing, Done, Undo
  <2>8. Unmarked => Unmarked'
    <3>1. Aware(w)' /\ \A v \in Workers \ {w} : Aware(v) => Aware(v)'
      <4> SUFFICES ASSUME NEW v \in Workers \ {w}, Aware(v) PROVE Aware(v)'
        BY <2>3 DEF Aware
      <4>1. work'[v] = work[v] /\ (work[v].step = "move" => work[v].row \in Rows)
        BY DEF Others, IInv, Carries
      <4> QED BY <2>4, <4>1 DEF Aware
    <3>2. ~OnTheWay(work[w])
      BY <1>1 DEF OnTheWay
    <3> QED BY <1>2, <2>7, <3>1, <3>2, UnmarkedStays DEF Unmarked
  <2>9. \A v \in Workers \ {w} : Sees(v)'
    BY <1>2, <2>7, OthersSee
  <2> QED BY <1>1, <1>2, <2>3, <2>6, <2>7, <2>8, <2>9, MarksStand DEF Sees
<1>4. CASE row[r].state \notin Moves("cancelled")
  <2>1. Ends(w) /\ UNCHANGED row
    BY <1>4 DEF Merge
  <2>2. work'[w].step \in {"idle", "check"}
    BY <2>1, Steps
  <2> QED BY <1>1, <1>2, <2>1, <2>2, RowsStand DEF Sees, Aware, OnTheWay
<1> QED BY <1>3, <1>4

LEMMA DecideAgrees ==
  ASSUME IInv, AgreeInv, FollowsAlone, NEW w \in Workers, Others(w), Decide(w)
  PROVE  AgreeInv'
<1>1. work[w] \in WorkType /\ work \in [Workers -> WorkType] /\ work[w].step = "decide" /\ row \in [Rows -> RowType]
  BY DEF IInv, TypeOK, Decide
<1>2. UNCHANGED <<shown, recorded, faults>>
  BY DEF Decide
<1>3. PICK p \in Refs, to \in Answers : p = work[w].ref /\ to = work[w].to
  BY <1>1 DEF IInv, Carries, Known
<1>4. \A x \in Rows : MarksFit(x)
  BY DEF AgreeInv
<1>8. ~OnTheWay(work[w]) /\ \A v \in Workers \ {w} : Sees(v)'
  <2>1. \A v \in Workers \ {w} : work[v].step \notin {"write", "mark"}
    BY <1>1, NoneFollow
  <2> QED BY <1>1, <1>2, <2>1, OthersSee DEF OnTheWay
<1>5. CASE \E r \in With(p) : Settles(w, r, work[w].news) /\ UNCHANGED row
  <2>1. PICK r \in Rows : Settles(w, r, work[w].news) /\ UNCHANGED row
    BY <1>5 DEF With
  <2> QED BY <1>1, <1>2, <2>1, SettleAgrees
<1>6. ASSUME NEW r \in Lost(p), row' = [row EXCEPT ![r].ref = p],
             work' = [work EXCEPT ![w].step = "move", ![w].row = r, ![w].seen = "requested"]
      PROVE  AgreeInv'
  <2>1. r \in Rows /\ r[1] = "staff" /\ row[r].state = "requested"
    BY DEF Lost
  <2>2. /\ row'[r].state = row[r].state /\ row'[r].applied = row[r].applied /\ row'[r].undone = row[r].undone
        /\ \A x \in Rows \ {r} : row'[x] = row[x]
    BY <1>1, <1>6, <2>1 DEF RowType
  <2>3. work'[w] = [work[w] EXCEPT !.step = "move", !.row = r, !.seen = "requested"]
    BY <1>1, <1>6
  <2>4. work'[w].step = "move" /\ work'[w].row = r /\ work'[w].seen = "requested"
    BY <1>1, <2>3 DEF WorkType
  <2>5. Sees(w)'
    BY <2>1, <2>2, <2>4 DEF Sees
  <2>6. \A x \in Rows : MarksFit(x)'
    BY <1>4, <2>1, <2>2 DEF MarksFit
  <2>7. Standing' = Standing /\ Done' = Done /\ Undo' = Undo
    BY <2>2 DEF Standing, Done, Undo
  <2>8. Unmarked => Unmarked'
    <3>1. Aware(w)' /\ \A v \in Workers \ {w} : Aware(v) => Aware(v)'
      <4>1. Aware(w)'
        BY <2>1, <2>2, <2>4 DEF Aware
      <4> SUFFICES ASSUME NEW v \in Workers \ {w}, Aware(v) PROVE Aware(v)'
        BY <4>1
      <4>2. work'[v] = work[v] /\ (work[v].step = "move" => work[v].row \in Rows)
        BY DEF Others, IInv, Carries
      <4> QED BY <2>1, <2>2, <4>2 DEF Aware
    <3> QED BY <1>2, <1>8, <2>7, <3>1, UnmarkedStays DEF Unmarked
  <2> QED BY <1>1, <1>2, <1>8, <2>5, <2>6, <2>7, <2>8, MarksStand
<1>7. ASSUME NEW r, r = <<"provider", p>>, With(p) = {}, row' = [row EXCEPT ![r] = [NoRow EXCEPT !.state = to, !.ref = p]],
             work' = [work EXCEPT ![w].row = r, ![w].to = "none",
                                  ![w].step = IF to = "succeeded" /\ recorded THEN "follow" ELSE "check"]
      PROVE  AgreeInv'
  <2> DEFINE step == IF to = "succeeded" /\ recorded THEN "follow" ELSE "check"
  <2>1. r \in Rows /\ r[1] = "provider" /\ r[2] = p
    BY <1>7 DEF Rows
  <2>2. row[r].state = "none" /\ ~row[r].applied /\ ~row[r].undone
    BY <1>4, <1>7, <2>1 DEF With, MarksFit
  <2>3. /\ row'[r].state = to /\ ~row'[r].applied /\ ~row'[r].undone /\ row'[r].ref = p
        /\ \A x \in Rows \ {r} : row'[x] = row[x]
    <3>1. row'[r] = [NoRow EXCEPT !.state = to, !.ref = p] /\ \A x \in Rows \ {r} : row'[x] = row[x]
      BY <1>1, <1>7, <2>1
    <3> QED BY <3>1 DEF NoRow
  <2>4. work'[w] = [work[w] EXCEPT !.row = r, !.to = "none", !.step = step]
    BY <1>1, <1>7
  <2>5. /\ step \in {"follow", "check"} /\ (step = "follow" => recorded)
        /\ to = "succeeded" /\ recorded => step = "follow"
    OBVIOUS
  <2> HIDE DEF step
  <2>6. work'[w].step = step
    BY <1>1, <2>4 DEF WorkType
  <2>7. Sees(w)'
    BY <1>2, <2>5, <2>6 DEF Sees
  <2>8. \A x \in Rows : MarksFit(x)'
    BY <1>4, <2>1, <2>3 DEF MarksFit, Answers
  <2>9. Standing' = Standing /\ Done \subseteq Done' /\ Undo \subseteq Undo'
    BY <2>2, <2>3 DEF Standing, Done, Undo
  <2>10. Unmarked => Unmarked'
    <3>1. CASE to = "succeeded"
      BY <1>2, <1>8, <2>5, <2>6, <3>1, UnmarkedStays DEF Unmarked, OnTheWay
    <3>2. CASE to # "succeeded"
      <4>1. Aware(w)' /\ \A v \in Workers \ {w} : Aware(v) => Aware(v)'
        <5> SUFFICES ASSUME NEW v \in Workers \ {w}, Aware(v) PROVE Aware(v)'
          BY <2>5, <2>6 DEF Aware
        <5>1. work'[v] = work[v] /\ (work[v].step = "move" => work[v].row \in Rows)
          BY DEF Others, IInv, Carries
        <5> QED BY <2>1, <2>3, <3>2, <5>1 DEF Aware
      <4> QED BY <1>2, <1>8, <2>9, <4>1, UnmarkedStays DEF Unmarked
    <3> QED BY <3>1, <3>2
  <2> QED BY <1>1, <1>2, <1>8, <2>7, <2>8, <2>9, <2>10, MarksStand
<1> QED BY <1>3, <1>5, <1>6, <1>7 DEF Decide

LEMMA FollowReadAgrees ==
  ASSUME IInv, AgreeInv, NEW w \in Workers, Others(w), FollowRead(w)
  PROVE  AgreeInv'
<1>1. work[w] \in WorkType /\ work \in [Workers -> WorkType] /\ work[w].step = "follow"
  BY DEF IInv, TypeOK, FollowRead
<1>2. work'[w] = [work[w] EXCEPT !.step = "write", !.done = Done, !.undo = Undo]
  BY <1>1 DEF FollowRead, Done, Undo
<1>3. work'[w].step = "write" /\ work'[w].done = Done /\ work'[w].undo = Undo
  BY <1>1, <1>2 DEF WorkType
<1>4. recorded /\ UNCHANGED <<row, shown, recorded, faults>>
  BY <1>1 DEF AgreeInv, Sees, FollowRead
<1>5. Done' = Done /\ Undo' = Undo
  BY <1>4 DEF Done, Undo
<1>6. Sees(w)'
  BY <1>3, <1>4, <1>5 DEF Sees
<1> QED BY <1>1, <1>3, <1>4, <1>6, RowsStand DEF OnTheWay, Aware

LEMMA WriteTotalAgrees ==
  ASSUME IInv, AgreeInv, FollowsAlone, NEW w \in Workers, Others(w), WriteTotal(w)
  PROVE  AgreeInv'
<1>1. work[w] \in WorkType /\ work \in [Workers -> WorkType] /\ work[w].step = "write" /\ row \in [Rows -> RowType]
  BY DEF IInv, TypeOK, WriteTotal
<1>2. recorded /\ work[w].done = Done /\ work[w].undo = Undo /\ \A x \in Rows : MarksFit(x)
  BY <1>1 DEF AgreeInv, Sees
<1>3. CASE shown' = Shown(work[w].done) /\ Goes(w, "mark") /\ UNCHANGED row
  <2>1. work'[w].step = "mark" /\ work'[w].done = Done /\ work'[w].undo = Undo
    BY <1>2, <1>3, Steps
  <2>2. Done' = Done /\ Undo' = Undo /\ recorded'
    BY <1>2, <1>3 DEF Done, Undo, WriteTotal
  <2>3. shown' = Shown(Done)'
    BY <1>2, <1>3, <2>2 DEF Shown
  <2>4. Sees(w)' /\ \A v \in Workers \ {w} : Sees(v)'
    <3>1. Sees(w)'
      BY <2>1, <2>2, <2>3 DEF Sees
    <3>2. \A v \in Workers \ {w} : work[v].step \notin {"write", "mark"}
      BY <1>1, NoneFollow
    <3> QED BY <2>2, <3>1, <3>2, OthersSee
  <2>5. \A x \in Rows : MarksFit(x)'
    BY <1>2, <1>3 DEF MarksFit
  <2> QED BY <2>1, <2>4, <2>5 DEF AgreeInv
<1>4. CASE /\ Fault("failed")
           /\ \/ Throws(w) /\ row' = row
              \/ Ends(w) /\ row' = [row EXCEPT ![work[w].row].more = FALSE]
           /\ UNCHANGED shown
  <2>1. \/ Throws(w) /\ row' = row
        \/ Ends(w) /\ row' = [row EXCEPT ![work[w].row].more = FALSE]
    BY <1>4
  <2>2. work'[w].step \in {"idle", "check"}
    BY <2>1, Steps DEF Throws
  <2>3. \A x \in Rows : /\ row'[x].state = row[x].state /\ row'[x].applied = row[x].applied
                        /\ row'[x].undone = row[x].undone /\ row'[x].ref = row[x].ref
    <3>1. CASE row' = row
      BY <3>1
    <3>2. CASE row' = [row EXCEPT ![work[w].row].more = FALSE]
      <4> TAKE x \in Rows
      <4>1. row[x] \in RowType
        BY <1>1
      <4>2. row'[x] = row[x] \/ row'[x] = [row[x] EXCEPT !.more = FALSE]
        BY <1>1, <3>2
      <4>3. CASE row'[x] = row[x]
        BY <4>3
      <4>4. CASE row'[x] = [row[x] EXCEPT !.more = FALSE]
        BY <4>1, <4>4 DEF RowType
      <4> QED BY <4>2, <4>3, <4>4
    <3> QED BY <2>1, <3>1, <3>2
  <2>4. Standing' = Standing
    BY <2>3 DEF Standing
  <2>5. \A x \in Rows : MarksFit(x)'
    BY <1>2, <2>3 DEF MarksFit
  <2>6. Sees(w)'
    BY <2>2 DEF Sees
  <2>7. \A v \in Workers \ {w} : Sees(v)'
    <3>1. \A v \in Workers \ {w} : work[v].step \notin {"write", "mark"}
      BY <1>1, NoneFollow
    <3> QED BY <3>1, OthersSee DEF WriteTotal
  <2> QED BY <1>1, <1>4, <2>4, <2>5, <2>6, <2>7, FaultFits, MarksStand
<1> QED BY <1>3, <1>4 DEF WriteTotal

\* A mark takes one more row to what the record shows,
LEMMA MarkRowAgrees ==
  ASSUME IInv, AgreeInv, FollowsAlone, NEW w \in Workers, Others(w), MarkRow(w)
  PROVE  AgreeInv'
<1>1. work[w].step = "mark" /\ row \in [Rows -> RowType] /\ UNCHANGED <<work, shown, recorded>>
  BY DEF IInv, TypeOK, MarkRow
<1>2. recorded /\ work[w].done = Done /\ Undo \subseteq work[w].undo /\ shown = Shown(Done) /\ \A x \in Rows : MarksFit(x)
  BY <1>1 DEF AgreeInv, Sees
<1>3. PICK r \in ToMark(w) :
        row' = IF row[r].state = "succeeded" THEN [row EXCEPT ![r].applied = TRUE] ELSE [row EXCEPT ![r].undone = TRUE]
  BY DEF MarkRow
<1>4. \/ row[r].state = "succeeded" /\ row' = [row EXCEPT ![r].applied = TRUE]
      \/ row[r].state = "failed" /\ row[r].applied /\ row' = [row EXCEPT ![r].undone = TRUE]
  BY <1>3 DEF ToMark
<1>5. ASSUME NEW x \in Rows
      PROVE  /\ row'[x].state = row[x].state /\ row'[x].ref = row[x].ref
             /\ row'[x].applied = row[x].applied \/ (row'[x].applied /\ row[x].state = "succeeded")
             /\ row'[x].undone = row[x].undone \/ (row'[x].undone /\ row[x].state = "failed")
  <2>1. row[x] \in RowType
    BY <1>1
  <2>2. \/ row'[x] = row[x]
        \/ row'[x] = [row[x] EXCEPT !.applied = TRUE] /\ row[x].state = "succeeded"
        \/ row'[x] = [row[x] EXCEPT !.undone = TRUE] /\ row[x].state = "failed"
    BY <1>1, <1>4
  <2> QED BY <2>1, <2>2 DEF RowType
<1>6. \A x \in Rows : MarksFit(x)'
  BY <1>2, <1>5 DEF MarksFit
<1>7. Done' = Done /\ Undo' \subseteq Undo
  <2>1. Done' = Done
    BY <1>5 DEF Done
  <2>2. ASSUME NEW x \in Undo' PROVE x \in Undo
    <3>1. x \in Rows /\ row'[x].state = "failed" /\ row'[x].applied /\ ~row'[x].undone
      BY <2>2 DEF Undo
    <3>2. row[x].state = "failed" /\ row[x].applied /\ ~row[x].undone
      BY <1>5, <3>1
    <3> QED BY <3>1, <3>2 DEF Undo
  <2> QED BY <2>1, <2>2
<1>8. Sees(w)'
  BY <1>1, <1>2, <1>7 DEF Sees, Shown
<1>9. \A v \in Workers \ {w} : Sees(v)'
  <2>1. \A v \in Workers \ {w} : work[v].step \notin {"write", "mark"}
    BY <1>1, NoneFollow
  <2> QED BY <1>1, <2>1, OthersSee
<1>10. work'[w].step = "mark"
  BY <1>1
<1> QED BY <1>6, <1>8, <1>9, <1>10 DEF AgreeInv

\* until nothing is left to mark: the record shows what is marked.
LEMMA FlagPastAgrees ==
  ASSUME IInv, AgreeInv, FollowsAlone, NEW w \in Workers, Others(w), FlagPast(w)
  PROVE  AgreeInv'
<1>1. work[w].step = "mark" /\ row \in [Rows -> RowType] /\ UNCHANGED <<shown, recorded>>
  BY DEF IInv, TypeOK, FlagPast
<1>2. work[w].done = Done /\ Undo \subseteq work[w].undo /\ shown = Shown(Done) /\ \A x \in Rows : MarksFit(x)
  BY <1>1 DEF AgreeInv, Sees
<1>3. row' = row \/ \E r : row' = [row EXCEPT ![r].more = TRUE]
  BY DEF FlagPast
<1>4. ASSUME NEW x \in Rows
      PROVE  /\ row'[x].state = row[x].state /\ row'[x].ref = row[x].ref
             /\ row'[x].applied = row[x].applied /\ row'[x].undone = row[x].undone
  <2>1. row[x] \in RowType
    BY <1>1
  <2>2. row'[x] = row[x] \/ row'[x] = [row[x] EXCEPT !.more = TRUE]
    BY <1>1, <1>3
  <2> QED BY <2>1, <2>2 DEF RowType
<1>5. \A x \in Rows : MarksFit(x)'
  BY <1>2, <1>4 DEF MarksFit
<1>6. { r \in work[w].done : row[r].state = "succeeded" /\ ~row[r].applied } = {}
      /\ { r \in work[w].undo : row[r].state = "failed" /\ row[r].applied /\ ~row[r].undone } = {}
  BY DEF FlagPast, ToMark
<1>7. Undo = {} /\ \A x \in Done : row[x].applied
  BY <1>2, <1>6 DEF Done, Undo
<1>8. Standing = Done
  BY <1>2, <1>7 DEF MarksFit, Standing, Done, Undo
<1>9. Standing' = Standing
  BY <1>4 DEF Standing
<1>10. shown' = Shown(Standing)'
  BY <1>1, <1>2, <1>8, <1>9 DEF Shown
<1>11. work'[w].step \in {"idle", "check"}
  BY Steps DEF FlagPast
<1>12. \A v \in Workers \ {w} : Sees(v)'
  <2>1. \A v \in Workers \ {w} : work[v].step \notin {"write", "mark"}
    BY <1>1, NoneFollow
  <2> QED BY <1>1, <2>1, OthersSee
<1>13. Sees(w)'
  BY <1>11 DEF Sees
<1> QED BY <1>5, <1>10, <1>12, <1>13 DEF AgreeInv

LEMMA CheckAgrees ==
  ASSUME IInv, AgreeInv, NEW w \in Workers, Others(w), Check(w)
  PROVE  AgreeInv'
<1>1. work[w] \in WorkType /\ work \in [Workers -> WorkType] /\ work[w].step = "check"
  BY DEF IInv, TypeOK, Check
<1>2. \/ recorded /\ work'[w] = [work[w] EXCEPT !.step = "follow", !.then = "last"]
      \/ work'[w] = NoWork
  BY <1>1 DEF Check
<1>3. work'[w].step \in {"idle", "follow"} /\ (work'[w].step = "follow" => recorded)
  <2>1. CASE recorded /\ work'[w] = [work[w] EXCEPT !.step = "follow", !.then = "last"]
    BY <1>1, <2>1 DEF WorkType
  <2>2. CASE work'[w] = NoWork
    BY <2>2 DEF NoWork
  <2> QED BY <1>2, <2>1, <2>2
<1>4. Sees(w)' /\ Aware(w)'
  BY <1>3 DEF Sees, Aware, Check
<1> QED BY <1>1, <1>4, RowsStand DEF Check, OnTheWay

\* A step is that of one worker.
LEMMA OneSteps ==
  ASSUME IInv, NEW w \in Workers, Step(w)
  PROVE  Others(w)
<1>1. work \in [Workers -> WorkType]
  BY DEF IInv, TypeOK
<1>2. ASSUME \/ Ends(w) \/ Follows(w) \/ Throws(w) \/ Followed(w) \/ \E step : Goes(w, step)
             \/ (Moved(w) \/ Refused(w)) /\ work[w].step \in {"commit", "again"}
      PROVE  Others(w)
  <2>1. ASSUME Ends(w) PROVE Others(w)
    BY <1>1, <2>1 DEF Ends, Others
  <2>2. ASSUME Follows(w) PROVE Others(w)
    BY <1>1, <2>1, <2>2 DEF Follows, Others
  <2>3. ASSUME Throws(w) \/ work' = [work EXCEPT ![w] = NoWork] \/ \E step : Goes(w, step) PROVE Others(w)
    BY <1>1, <2>3 DEF Throws, Goes, Others
  <2>4. ASSUME Followed(w) PROVE Others(w)
    BY <2>1, <2>3, <2>4 DEF Followed
  <2>5. ASSUME Moved(w) \/ Refused(w), work[w].step \in {"commit", "again"} PROVE Others(w)
    <3>1. ASSUME Moved(w) PROVE Others(w)
      <4>1. CASE work[w].then = "end"
        BY <2>1, <3>1, <4>1 DEF Moved
      <4>2. CASE work[w].then = "follow"
        BY <2>2, <3>1, <4>2 DEF Moved
      <4>3. CASE work[w].then = "make"
        BY <1>1, <3>1, <4>3 DEF Moved, Others
      <4>4. work[w].then # "last"
        BY <2>5 DEF IInv, Carries
      <4> QED BY <1>1, <4>1, <4>2, <4>3, <4>4 DEF WorkType
    <3> QED BY <2>3, <2>5, <3>1 DEF Refused
  <2> QED BY <1>2, <2>1, <2>2, <2>3, <2>4, <2>5
<1>3. CASE HoldRead(w) \/ HoldCommit(w) \/ HoldAgain(w) \/ MakeRow(w)
  BY <1>1, <1>2, <1>3 DEF HoldRead, HoldCommit, HoldAgain, MakeRow, Others
<1>4. CASE Ask(w)
  BY <1>1, <1>2, <1>4 DEF Ask, Hears, Others
<1>5. CASE Move(w)
  BY <1>1, <1>2, <1>5 DEF Move, Others
<1>6. CASE Merge(w)
  BY <1>1, <1>2, <1>6 DEF Merge, Others
<1>7. CASE Decide(w)
  BY <1>1, <1>7 DEF Decide, Settles, Others
<1>8. CASE FollowRead(w) \/ WriteTotal(w) \/ MarkRow(w) \/ FlagPast(w) \/ Check(w)
  BY <1>1, <1>2, <1>8 DEF FollowRead, WriteTotal, MarkRow, FlagPast, Check, Others
<1> QED BY <1>3, <1>4, <1>5, <1>6, <1>7, <1>8 DEF Step

\* Every step keeps what the record and the marks say of each other.
LEMMA NextAgrees ==
  ASSUME IInv, AgreeInv, FollowsAlone, "crash" \notin Events \/ MaxFaults <= 1, [Next]_vars
  PROVE  AgreeInv'
<1>1. CASE UNCHANGED <<row, work, recorded, shown, faults>>
  BY <1>1 DEF AgreeInv, MarksFit, Sees, Aware, Unmarked, Standing, Done, Undo, Shown
<1>2. CASE (\E d \in Desk : MakeAtDesk(d)) \/ (\E p \in Refs : Progress(p)) \/ UNCHANGED vars
  <2>1. UNCHANGED <<row, work, recorded, shown, faults>>
    BY <1>2 DEF MakeAtDesk, Progress, vars
  <2> QED BY <1>1, <2>1
<1>3. ASSUME NEW w \in Workers, NEW k \in Keys, Request(w, k) PROVE AgreeInv'
  <2>1. Others(w)
    BY <1>3 DEF Request, Others, IInv, TypeOK
  <2> QED BY <1>3, <2>1, RequestAgrees
<1>4. ASSUME NEW w \in Workers, NEW r \in Rows, Settle(w, r) PROVE AgreeInv'
  <2>1. Others(w)
    BY <1>4 DEF Settle, Settles, Others, IInv, TypeOK
  <2> QED BY <1>4, <2>1, SettleAgrees DEF Settle
<1>5. ASSUME NEW w \in Workers, NEW p \in Refs, Event(w, p) PROVE AgreeInv'
  <2>1. Others(w)
    BY <1>5 DEF Event, Settles, Others, IInv, TypeOK
  <2> QED BY <1>5, <2>1, EventAgrees
<1>6. ASSUME NEW w \in Workers, RecordPayment(w) \/ Crash(w) PROVE AgreeInv'
  <2>1. Others(w)
    BY <1>6 DEF RecordPayment, Crash, Throws, Others, IInv, TypeOK
  <2> QED BY <1>6, <2>1, RecordPaymentAgrees, CrashAgrees
<1>7. ASSUME NEW w \in Workers, Step(w) PROVE AgreeInv'
  <2>1. Others(w)
    BY <1>7, OneSteps
  <2> QED BY <1>7, <2>1, HoldReadAgrees, HoldCommitAgrees, HoldAgainAgrees, MakeRowAgrees, AskAgrees, MoveAgrees, MergeAgrees,
             DecideAgrees, FollowReadAgrees, WriteTotalAgrees, MarkRowAgrees, FlagPastAgrees, CheckAgrees DEF Step
<1> QED BY <1>2, <1>3, <1>4, <1>5, <1>6, <1>7 DEF Next

\* Nothing is shown and nothing is marked at first.
LEMMA InitAgrees == Init => AgreeInv
<1> SUFFICES ASSUME Init PROVE AgreeInv
  OBVIOUS
<1>1. \A r \in Rows : MarksFit(r)
  BY DEF Init, MarksFit, NoRow
<1>2. \A w \in Workers : Sees(w)
  BY DEF Init, Sees, NoWork
<1>3. Standing = {}
  BY DEF Init, Standing, NoRow
<1>4. SumOf({}) = 0
  BY SumOfIsSum, SumEmpty
<1>5. shown = Shown(Standing)
  BY <1>3, <1>4, RefundAssumption DEF Init, Shown
<1> QED BY <1>1, <1>2, <1>5 DEF AgreeInv

\* What the record and the marks say of each other is enough.
LEMMA AgreeEnough == AgreeInv => RecordAgrees
<1> SUFFICES ASSUME AgreeInv, \A w \in Workers : work[w].step = "idle", \A r \in Rows : ~Behind(r) /\ ~row[r].more
             PROVE  shown = Shown(Done)
  BY DEF RecordAgrees, Done
<1>1. \A r \in Rows : MarksFit(r)
  BY DEF AgreeInv
<1>2. Done \ Standing = {} /\ Undo = {}
  BY <1>1 DEF Behind, Done, Standing, Undo, MarksFit
<1>3. shown = Shown(Standing)
  BY <1>2 DEF AgreeInv, Unmarked, OnTheWay
<1> QED BY <1>1, <1>3, <1>2, AllMarked

\* The record ends at what stands refunded, whatever answers are lost, whatever the
\* provider refuses or takes back, and however often the record cannot be written,
\* among workers of which no two follow at once, when none dies or there is one
\* fault of whatever kind.
THEOREM RecordComesToAgree ==
  ASSUME "crash" \notin Events \/ MaxFaults <= 1
  PROVE  Spec => RecordFollows
<1>1. IInv /\ AgreeInv /\ FollowsAlone /\ [Next]_vars => AgreeInv'
  BY NextAgrees
<1>2. Spec => []IInv
  BY Invariant
<1>3. Spec => ([]FollowsAlone => []RecordAgrees)
  BY <1>1, <1>2, InitAgrees, AgreeEnough, PTL DEF Spec
<1> QED BY <1>3 DEF RecordFollows
=============================================================================
