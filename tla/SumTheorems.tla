---------------------------- MODULE SumTheorems ----------------------------
(***************************************************************************)
(* Facts about sums over finite sets, the community modules' fold of a     *)
(* function with +.  The fold picks the elements of a set in an order of   *)
(* its own; that it exists, and that one element more is that much more,   *)
(* is shown here by the least set that would be an exception.              *)
(***************************************************************************)
EXTENDS Integers, FiniteSetsExt, FiniteSetTheorems, TLAPS

\* The sum of what f gives for the elements of S.
Sum(f, S) == MapThenSumSet(LAMBDA x : f[x], S)

\* The element a fold takes first, and what the fold is of each subset of S.
Pick(s) == CHOOSE x \in s : TRUE
Folds(f, g, S) == g = [s \in SUBSET S |-> IF s = {} THEN 0 ELSE f[Pick(s)] + g[s \ {Pick(s)}]]
Fold(f, S) == CHOOSE g : Folds(f, g, S)

-----------------------------------------------------------------------------
(* The fold exists *)

\* What is picked of a set is in it.
LEMMA Picked == ASSUME NEW s, s # {} PROVE Pick(s) \in s
BY DEF Pick

\* The sum is the fold's value for the whole set.
LEMMA SumIsFold == ASSUME NEW f, NEW S PROVE Sum(f, S) = Fold(f, S)[S]
BY DEF Sum, Fold, Folds, Pick, MapThenSumSet, MapThenFoldSet

\* Of a set of finite sets that is not empty one has no other of it within.
LEMMA LeastSet ==
  ASSUME NEW S, IsFiniteSet(S), NEW Odd, Odd \subseteq SUBSET S, Odd # {}
  PROVE  \E s \in Odd : \A t \in Odd : t \subseteq s => t = s
<1>1. FiniteSubsetsOf(S) = SUBSET S
  BY FS_FiniteSubsetsOfFinite
<1>2. IsWellFoundedOn(StrictSubsetOrdering(S), SUBSET S)
  BY <1>1, FS_StrictSubsetOrderingWellFounded
<1>3. PICK s \in Odd : \A t \in Odd : <<t, s>> \notin StrictSubsetOrdering(S)
  BY <1>2, WFMin
<1>4. ASSUME NEW t \in Odd, t \subseteq s, t # s PROVE FALSE
  BY <1>3, <1>4 DEF StrictSubsetOrdering
<1> QED BY <1>4

\* Two folds agree where both are defined.
LEMMA FoldsAgree ==
  ASSUME NEW f, NEW S, IsFiniteSet(S), NEW T, NEW g, NEW h,
         Folds(f, g, S), Folds(f, h, T), S \subseteq T
  PROVE  \A s \in SUBSET S : g[s] = h[s]
<1> DEFINE Odd == { s \in SUBSET S : g[s] # h[s] }
<1>1. SUFFICES ASSUME Odd # {} PROVE FALSE
  OBVIOUS
<1>2. PICK s \in Odd : \A t \in Odd : t \subseteq s => t = s
  <2>1. Odd \subseteq SUBSET S
    OBVIOUS
  <2> HIDE DEF Odd
  <2> QED BY <1>1, <2>1, LeastSet
<1>3. s \subseteq S /\ s \subseteq T /\ g[s] # h[s]
  BY <1>2
<1>4. g[s] = IF s = {} THEN 0 ELSE f[Pick(s)] + g[s \ {Pick(s)}]
  BY <1>3 DEF Folds
<1>5. h[s] = IF s = {} THEN 0 ELSE f[Pick(s)] + h[s \ {Pick(s)}]
  BY <1>3 DEF Folds
<1>6. s # {}
  BY <1>3, <1>4, <1>5
<1>7. g[s \ {Pick(s)}] = h[s \ {Pick(s)}]
  BY <1>2, <1>3, <1>6, Picked
<1> QED BY <1>3, <1>4, <1>5, <1>7

\* A fold of a set holds one of each of its subsets.
LEMMA FoldExists == ASSUME NEW f, NEW S, IsFiniteSet(S) PROVE Folds(f, Fold(f, S), S)
<1> DEFINE Odd == { s \in SUBSET S : ~Folds(f, Fold(f, s), s) }
<1>1. SUFFICES ASSUME Odd # {} PROVE FALSE
  <2>1. S \in SUBSET S
    OBVIOUS
  <2> QED BY <2>1
<1>2. PICK s \in Odd : \A t \in Odd : t \subseteq s => t = s
  <2>1. Odd \subseteq SUBSET S
    OBVIOUS
  <2> HIDE DEF Odd
  <2> QED BY <1>1, <2>1, LeastSet
<1>3. s \in SUBSET S /\ ~Folds(f, Fold(f, s), s)
  BY <1>2
<1>4. ASSUME NEW t, t \subseteq s, t # s PROVE Folds(f, Fold(f, t), t) /\ IsFiniteSet(t)
  BY <1>2, <1>3, <1>4, FS_Subset
<1> DEFINE Of(t) == IF t = {} THEN 0 ELSE f[Pick(t)] + Fold(f, t \ {Pick(t)})[t \ {Pick(t)}]
           h == [t \in SUBSET s |-> Of(t)]
<1>5. ASSUME NEW t, t \subseteq s, t # s PROVE Fold(f, t)[t] = Of(t)
  <2>1. Folds(f, Fold(f, t), t)
    BY <1>4, <1>5
  <2> DEFINE u == t \ {Pick(t)}
  <2>2. CASE t = {}
    BY <2>1, <2>2 DEF Folds
  <2>3. CASE t # {}
    <3>1. u \subseteq s /\ u # s /\ u \subseteq t
      BY <1>5
    <3>2. Folds(f, Fold(f, u), u) /\ IsFiniteSet(u)
      BY <1>4, <3>1
    <3>3. \A v \in SUBSET u : Fold(f, u)[v] = Fold(f, t)[v]
      BY <2>1, <3>1, <3>2, FoldsAgree
    <3>4. Fold(f, t)[t] = f[Pick(t)] + Fold(f, t)[u]
      <4> HIDE DEF u
      <4>1. t \in SUBSET t
        OBVIOUS
      <4>2. u = t \ {Pick(t)}
        BY DEF u
      <4> QED BY <2>1, <2>3, <4>1, <4>2 DEF Folds
    <3>5. u \in SUBSET u
      OBVIOUS
    <3> QED BY <2>3, <3>3, <3>4, <3>5
  <2> QED BY <2>2, <2>3
<1>6. Folds(f, h, s)
  <2>1. ASSUME NEW t \in SUBSET s PROVE Of(t) = IF t = {} THEN 0 ELSE f[Pick(t)] + h[t \ {Pick(t)}]
    <3>1. CASE t # {}
      <4> DEFINE u == t \ {Pick(t)}
      <4>1. u \in SUBSET s /\ u # s
        BY <3>1, Picked
      <4>2. h[u] = Of(u)
        BY <4>1
      <4>3. Fold(f, u)[u] = Of(u)
        BY <1>5, <4>1
      <4> QED BY <3>1, <4>2, <4>3
    <3> QED BY <3>1
  <2> QED BY <2>1 DEF Folds
<1>7. Folds(f, Fold(f, s), s)
  BY <1>6 DEF Fold
<1> QED BY <1>3, <1>7

-----------------------------------------------------------------------------
(* What a sum is *)

\* Nothing sums up to nothing.
THEOREM SumEmpty == ASSUME NEW f PROVE Sum(f, {}) = 0
<1>1. Folds(f, Fold(f, {}), {})
  BY FS_EmptySet, FoldExists
<1> QED BY <1>1, SumIsFold DEF Folds

\* A sum is what is picked first and the sum of the rest.
LEMMA SumPicked ==
  ASSUME NEW f, NEW S, IsFiniteSet(S), S # {}
  PROVE  Sum(f, S) = f[Pick(S)] + Sum(f, S \ {Pick(S)})
<1> DEFINE R == S \ {Pick(S)}
<1>1. R \in SUBSET S /\ IsFiniteSet(R) /\ S \in SUBSET S /\ R \in SUBSET R
  BY FS_Subset
<1>2. Folds(f, Fold(f, S), S) /\ Folds(f, Fold(f, R), R)
  BY <1>1, FoldExists
<1>3. Fold(f, R)[R] = Fold(f, S)[R]
  <2> HIDE DEF R
  <2> QED BY <1>1, <1>2, FoldsAgree
<1>4. Fold(f, S)[S] = f[Pick(S)] + Fold(f, S)[R]
  BY <1>1, <1>2 DEF Folds
<1> QED BY <1>3, <1>4, SumIsFold

\* A sum of natural numbers is one.
THEOREM SumNatural ==
  ASSUME NEW f, NEW S, IsFiniteSet(S), \A x \in S : f[x] \in Nat
  PROVE  Sum(f, S) \in Nat
<1> DEFINE Odd == { s \in SUBSET S : Sum(f, s) \notin Nat }
<1>1. SUFFICES ASSUME Odd # {} PROVE FALSE
  <2>1. S \in SUBSET S
    OBVIOUS
  <2> QED BY <2>1
<1>2. PICK s \in Odd : \A t \in Odd : t \subseteq s => t = s
  <2>1. Odd \subseteq SUBSET S
    OBVIOUS
  <2> HIDE DEF Odd
  <2> QED BY <1>1, <2>1, LeastSet
<1>3. s \in SUBSET S /\ Sum(f, s) \notin Nat /\ IsFiniteSet(s)
  BY <1>2, FS_Subset
<1>4. s # {}
  BY <1>3, SumEmpty
<1>5. Pick(s) \in s
  BY <1>4, Picked
<1>6. Sum(f, s \ {Pick(s)}) \in Nat
  <2>1. s \ {Pick(s)} \in SUBSET S /\ s \ {Pick(s)} \subseteq s /\ s \ {Pick(s)} # s
    BY <1>3, <1>5
  <2> QED BY <1>2, <2>1
<1>7. f[Pick(s)] \in Nat
  BY <1>3, <1>5
<1>8. Sum(f, s) = f[Pick(s)] + Sum(f, s \ {Pick(s)})
  BY <1>3, <1>4, SumPicked
<1> QED BY <1>3, <1>6, <1>7, <1>8

\* One element less is that much less, whichever it is.
THEOREM SumWithout ==
  ASSUME NEW f, NEW S, IsFiniteSet(S), \A x \in S : f[x] \in Nat, NEW e \in S
  PROVE  Sum(f, S) = f[e] + Sum(f, S \ {e})
<1> DEFINE Odd == { s \in SUBSET S : \E x \in s : Sum(f, s) # f[x] + Sum(f, s \ {x}) }
<1>1. SUFFICES ASSUME Odd # {} PROVE FALSE
  <2>1. S \in SUBSET S
    OBVIOUS
  <2> QED BY <2>1
<1>2. PICK s \in Odd : \A t \in Odd : t \subseteq s => t = s
  <2>1. Odd \subseteq SUBSET S
    OBVIOUS
  <2> HIDE DEF Odd
  <2> QED BY <1>1, <2>1, LeastSet
<1>3. s \in SUBSET S /\ IsFiniteSet(s)
  BY <1>2, FS_Subset
<1>4. PICK x \in s : Sum(f, s) # f[x] + Sum(f, s \ {x})
  BY <1>2
<1> DEFINE p == Pick(s)
<1>5. s # {} /\ p \in s
  BY <1>4, Picked
<1>6. Sum(f, s) = f[p] + Sum(f, s \ {p})
  BY <1>3, <1>5, SumPicked
<1>7. x # p
  BY <1>4, <1>6
<1>8. ASSUME NEW t \in SUBSET s, t # s, NEW y \in t PROVE Sum(f, t) = f[y] + Sum(f, t \ {y})
  BY <1>2, <1>3, <1>8
<1> HIDE DEF p
<1>9. Sum(f, s \ {p}) = f[x] + Sum(f, (s \ {p}) \ {x})
  <2>1. s \ {p} \in SUBSET s /\ s \ {p} # s /\ x \in s \ {p}
    BY <1>4, <1>5, <1>7
  <2> QED BY <1>8, <2>1
<1>10. Sum(f, s \ {x}) = f[p] + Sum(f, (s \ {x}) \ {p})
  <2>1. s \ {x} \in SUBSET s /\ s \ {x} # s /\ p \in s \ {x}
    BY <1>4, <1>5, <1>7
  <2> QED BY <1>8, <2>1
<1>11. (s \ {p}) \ {x} = (s \ {x}) \ {p}
  OBVIOUS
<1>12. f[x] \in Nat /\ f[p] \in Nat /\ Sum(f, (s \ {p}) \ {x}) \in Nat
  <2>1. (s \ {p}) \ {x} \in SUBSET S
    BY <1>3
  <2>2. IsFiniteSet((s \ {p}) \ {x}) /\ \A y \in (s \ {p}) \ {x} : f[y] \in Nat
    BY <2>1, FS_Subset
  <2> QED BY <1>3, <1>4, <1>5, <2>2, SumNatural
<1>13. f[p] + Sum(f, s \ {p}) = f[x] + Sum(f, s \ {x})
  <2>1. Sum(f, s \ {x}) = f[p] + Sum(f, (s \ {p}) \ {x})
    BY <1>10, <1>11
  <2>2. \A a, b, c \in Nat : a + (b + c) = b + (a + c)
    OBVIOUS
  <2>3. f[p] + (f[x] + Sum(f, (s \ {p}) \ {x})) = f[x] + (f[p] + Sum(f, (s \ {p}) \ {x}))
    BY <1>12, <2>2
  <2> QED BY <1>9, <2>1, <2>3
<1> QED BY <1>4, <1>6, <1>13

\* One element more is that much more.
THEOREM SumWith ==
  ASSUME NEW f, NEW S, IsFiniteSet(S), NEW e, e \notin S, \A x \in S \cup {e} : f[x] \in Nat
  PROVE  Sum(f, S \cup {e}) = Sum(f, S) + f[e]
<1>1. IsFiniteSet(S \cup {e}) /\ e \in S \cup {e}
  BY FS_AddElement
<1>2. (S \cup {e}) \ {e} = S
  OBVIOUS
<1>3. Sum(f, S \cup {e}) = f[e] + Sum(f, S)
  BY <1>1, <1>2, SumWithout
<1> QED BY <1>3, SumNatural

\* More elements sum up to no less.
THEOREM SumGrows ==
  ASSUME NEW f, NEW S, IsFiniteSet(S), \A x \in S : f[x] \in Nat, NEW T, T \subseteq S
  PROVE  Sum(f, T) <= Sum(f, S)
<1> DEFINE Odd == { s \in SUBSET S : T \subseteq s /\ ~(Sum(f, T) <= Sum(f, s)) }
<1>1. SUFFICES ASSUME Odd # {} PROVE FALSE
  <2>1. S \in SUBSET S
    OBVIOUS
  <2> QED BY <2>1
<1>2. PICK s \in Odd : \A t \in Odd : t \subseteq s => t = s
  <2>1. Odd \subseteq SUBSET S
    OBVIOUS
  <2> HIDE DEF Odd
  <2> QED BY <1>1, <2>1, LeastSet
<1>3. s \in SUBSET S /\ T \subseteq s /\ ~(Sum(f, T) <= Sum(f, s)) /\ IsFiniteSet(s) /\ IsFiniteSet(T)
  BY <1>2, FS_Subset
<1>4. Sum(f, T) \in Nat /\ Sum(f, s) \in Nat
  BY <1>3, SumNatural
<1>5. PICK e \in s : e \notin T
  BY <1>3, <1>4
<1> DEFINE r == s \ {e}
<1>6. r \in SUBSET S /\ T \subseteq r /\ r \subseteq s /\ r # s /\ IsFiniteSet(r)
  BY <1>3, <1>5, FS_Subset
<1> HIDE DEF r
<1>7. Sum(f, T) <= Sum(f, r)
  BY <1>2, <1>6
<1>8. Sum(f, s) = f[e] + Sum(f, r) /\ Sum(f, r) \in Nat /\ f[e] \in Nat
  BY <1>3, <1>5, <1>6, SumWithout, SumNatural DEF r
<1> QED BY <1>3, <1>4, <1>7, <1>8

\* Functions that give the same for every element have the same sum.
THEOREM SumSame ==
  ASSUME NEW f, NEW g, NEW S, IsFiniteSet(S), \A x \in S : f[x] \in Nat /\ g[x] = f[x]
  PROVE  Sum(f, S) = Sum(g, S)
<1> DEFINE Odd == { s \in SUBSET S : Sum(f, s) # Sum(g, s) }
<1>1. SUFFICES ASSUME Odd # {} PROVE FALSE
  <2>1. S \in SUBSET S
    OBVIOUS
  <2> QED BY <2>1
<1>2. PICK s \in Odd : \A t \in Odd : t \subseteq s => t = s
  <2>1. Odd \subseteq SUBSET S
    OBVIOUS
  <2> HIDE DEF Odd
  <2> QED BY <1>1, <2>1, LeastSet
<1>3. s \in SUBSET S /\ Sum(f, s) # Sum(g, s) /\ IsFiniteSet(s)
  BY <1>2, FS_Subset
<1>4. s # {}
  BY <1>3, SumEmpty
<1>5. Pick(s) \in s
  BY <1>4, Picked
<1>6. Sum(f, s \ {Pick(s)}) = Sum(g, s \ {Pick(s)})
  <2>1. s \ {Pick(s)} \in SUBSET S /\ s \ {Pick(s)} \subseteq s /\ s \ {Pick(s)} # s
    BY <1>3, <1>5
  <2> QED BY <1>2, <2>1
<1>7. /\ Sum(f, s) = f[Pick(s)] + Sum(f, s \ {Pick(s)})
      /\ Sum(g, s) = g[Pick(s)] + Sum(g, s \ {Pick(s)})
  BY <1>3, <1>4, SumPicked
<1>8. g[Pick(s)] = f[Pick(s)]
  BY <1>3, <1>5
<1> QED BY <1>3, <1>6, <1>7, <1>8

\* When what one element gives changes, the sum changes by as much.
THEOREM SumChanged ==
  ASSUME NEW f, NEW g, NEW S, IsFiniteSet(S), \A x \in S : f[x] \in Nat /\ g[x] \in Nat,
         NEW e \in S, \A x \in S \ {e} : g[x] = f[x]
  PROVE  Sum(g, S) + f[e] = Sum(f, S) + g[e]
<1>1. Sum(f, S) = f[e] + Sum(f, S \ {e})
  BY SumWithout
<1>2. Sum(g, S) = g[e] + Sum(g, S \ {e})
  BY SumWithout
<1>3. IsFiniteSet(S \ {e})
  BY FS_Subset
<1>4. Sum(f, S \ {e}) = Sum(g, S \ {e})
  BY <1>3, SumSame
<1>5. Sum(f, S \ {e}) \in Nat
  BY <1>3, SumNatural
<1>6. f[e] \in Nat /\ g[e] \in Nat
  OBVIOUS
<1> HIDE DEF Sum
<1>7. \A a, b, c \in Nat : (a + b) + c = (c + b) + a
  OBVIOUS
<1> QED BY <1>1, <1>2, <1>4, <1>5, <1>6, <1>7

\* What one element gives is no more than the sum.
THEOREM SumHasEach ==
  ASSUME NEW f, NEW S, IsFiniteSet(S), \A x \in S : f[x] \in Nat, NEW e \in S
  PROVE  f[e] <= Sum(f, S)
<1>1. Sum(f, S) = f[e] + Sum(f, S \ {e})
  BY SumWithout
<1>2. IsFiniteSet(S \ {e})
  BY FS_Subset
<1>3. Sum(f, S \ {e}) \in Nat /\ f[e] \in Nat
  BY <1>2, SumNatural
<1> QED BY <1>1, <1>3

\* Nothing but zeroes sums up to zero.
THEOREM SumOfZeroes ==
  ASSUME NEW f, NEW S, IsFiniteSet(S), \A x \in S : f[x] = 0
  PROVE  Sum(f, S) = 0
<1> DEFINE Odd == { s \in SUBSET S : Sum(f, s) # 0 }
<1>1. SUFFICES ASSUME Odd # {} PROVE FALSE
  <2>1. S \in SUBSET S
    OBVIOUS
  <2> QED BY <2>1
<1>2. PICK s \in Odd : \A t \in Odd : t \subseteq s => t = s
  <2>1. Odd \subseteq SUBSET S
    OBVIOUS
  <2> HIDE DEF Odd
  <2> QED BY <1>1, <2>1, LeastSet
<1>3. s \in SUBSET S /\ Sum(f, s) # 0 /\ IsFiniteSet(s)
  BY <1>2, FS_Subset
<1>4. s # {}
  BY <1>3, SumEmpty
<1>5. Pick(s) \in s
  BY <1>4, Picked
<1>6. Sum(f, s \ {Pick(s)}) = 0
  <2>1. s \ {Pick(s)} \in SUBSET S /\ s \ {Pick(s)} \subseteq s /\ s \ {Pick(s)} # s
    BY <1>3, <1>5
  <2> QED BY <1>2, <2>1
<1>7. Sum(f, s) = f[Pick(s)] + Sum(f, s \ {Pick(s)})
  BY <1>3, <1>4, SumPicked
<1> QED BY <1>3, <1>5, <1>6, <1>7

\* Functions that give no more for any element have no greater sum.
THEOREM SumAtMost ==
  ASSUME NEW f, NEW g, NEW S, IsFiniteSet(S), \A x \in S : f[x] \in Nat /\ g[x] \in Nat /\ f[x] <= g[x]
  PROVE  Sum(f, S) <= Sum(g, S)
<1> DEFINE Odd == { s \in SUBSET S : ~(Sum(f, s) <= Sum(g, s)) }
<1>1. SUFFICES ASSUME Odd # {} PROVE FALSE
  <2>1. S \in SUBSET S
    OBVIOUS
  <2> QED BY <2>1
<1>2. PICK s \in Odd : \A t \in Odd : t \subseteq s => t = s
  <2>1. Odd \subseteq SUBSET S
    OBVIOUS
  <2> HIDE DEF Odd
  <2> QED BY <1>1, <2>1, LeastSet
<1>3. s \in SUBSET S /\ ~(Sum(f, s) <= Sum(g, s)) /\ IsFiniteSet(s)
  BY <1>2, FS_Subset
<1>4. s # {}
  BY <1>3, SumEmpty
<1>5. Pick(s) \in s
  BY <1>4, Picked
<1> DEFINE r == s \ {Pick(s)}
<1>6. r \in SUBSET S /\ r \subseteq s /\ r # s /\ IsFiniteSet(r)
  BY <1>3, <1>5, FS_Subset
<1>7. /\ Sum(f, s) = f[Pick(s)] + Sum(f, r)
      /\ Sum(g, s) = g[Pick(s)] + Sum(g, r)
  BY <1>3, <1>4, SumPicked
<1> HIDE DEF r
<1>8. Sum(f, r) <= Sum(g, r)
  BY <1>2, <1>6
<1>9. Sum(f, r) \in Nat /\ Sum(g, r) \in Nat
  BY <1>6, SumNatural
<1>10. f[Pick(s)] \in Nat /\ g[Pick(s)] \in Nat /\ f[Pick(s)] <= g[Pick(s)]
  BY <1>3, <1>5
<1> QED BY <1>3, <1>7, <1>8, <1>9, <1>10
=============================================================================
