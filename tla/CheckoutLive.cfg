\* One process of each kind, under fairness.
SPECIFICATION FairSpec
CONSTANTS
  Attempts = {a1, a2}
  Customers = {c1}
  Settlers = {s1}
  Recorders = {r1}
  NoAttempt = NoAttempt
  Owed = 1
  MaxTries = 1
  MaxFaults = 1
  Faults = {"crash", "unsaid", "refused", "failed", "rule", "dropped", "twice", "byhand", "other"}
PROPERTIES MoneyEnds MakingEnds ApprovedEnds
\* Everything may be paid, recorded and at rest.
CHECK_DEADLOCK FALSE
