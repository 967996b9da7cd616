\* Two customers, a settle and two runs of the record job, with one fault of each kind.
SPECIFICATION Spec
CONSTANTS
  Attempts = {a1, a2}
  Customers = {c1, c2}
  Settlers = {s1}
  Recorders = {r1, r2}
  NoAttempt = NoAttempt
  Owed = 1
  MaxTries = 1
  MaxFaults = 1
  Faults = {"crash", "unsaid", "refused", "failed", "rule", "dropped", "twice", "byhand", "other"}
SYMMETRY Alike
INVARIANTS TakenIsFollowed StateTellsRow TwoAreNoticed
PROPERTIES ImplementsPromise
\* Everything may be paid, recorded and at rest.
CHECK_DEADLOCK FALSE
