\* Two of each, and no fault at all: a payable is paid twice and nobody is told.
SPECIFICATION Spec
CONSTANTS
  Attempts = {a1, a2}
  Customers = {c1, c2}
  Settlers = {s1, s2}
  Recorders = {r1, r2}
  NoAttempt = NoAttempt
  Owed = 1
  MaxTries = 0
  MaxFaults = 0
  Faults = {}
SYMMETRY Alike
INVARIANTS TwoAreNoticed
CHECK_DEADLOCK FALSE
