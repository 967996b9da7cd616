SPECIFICATION Spec
CONSTANTS
  People <- TwoPeople
  Batches = {j1, j2}
  j1 = j1
  j2 = j2
  NoBatch = NoBatch
  BatchMax = 1
  Events = {"crash", "cut", "dead", "abort", "cap", "refuse", "giveup", "notice", "pause", "stop", "slow", "lost"}
INVARIANTS TypeOK NeverLost AtMostOnce HandedIsMarked
PROPERTIES ImplementsPromise
SYMMETRY BatchIds
\* A run ends, and so does everything else: the model may stop.
CHECK_DEADLOCK FALSE
