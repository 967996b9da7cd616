SPECIFICATION Spec
CONSTANTS
  People <- TwoPeople
  Batches = {j1, j2, j3}
  j1 = j1
  j2 = j2
  j3 = j3
  NoBatch = NoBatch
  BatchMax = 1
  Events = {"pause", "early"}
INVARIANTS NeverLost
SYMMETRY BatchIds
\* A run ends, and so does everything else: the model may stop.
CHECK_DEADLOCK FALSE
