SPECIFICATION FairSpec
CONSTANTS
  People <- TwoPeople
  Batches = {j1, j2}
  j1 = j1
  j2 = j2
  NoBatch = NoBatch
  BatchMax = 1
  Events = {"abort", "giveup", "notice", "pause"}
INVARIANTS CountsMatch RunningHasHead
PROPERTIES RunEnds
\* A run ends, and so does everything else: the model may stop.
CHECK_DEADLOCK FALSE
