SPECIFICATION FairSpec
CONSTANTS
  Jobs = {j1}
  Workers = {w1, w2}
  Keys = {}
  NoKey = NoKey
  Nobody = Nobody
  MaxAttempts = 2
  Concurrency = 1
  StaleTicks = 1
  BackoffTicks = 1
  AttemptCap = 3
  Faults = {"crash", "stop", "late"}
PROPERTIES EveryJobEnds StopResolves CountedTriesWait 
