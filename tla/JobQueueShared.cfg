SPECIFICATION Spec
CONSTANTS
  Jobs = {j1, j2}
  Workers = {w1, w2}
  Keys = {k}
  NoKey = NoKey
  Nobody = Nobody
  MaxAttempts = 2
  Concurrency = 2
  StaleTicks = 1
  BackoffTicks = 1
  AttemptCap = 3
  Faults = {"crash", "cut"}
SYMMETRY JobsAndWorkers
INVARIANTS OneLiveRun KeysAreActive TriesAccounted
PROPERTIES ImplementsLifecycle
