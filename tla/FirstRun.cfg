\* A process of the new version and one of the old, on each database; two faults,
\* and operators who save the role's grants on both.  The first migration asks.
SPECIFICATION FairSpec
CONSTANTS
  new = new
  old = old
  Processes = {new, old}
  Newest = 2
  Knows <- Versions
  Parts <- Statements
  Asks = {1}
  Grants <- Seeds
  Dialects = {"postgres", "mysql", "sqlite"}
  Nobody = Nobody
  Gone = Gone
  MaxFaults = 2
  MaxSaves = 3
  Events = {"crash", "throw", "timeout"}
INVARIANTS LedgerTells SurvivesRestart GetsWhatItSeeds
PROPERTIES ImplementsStore NewestServes
\* Everyone may be serving.
CHECK_DEADLOCK FALSE
