SPECIFICATION FairSpec
CONSTANTS
  Runs = {1, 2}
  Workers = {w1}
  NoWorker = NoWorker
  NoRun = NoRun
  Modes = {"analyze"}
  TimelyLeases = FALSE
  FaultKinds = {"crash", "database"}
  MaxFaults = 2
PROPERTIES OrphanIsReclaimed CancelTakesEffect
CHECK_DEADLOCK FALSE
