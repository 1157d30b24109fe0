SPECIFICATION Spec
CONSTANTS
  Runs = {1}
  Workers = {w1, w2}
  NoWorker = NoWorker
  NoRun = NoRun
  Modes = {"write", "analyze"}
  TimelyLeases = FALSE
  FaultKinds = {"crash", "event", "database", "commit"}
  MaxFaults = 2
SYMMETRY WorkerSymmetry
INVARIANTS TypeOK RunningIsRecoverable
PROPERTIES SettledNeverReexecuted OutcomesStand
CHECK_DEADLOCK FALSE
