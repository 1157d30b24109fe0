SPECIFICATION Spec
CONSTANTS
  Runs = {1, 2}
  Workers = {w1, w2}
  NoWorker = NoWorker
  NoRun = NoRun
  Modes = {"write", "analyze"}
  TimelyLeases = TRUE
  FaultKinds = {"crash", "database"}
  MaxFaults = 1
SYMMETRY WorkerSymmetry
INVARIANTS AtMostOneExecutor ReviewedFilesAreQuiet AwaitingReviewIsPublishable
PROPERTIES OwnerSettles
CHECK_DEADLOCK FALSE
