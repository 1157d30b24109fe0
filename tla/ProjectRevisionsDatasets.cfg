SPECIFICATION Spec
CONSTANTS
  Paths = {p}
  Runs = {r1, r2}
  Reviews = {v1, v2, v3}
  Edits = {e1}
  Root = Root
  None = None
  FaultKinds = {"memory", "git", "push", "database", "event", "cancel"}
  MaxFaults = 1
SYMMETRY IdSymmetry
CHECK_DEADLOCK FALSE
INVARIANTS DatasetsExist NoOrphanDatasets
