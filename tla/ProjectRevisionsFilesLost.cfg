SPECIFICATION Spec
CONSTANTS
  Paths = {p, q}
  Runs = {r1, r2}
  Reviews = {v1, v2, v3}
  Edits = {}
  Root = Root
  None = None
  FaultKinds = {"database"}
  MaxFaults = 1
SYMMETRY IdSymmetry
CHECK_DEADLOCK FALSE
PROPERTIES FailedPublishKeepsFiles
