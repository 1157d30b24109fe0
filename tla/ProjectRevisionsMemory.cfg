SPECIFICATION Spec
CONSTANTS
  Paths = {p, q}
  Runs = {r1, r2}
  Reviews = {v1, v2}
  Edits = {e1, e2}
  Root = Root
  None = None
  FaultKinds = {"memory", "remember", "forget", "hang", "cancel"}
  MaxFaults = 1
SYMMETRY IdSymmetry
CHECK_DEADLOCK FALSE
INVARIANTS ProjectShowsActiveRevision RevisionIsReviewedChange
