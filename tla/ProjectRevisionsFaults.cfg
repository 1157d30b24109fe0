SPECIFICATION Spec
CONSTANTS
  Paths = {p}
  Runs = {r1, r2}
  Reviews = {v1, v2}
  Edits = {e1}
  Root = Root
  None = None
  FaultKinds = {"memory", "remember", "forget", "git", "push", "database", "answer", "crash", "event", "cancel", "hang"}
  MaxFaults = 3
SYMMETRY IdSymmetry
CHECK_DEADLOCK FALSE
INVARIANTS TypeOK RevisionsFormALine CompletedRunsArePublished
PROPERTIES PublicationSpec
