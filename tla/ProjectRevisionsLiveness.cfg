SPECIFICATION FairSpec
CONSTANTS
  Paths = {p}
  Runs = {r1, r2}
  Reviews = {v1, v2}
  Edits = {e1}
  Root = Root
  None = None
  FaultKinds = {"memory", "remember", "forget", "git", "push", "database", "answer", "crash", "hang", "event", "cancel"}
  MaxFaults = 1
CHECK_DEADLOCK FALSE
PROPERTIES RequestsEnd
