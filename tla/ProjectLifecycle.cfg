SPECIFICATION Spec
CONSTANTS
  Callers = {c1, c2}
  Projects = {p1}
  Procs = {1, 2, 3}
  None = None
  Root = Root
  FaultKinds <- FaultsOfARun
  MaxFaults = 2
CHECK_DEADLOCK FALSE
INVARIANTS AnswersBelongToTheLock ReplacedProcessesShutDown ProjectsAreComplete NothingIsLeftBehind
PROPERTIES MemoryStoreSpec CallsEnd
