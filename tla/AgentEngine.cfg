SPECIFICATION Spec
CONSTANTS
  None = None
  f1 = f1
  f2 = f2
  r1 = r1
  r2 = r2
  Files = {f1, f2}
  Records = {r1, r2}
  Required = {r1}
  Ends <- EndsOfRecords
  Cases <- CasesOfTheInstance
  MaxRejections = 1
  MaxCorrections = 1
  MaxDrops = 1
  MaxRefreshes = 2
CHECK_DEADLOCK FALSE
INVARIANTS ReviewShowsWorkspace KnowledgeReplays UnitsAreDelivered NoEventIsSkipped OutcomeIsShown
PROPERTIES StreamsEnd
