SPECIFICATION FairSpec
CONSTANTS
  f1 = f1
  f2 = f2
  Folders = {f1, f2}
  Step <- TwoSteps
  None = None
  ScopedPlans = TRUE
  MaxRetries = 1
  MaxFaults = 2
CHECK_DEADLOCK FALSE
INVARIANTS
  TypeOK
  LaterStepsWait
  FinalizedRunIsRecorded
  SummaryIsLatestRow
PROPERTIES
  RecordsAreFinal
  RunEnds
