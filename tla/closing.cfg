SPECIFICATION ClosingSpec
CONSTANTS
  Runs = {r1}
  Folders = {f1, f2}
  Deliveries = {d1}
  None = None
  Windows = {1}
  Margin = 1
  MaxTries = 1
  MaxNow = 4
  MaxFaults = 2
CHECK_DEADLOCK FALSE
INVARIANTS
  ClosedRunHoldsNothing
  SuccessKeepsOnlyRetriedLocks
PROPERTIES
  FailedRunLetsGo
