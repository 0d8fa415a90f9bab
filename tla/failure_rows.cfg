SPECIFICATION Spec
CONSTANTS
  f1 = f1
  f2 = f2
  Folders = {f1, f2}
  Step <- TwoSteps
  None = None
  ScopedPlans = FALSE
  MaxRetries = 1
  MaxFaults = 1
CHECK_DEADLOCK FALSE
INVARIANTS
  RowsAreIdentified
