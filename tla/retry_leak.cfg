SPECIFICATION Spec
CONSTANTS
  Runs = {r1}
  Folders = {f1}
  Deliveries = {d1}
  None = None
  Windows = {1}
  Margin = 1
  MaxTries = 0
  MaxNow = 4
  MaxFaults = 0
CHECK_DEADLOCK FALSE
INVARIANTS
  SuccessReleasesEveryLock
