SPECIFICATION ClockSpec
CONSTANTS
  Runs = {r1, r2}
  Folders = {f1}
  Deliveries = {}
  None = None
  Windows = {1}
  Margin = 0
  MaxTries = 0
  MaxNow = 3
  MaxFaults = 1
CHECK_DEADLOCK FALSE
INVARIANTS
  TypeOK
  WorkingRunHoldsItsLocks
  LiveLockIsIndexed
PROPERTIES
  ImplementsLease
  EveryFolderBecomesFree
