SPECIFICATION Spec
CONSTANTS
  None = None
  PR = PR
  Runs <- SomeRuns
  Outsized <- SomeNames
  MaxRetries = 1
  MaxFaults = 2
CHECK_DEADLOCK FALSE
INVARIANTS TypeOK RecordedManifestIsServed PlanMatchesItsSidecar CleanRunIsRecorded ServedIsListed
