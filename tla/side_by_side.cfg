SPECIFICATION Spec
CONSTANTS
  f1 = f1
  f2 = f2
  Folders = {f1, f2}
  Step <- OneStep
  None = None
  ScopedPlans = FALSE
  MaxRetries = 0
  MaxFaults = 1
SYMMETRY FolderSymmetry
CHECK_DEADLOCK FALSE
INVARIANTS
  SucceededRunSucceededFolders
  ManifestDecides
