SPECIFICATION Spec
CONSTANTS
  r1 = r1
  r2 = r2
  a = a
  b = b
  c1 = c1
  c2 = c2
  Requests = {r1, r2}
  StepsOf <- SomeSteps
  Confirms = {a, b}
  Commits = {c1, c2}
  None = None
  Steps = 2
  Ttl = 1
  MaxNow = 2
  MaxPlans = 2
  MaxEvents = 1
SYMMETRY Symmetry
CHECK_DEADLOCK FALSE
INVARIANTS TypeOK AppliesPinnedPlan PlanSawPriorStep CheckpointsInOrder
PROPERTIES ImplementsOneUse
