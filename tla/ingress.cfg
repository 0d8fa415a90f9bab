SPECIFICATION Spec
CONSTANTS
  read = read
  mutate = mutate
  invalid = invalid
  key = key
  w1 = w1
  w2 = w2
  c1 = c1
  c2 = c2
  Deliveries = {read, mutate, invalid}
  Command <- SomeCommand
  ApiKeys = {key}
  Workers = {w1, w2}
  Commits = {c1, c2}
  None = None
  Retention = 2
  MaxNow = 2
  MaxAttempts = 2
  MaxMoves = 1
  MaxFaults = 1
SYMMETRY Symmetry
CHECK_DEADLOCK FALSE
INVARIANTS TypeOK OneLiveRunPerKey ExecutionMatchesClaim AcknowledgedRunStarts
