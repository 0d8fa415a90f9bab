SPECIFICATION Spec
CONSTANTS
  w1 = w1
  w2 = w2
  d1 = d1
  d2 = d2
  d3 = d3
  Writers = {w1, w2}
  Deliveries = {d1, d2, d3}
  None = None
  Ttl = 1
  Tries = 2
  MaxRows = 2
  MaxNow = 4
  MaxOps = 3
  MaxFaults = 2
SYMMETRY Symmetry
CHECK_DEADLOCK FALSE
INVARIANTS TypeOK RecordedRowsStay
PROPERTIES RefusalStays
