CONSTANTS
  NumObjects = 4
  Capacity = 4
SPECIFICATION Spec
INVARIANTS TypeOK NoDuplicates ScanVisitsAll
PROPERTY RingImplementsFifo
