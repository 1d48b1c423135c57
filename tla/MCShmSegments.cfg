CONSTANTS
  p1 = p1
  p2 = p2
  a = a
  b = b
  Proc = {p1, p2}
  Layouts = {a, b}
  LayoutOf <- TheirOwn
  CheckedPart <- Whole
  Modes <- AllCallers
  MaxSegments = 3
  MinSegments = 2
  Nobody = Nobody
  Killed = Killed
  PageSize = 4
  Mega = 8
  StripingUnit = 16
  MaxIndex = 3
  IntMax = 31
  ShortMax = 3
  HeaderSize = 3
  WordSize = 1
  AllocatorSize = 1
  EntrySize = 2
  Capacity <- PrimeCapacity
  Files <- ManyFiles
  Absent = Absent
  Malformed = Malformed
SPECIFICATION MCSpec
INVARIANTS TypeOK OneCreator UsableWhenReady CheckedAgree AreasFit MemoryBounded SegmentsTold EveryValueFits StripingsTold
PROPERTIES InitialisedOnce FileLockServed
