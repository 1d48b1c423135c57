CONSTANTS
  p1 = p1
  p2 = p2
  a = a
  b = b
  Proc = {p1, p2}
  Layouts <- TheirLayouts
  LayoutOf <- ChangedMemory
  CheckedPart <- Checked
  Modes <- Initialisers
  MaxSegments <- CommonLimit
  MinSegments = 2
  Nobody = Nobody
  Killed = Killed
  PageSize = 4
  Mega = 8
  StripingUnit = 16
  MaxIndex = 3
  IntMax = 31
  ShortMax = 3
  HeaderSize = 3
  WordSize = 1
  AllocatorSize = 1
  EntrySize = 2
  Capacity <- PrimeCapacity
  Files <- ManyFiles
  Absent = Absent
  Malformed = Malformed
SPECIFICATION ChangedSpec
INVARIANT AgreedLayout
