CONSTANTS
  Keys = {k1, k2, k3}
  MaxVal = 2
  MaxNumber = 2
  SizeOf <- SizeIsValue
  StripingSize = 3
  StripingsPerSegment = 1
  SegmentSlack = 0
  MaxSegments = 2
  MaxKeyCount = 2
  MaxKeyValueSize <- NoHeader
  ValueLimits = {2}
  DiscardMemorySize = 0
  MaxFailTimes = 1
  AvgKeyTTL = 1
  RecycleKeyOnce = 1
  RecycleValidEntries = TRUE
  TTLs = {0, 1}
  MaxTime = 3
SPECIFICATION Spec
SYMMETRY Symmetry
INVARIANTS TypeOK NoOverlap UsedExact IndexesAgree QueuesSound
PROPERTY ImplementsFifoCache
