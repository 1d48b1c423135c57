CONSTANTS
  Keys = {k1, k2, k3}
  MaxVal = 2
  MaxNumber = 0
  SizeOf <- SizeIsValue
  StripingSize = 3
  StripingsPerSegment = 1
  SegmentSlack = 2
  MaxSegments = 2
  MaxKeyCount = 2
  ValueLimits = {2}
  MaxKeyValueSize <- NoHeader
  DiscardMemorySize = 0
  MaxFailTimes = 1
  AvgKeyTTL = 2
  RecycleKeyOnce = 2
  RecycleValidEntries = FALSE
  TTLs = {0, 1}
  MaxTime = 3
SPECIFICATION Spec
SYMMETRY Symmetry
INVARIANT MemorySound
PROPERTY ImplementsFifoCache
