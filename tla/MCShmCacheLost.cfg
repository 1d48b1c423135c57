CONSTANTS
  Keys = {k1, k2, k3}
  MaxVal = 2
  MaxNumber = 0
  SizeOf <- SizeIsValue
  StripingSize = 3
  StripingsPerSegment = 2
  SegmentSlack = 0
  MaxSegments = 1
  MaxKeyCount = 3
  MaxKeyValueSize <- NoHeader
  ValueLimits = {2}
  DiscardMemorySize = 0
  MaxFailTimes = 1
  AvgKeyTTL = 0
  RecycleKeyOnce = 0
  RecycleValidEntries = FALSE
  TTLs = {0}
  MaxTime = 1
SPECIFICATION Spec
SYMMETRY Symmetry
INVARIANT NoStripingLost
