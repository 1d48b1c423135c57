CONSTANTS
  k1 = k1
  k2 = k2
  k3 = k3
  k4 = k4
  k5 = k5
  k6 = k6
  k7 = k7
  k8 = k8
  k9 = k9
  Keys = {k1, k2, k3, k4, k5, k6, k7, k8, k9}
  MaxVal = 4
  MaxNumber = 0
  SizeOf <- SizeIsValue
  StripingSize = 5
  StripingsPerSegment = 5
  SegmentSlack = 3
  MaxSegments = 1
  MaxKeyCount = 10
  ValueLimits = {3, 4}
  MaxKeyValueSize <- NoHeader
  DiscardMemorySize = 0
  MaxFailTimes = 20
  AvgKeyTTL = 0
  RecycleKeyOnce = 0
  RecycleValidEntries = FALSE
  TTLs = {0}
  MaxTime = 1
  MaxRequests = 2
SPECIFICATION CrowdedSpec
CHECK_DEADLOCK FALSE
INVARIANT MemorySound
PROPERTIES OperationEnds FifoUnlessOutOfRoom
