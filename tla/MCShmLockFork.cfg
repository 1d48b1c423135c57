CONSTANTS
  p1 = p1
  p2 = p2
  p3 = p3
  Procs = {p1, p2, p3}
  Nobody = Nobody
  CtxPid <- ForkedPid
  DetectClocks = 1
  CrashPoints <- Anywhere
  MaxFileFaults = 1
SPECIFICATION Spec
CHECK_DEADLOCK FALSE
INVARIANT MutualExclusion
