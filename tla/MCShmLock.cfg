CONSTANTS
  p1 = p1
  p2 = p2
  p3 = p3
  Procs = {p1, p2, p3}
  Nobody = Nobody
  CtxPid <- OwnPid
  DetectClocks = 0
  CrashPoints <- Anywhere
  MaxFileFaults = 1
SPECIFICATION FairSpec
CHECK_DEADLOCK FALSE
INVARIANTS TypeOK MutualExclusion NoTornTable
PROPERTIES OnlyTheDeadAreRobbed AutoUnlockUnlessOrphaned
