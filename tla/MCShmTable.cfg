CONSTANTS
  k1 = k1
  k2 = k2
  k3 = k3
  Keys = {k1, k2, k3}
  Buckets = {1, 2}
  BucketOf <- Collide
  Mortal = {k1}
  Stripings = 2
  PerStriping = 2
  MaxKeyCount = 3
  Configs <- BothConfigs
  Sleeps = TRUE
  WithinLock = {FALSE, TRUE}
  Dumps <- OnePage
  Readers = {r1}
  Opening <- TwoKeys
  MaxOps = 6
  NoKey = NoKey
SPECIFICATION FairSpec
INVARIANTS TypeOK LinksAgree NoDirtyRead NoFalseMiss
PROPERTIES LinksImplementFifo GetEnds
CHECK_DEADLOCK FALSE
