SPECIFICATION FairSpec
CONSTANTS
  Pods = {}
  TTL = 1
  MaxFaults = 1
  MaxLives = 1
INVARIANT TypeOK
INVARIANT IInv
PROPERTY UnusedCacheEvicted
