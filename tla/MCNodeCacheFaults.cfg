SPECIFICATION FairSpec
CONSTANTS
  f1 = f1
  f2 = f2
  p1 = p1
  Files = {f1, f2}
  Pods = {p1}
  TTL = 1
  MaxFaults = 1
INVARIANT TypeOK
INVARIANT IInv
INVARIANT DirectoryOwned
INVARIANT MarkerSound
INVARIANT ReadyNeverPartial
INVARIANT OnlyRemovalExposes
PROPERTY ImplementsLifecycle
PROPERTY PodServedOrHollow
PROPERTY DeletionCompletes
PROPERTY UnusedCacheEvicted
