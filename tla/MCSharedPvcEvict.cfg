SPECIFICATION Spec
CONSTANTS
  p1 = p1
  Pods = {p1}
  TTL = 1
  MaxFaults = 0
  MaxLives = 1
INVARIANT RunningHasModel
INVARIANT ReadyMeansWhole
PROPERTY EvictedUntilAsked
PROPERTY ImplementsModel
