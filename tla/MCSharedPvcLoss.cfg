SPECIFICATION FairSpec
CONSTANTS
  Pods = {}
  TTL = 0
  MaxFaults = 1
  MaxLives = 1
PROPERTY BecomesReady
PROPERTY LossIsNoticed
PROPERTY DeletionCompletes
