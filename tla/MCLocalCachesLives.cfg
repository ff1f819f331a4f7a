SPECIFICATION FairSpec
CONSTANTS
  n1 = n1
  Nodes = {n1}
  MaxLives = 2
  MaxChanges = 1
  MaxFaults = 1
INVARIANT TypeOK
INVARIANT IInv
INVARIANT WrongModelOnlyByOrphan
PROPERTY CreatedUnderFinalizer
PROPERTY DeletionCompletes
PROPERTY MatchingNodeServed
PROPERTY StatusSettles
CHECK_DEADLOCK FALSE
