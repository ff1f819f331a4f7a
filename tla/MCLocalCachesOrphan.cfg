SPECIFICATION Spec
CONSTANTS
  n1 = n1
  Nodes = {n1}
  MaxLives = 1
  MaxChanges = 0
  MaxFaults = 0
INVARIANT NothingOutlivesModelCache
CHECK_DEADLOCK FALSE
