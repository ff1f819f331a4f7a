SPECIFICATION Spec
CONSTANTS
  f1 = f1
  p1 = p1
  Files = {f1}
  Pods = {p1}
  TTL = 1
  MaxFaults = 0
SYMMETRY Symmetry
PROPERTY NoPartialMount
