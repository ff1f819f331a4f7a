SPECIFICATION FairSpec
CONSTANTS
  f1 = f1
  p1 = p1
  Files = {f1}
  Pods = {p1}
  TTL = 1
  MaxFaults = 1
PROPERTY PodEventuallyServed
