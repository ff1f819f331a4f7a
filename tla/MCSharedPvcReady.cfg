SPECIFICATION Spec
CONSTANTS
  p1 = p1
  Pods = {p1}
  TTL = 0
  MaxFaults = 1
  MaxLives = 1
PROPERTY ReadyOverModel
