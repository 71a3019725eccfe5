SPECIFICATION Spec
CONSTANTS
  Sessions = {s1}
  Items = {i1}
  Workers = {w1}
  IdleTimeouts = {1, 2}
  LeaseMax = 1
  MaxTime = 2
  None = None
PROPERTIES
  EndedStaysEnded
CHECK_DEADLOCK FALSE
