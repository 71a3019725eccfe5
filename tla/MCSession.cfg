SPECIFICATION FairSpec
CONSTANTS
  Sessions = {s1}
  Items = {i1}
  Workers = {w1}
  IdleTimeouts = {1, 2}
  LeaseMax = 1
  MaxTime = 3
  None = None
INVARIANTS
  LeaseWithinDeadline
  NoItemStranded
  LateAcceptanceHeld
PROPERTIES
  MachineReleased
CHECK_DEADLOCK FALSE
