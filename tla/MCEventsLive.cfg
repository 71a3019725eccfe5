CONSTANTS
  s1 = s1
  r1 = r1
  Sessions = {s1}
  NoSession = NoSession
  NoAnswer = NoAnswer
  Requests = {r1}
  BatchSize = 2
  MaxServerFailures = 1
  MaxEvents = 1
  MaxPlain = 1
  Faults = {"lost", "refused", "restart", "retry"}
  MaxFaults = 1
SPECIFICATION FairSpec
INVARIANTS
  WatermarkVouches
PROPERTIES
  HoldReleased
