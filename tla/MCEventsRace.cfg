CONSTANTS
  s1 = s1
  r1 = r1
  r2 = r2
  Sessions = {s1}
  NoSession = NoSession
  NoAnswer = NoAnswer
  Requests = {r1, r2}
  BatchSize = 2
  MaxServerFailures = 1
  MaxEvents = 2
  MaxPlain = 0
  Faults = {"lost"}
  MaxFaults = 1
SPECIFICATION Spec
SYMMETRY RequestSymmetry
INVARIANTS
  DeliveredOnce
  SessionOrder
