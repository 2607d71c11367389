SPECIFICATION Spec
CONSTANTS
  Processes = {p1}
  Clients = {c1, c2}
  Rules <- OneRule
  Others <- OtherRoutes
  TicksPerSec = 2
  MaxTime = 8
  MaxRequests = 5
  MaxRestarts = 1
INVARIANTS
  TypeOK
  WindowIsBounded
  RefusalIsNeeded
  RetryAfterSuffices
CHECK_DEADLOCK FALSE
