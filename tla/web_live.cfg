SPECIFICATION FairSpec
CONSTANTS
  Null = Null
  Nobody = Nobody
  r1 = r1
  r2 = r2
  Requests = {r1, r2}
  Seed <- MCSeed
  Mixes <- LockMixes
  Stamps = {"t1", "t2"}
  MaxNew = 6
CHECK_DEADLOCK FALSE
PROPERTIES
  EveryRequestEnds
