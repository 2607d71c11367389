SPECIFICATION Spec
CONSTANTS
  Null = Null
  Nobody = Nobody
  r1 = r1
  r2 = r2
  Requests = {r1, r2}
  Seed <- MCSeed
  Mixes <- ImportMixes
  Stamps = {"t1", "t2"}
  MaxNew = 6
CHECK_DEADLOCK FALSE
INVARIANTS
  ReportedIsSaved
