SPECIFICATION Spec
CONSTANTS
  Processes = {p1, p2}
  Requests = {r1, r2, r3}
  Paths = {"/contests/1", "/auth/login", "/metrics", "/unknown"}
  Template <- MCTemplate
  Limited = {"/auth/login"}
  MetricsPath = "/metrics"
  Statuses = {200}
  Durations = {5, 11}
  Buckets <- MCBuckets
  MaxRestarts = 1
SYMMETRY MCSymmetry
CHECK_DEADLOCK FALSE
INVARIANTS
  TypeOK
  FinishedAreCounted
  PageIsConsistent
