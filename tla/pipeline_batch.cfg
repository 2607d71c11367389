SPECIFICATION FairSpec
CONSTANTS
  s1 = s1
  s2 = s2
  w1 = w1
  w2 = w2
  p1 = p1
  None = None
  Subs <- TwoSubs
  Problems = {p1}
  ProblemOf <- SameProblem
  Workers = {w1,w2}
  Verdicts = {"ACCEPTED"}
  PoisonSubs = {s2}
  HasBucket = FALSE
  LeaseOutlivesHandling = TRUE
  MaxMessages = 2
  MaxRequeues = 0
  MaxFaults = 1
CHECK_DEADLOCK FALSE
INVARIANTS
  NoOrphan
PROPERTIES
  StopIsGraceful
  EventuallySettled
  QueueDrains
