SPECIFICATION Spec
CONSTANTS
  s1 = s1
  s2 = s2
  w1 = w1
  w2 = w2
  p1 = p1
  None = None
  Subs <- OneSub
  Problems = {p1}
  ProblemOf <- SameProblem
  Workers = {w1}
  Verdicts = {"ACCEPTED"}
  PoisonSubs = {}
  HasBucket = TRUE
  LeaseOutlivesHandling = TRUE
  MaxMessages = 1
  MaxRequeues = 0
  MaxFaults = 0
CHECK_DEADLOCK FALSE
INVARIANTS
  PendingAwaitsJudge
