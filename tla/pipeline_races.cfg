SPECIFICATION Spec
CONSTANTS
  s1 = s1
  s2 = s2
  w1 = w1
  w2 = w2
  p1 = p1
  None = None
  Subs <- OneSub
  Problems = {p1}
  ProblemOf <- SameProblem
  Workers = {w1,w2}
  Verdicts = {"ACCEPTED", "WRONG_ANSWER"}
  PoisonSubs = {}
  HasBucket = TRUE
  LeaseOutlivesHandling = FALSE
  MaxMessages = 1
  MaxRequeues = 1
  MaxFaults = 1
CHECK_DEADLOCK FALSE
INVARIANTS
  AckedOnlyWhenHandled
PROPERTIES
  ImplementsLifecycle
