SPECIFICATION Spec
CONSTANTS
  Users <- UserSet
  Problems <- ProblemSet
  NameOf <- Names
  PointsOf <- Points
  Contests <- Settings
  Assigned <- AssignedSets
  Moments <- MomentSet
  Verdicts = {"ACCEPTED", "WRONG_ANSWER"}
  MaxSubs = 3
  MaxEdits = 1
  NoView = NoView
INVARIANTS
  TypeOK
  BoardIsScoring
  RanksAreStandings
  FirstSolverIsMarked
PROPERTY OnlyOverwritingTakes
CHECK_DEADLOCK FALSE
