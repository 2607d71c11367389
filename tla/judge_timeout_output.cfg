SPECIFICATION Spec
CONSTANTS
  Jobs <- JobNames
  LanguageOf <- Languages
  TestcasesOf <- Counts
  TimeLimit = 1000
  Parallelism = 1
  Elapsed <- Times
  Outputs <- OutputLines
  Expected <- AnswerLines
  OutputCap = 3
  MaxAttempts = 2
INVARIANT TimeoutIsVerdict
CHECK_DEADLOCK FALSE
