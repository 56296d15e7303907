SPECIFICATION Spec
CONSTANTS
  Problems = {p1}
  Users = {u1}
  Names = {n1}
  Requests = {r1, r2}
  NumWorkers = 2
  AvailableProblems = {}
  AwsLambdaProblems = {p1}
  MaxAgeSeconds = 1
  CacheSolutions = TRUE
  AskTimeout = 1
  WorkerFaults = {"lambda error"}
  MaxTime = 5
  MaxUpdatesQueued = 0
  NoSolution = NoSolution
  NoAsk = NoAsk
SYMMETRY RequestSymmetry
INVARIANTS
  InProgressIsBeingSolved
CHECK_DEADLOCK FALSE
