SPECIFICATION Spec
CONSTANTS
  Problems = {p1}
  Users = {u1}
  Names = {n1}
  Requests = {r1, r2, r3}
  NumWorkers = 2
  AvailableProblems = {}
  AwsLambdaProblems = {p1}
  MaxAgeSeconds = 1
  CacheSolutions = FALSE
  AskTimeout = 1
  WorkerFaults = {}
  MaxTime = 5
  MaxUpdatesQueued = 0
  NoSolution = NoSolution
  NoAsk = NoAsk
SYMMETRY RequestSymmetry
INVARIANTS
  NoParallelSolutions
CHECK_DEADLOCK FALSE
