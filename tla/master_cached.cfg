SPECIFICATION Spec
CONSTANTS
  Problems = {p1}
  Users = {u1, u2}
  Names = {n1}
  Requests = {r1, r2, r3}
  NumWorkers = 2
  AvailableProblems = {}
  AwsLambdaProblems = {p1}
  MaxAgeSeconds = 0
  CacheSolutions = TRUE
  AskTimeout = 1
  WorkerFaults = {"lambda error", "exception"}
  MaxTime = 3
  MaxUpdatesQueued = 1
  NoSolution = NoSolution
  NoAsk = NoAsk
SYMMETRY RequestSymmetry
INVARIANTS
  TypeOK
  AnswersAreExpected
  NoParallelSolutions
  CreditedToAnAsker
  NobodyWaitsInVain
  BroadcastsAreFinished
PROPERTIES
  AnswersAreKept
  ImplementsService
CHECK_DEADLOCK FALSE
