SPECIFICATION PageSpec
CONSTANTS
  Problems = {p1}
  Users = {u1, u2}
  Names = {n1}
  Requests = {r1, r2}
  NumWorkers = 1
  AvailableProblems = {}
  AwsLambdaProblems = {p1}
  MaxAgeSeconds = 0
  CacheSolutions = TRUE
  AskTimeout = 1
  WorkerFaults = {"lambda error"}
  MaxTime = 3
  MaxUpdatesQueued = 0
  NoSolution = NoSolution
  NoAsk = NoAsk
  HttpFails = FALSE
  NoGet = NoGet
  Nobody = Nobody
PROPERTIES
  NumbersStay
CHECK_DEADLOCK FALSE
