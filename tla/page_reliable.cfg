SPECIFICATION PageFairSpec
CONSTANTS
  Problems = {p1, p2}
  Users = {u1, u2}
  Names = {n1}
  Requests = {r1, r2}
  NumWorkers = 1
  AvailableProblems = {p2}
  AwsLambdaProblems = {p1}
  MaxAgeSeconds = 0
  CacheSolutions = TRUE
  AskTimeout = 1
  WorkerFaults = {}
  MaxTime = 2
  MaxUpdatesQueued = 0
  NoSolution = NoSolution
  NoAsk = NoAsk
  HttpFails = TRUE
  NoGet = NoGet
  Nobody = Nobody
INVARIANTS
  PageTypeOK
  InProgressIsBeingSolved
  OrangeIsOnItsWay
  OwnSolutionsAreMarked
PROPERTIES
  NumbersOutliveResponses
  EveryAskIsAnswered
  EverySolutionFinishes
  ClicksAreSolved
CHECK_DEADLOCK FALSE
