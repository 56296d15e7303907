SPECIFICATION FairSpec
CONSTANTS
  Browsers = {b1}
  Requests = {r1, r2}
  Kinds = {"home", "solve", "ws"}
  Uuids = {u1, u2}
  Ips = {i1}
  RemoteIps <- OneAddress
  MockIp = TRUE
  MockIpOf <- MockAddress
  Names = {n1}
  GuyIncognito = GuyIncognito
  LookupsFail = FALSE
  AskTimeouts = FALSE
  MaxRestarts = 2
  NoUser = NoUser
INVARIANTS
  OneLookupAtATime
PROPERTIES
  EveryRequestIsAnswered
  HomeLoginIsBroadcast
CHECK_DEADLOCK FALSE
