SPECIFICATION FairSpec
CONSTANTS
  Browsers = {b1}
  Requests = {r1, r2, r3}
  Kinds = {"home", "name"}
  Uuids = {u1}
  Ips = {i1}
  RemoteIps <- OneAddress
  MockIp = FALSE
  MockIpOf <- MockAddress
  Names = {n1}
  GuyIncognito = GuyIncognito
  LookupsFail = FALSE
  AskTimeouts = FALSE
  MaxRestarts = 0
  NoUser = NoUser
PROPERTIES
  HomeLoginIsBroadcast
CHECK_DEADLOCK FALSE
