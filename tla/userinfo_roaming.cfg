SPECIFICATION Spec
CONSTANTS
  Browsers = {b1, b2}
  Requests = {r1, r2, r3}
  Kinds = {"home", "name"}
  Uuids = {u1, u2}
  Ips = {i1, i2}
  RemoteIps <- AnyAddress
  MockIp = FALSE
  MockIpOf <- MockAddress
  Names = {n1}
  GuyIncognito = GuyIncognito
  LookupsFail = TRUE
  AskTimeouts = TRUE
  MaxRestarts = 1
  NoUser = NoUser
SYMMETRY RequestSymmetry
INVARIANTS
  TypeOK
  NamesAreOwn
  NobodyWaitsInVain
PROPERTIES
  LateResolutionsAreIgnored
  LookupsAreNotForgotten
  ImplementsService
CHECK_DEADLOCK FALSE
