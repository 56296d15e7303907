SPECIFICATION FairSpec
CONSTANTS
  Browsers = {b1, b2}
  ReconnectInterval = 1
  BufferSize = 1
  MaxBroadcasts = 3
  MaxFaults = 1
INVARIANTS
  TypeOK
  NobodyIsForgotten
  SameStream
  OneWayBack
PROPERTIES
  ImplementsService
  ReconnectsAfterFaults
CHECK_DEADLOCK FALSE
