SPECIFICATION Spec
CONSTANTS
  PingHistoryLength = 3
  ReconnectInterval = 2
  UpdateInterval = 2
  PersistMarker = 2
  MaxEvents = 2
  MaxTime = 10
PROPERTIES
  ReconnectsOnTime
CHECK_DEADLOCK FALSE
