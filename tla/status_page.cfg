SPECIFICATION Spec
CONSTANTS
  PingHistoryLength = 3
  ReconnectInterval = 2
  UpdateInterval = 2
  PersistMarker = 2
  MaxEvents = 2
  MaxTime = 10
INVARIANTS
  TypeOK
  BannerIsHonest
  OnlyMissedSecondsCount
  GaugeShowsLoss
  GaugeRecovers
  MapShowsRecentEvents
CHECK_DEADLOCK FALSE
