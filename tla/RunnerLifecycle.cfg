SPECIFICATION BusySpec
CONSTANTS
  NoUrl = NoUrl
  Seed = NoUrl
  Slots = {s1, s2}
  Urls = {u1}
  Managed = FALSE
  Interval = 1
INVARIANT MeterTracksStatus
PROPERTY RequestsEnd
PROPERTY HealthyRunnerIsSeen
