SPECIFICATION MCSpec
CONSTANTS
  Torn = Torn
  None = None
  NTS_nKEYS = 2
  SecondsPerDay = 4
  Hour = 2
  Crashes = TRUE
  MaxTime = 8
  KeyIds <- MCKeyIds
  Drifts <- MCDrifts
  wander_threshold = 4
  MaxDriftFaults = 2
INVARIANTS
  KeysServed
  RecordsFiled
  DriftSaved
PROPERTIES
  ClockFollowsTai
  AnnouncedRight
CHECK_DEADLOCK FALSE
