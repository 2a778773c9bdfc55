SPECIFICATION MCSpec
CONSTANTS
  Stages = 1
  ReachBits = 2
  Tally = 1
  Phones = 2
  TickLow = 1
  TickHigh = 2
  PpsMax = 2
  MaxLoopback = 1
  Switched = {1}
  Units <- MCUnits
  Offsets <- MCOffsets
  MAXSTAGE = 6
  MaxWrites = 4
CHECK_DEADLOCK FALSE
INVARIANTS
  SilentUnreachable
  ReleasedOnce
  CallConsistent
  TrueSecond
  Reframed
  SampleWhole
  SpikesRejected
PROPERTIES
  UnsyncNotCounted
  IsQueue
