CONSTANTS
  sys_mindist = 8
  sys_maxdist = 12
  sys_minclock = 2
  sys_maxclock = 2
  sys_minsane = 1
  sys_floor = 0
  sys_ceiling = 16
  sys_orphan = 17
  LocalMetric = 5
  PpsGate = 5
  Configs <- MCConfigs
  Samples <- MCSamples
  Surveys <- MCSurveys
  Plain <- MCPlain
  ClockMax = 5
  sys_orphwait = 1
  MaxSteps = 4
  clock_minstep = 2
  clock_panic = 6
  CLOCK_FLOOR = 2
  CLOCK_PLL = 1
  CLOCK_LIMIT = 1
  MaxFreq = 1
  Quantum = 2
  minpoll = 1
  maxpoll = 2
  HuffLen = 2
  Offsets <- MCOffsets
  Delays = {0, 2}
  Thresholds = {0, 4}
  MaxConfigs = 1
  Stages = 4
  sys_maxdisp = 16
  maxdist = 3
  allan_age = 2
  PopcornAge = 3
  MaxGap = 2
  FilterSamples <- MCFilterSamples
  MinPoll = 2
  MaxPoll = 3
  MaxClears = 1
  KodPolls = {3}
  NTP_SHIFT = 3
  NTP_IBURST = 3
  NTP_RETRY = 2
  NTP_UNREACH = 1
  NTP_MINPKT = 2
  ReachBits = 2
  RetryMin = 3
  RetryMax = 3
  RetryTemp = 2
  KodMax = 3
  Cookies = 1
  Longest = 8
  Spread = {0}
  Options <- MCOptions
SPECIFICATION MCSpec
CHECK_DEADLOCK FALSE
INVARIANTS
  Intersected
  TallyOfOneSelection
  ClaimsNothingStale
  AppliedOnce
  SampleInterval
PROPERTIES
  SpikesSuppressed
  PollsSpaced
