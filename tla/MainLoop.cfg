SPECIFICATION Spec
CONSTANTS
  NTP_PORT = 123
  extra_port = 124
  FD_SETSIZE = 64
  RECV_INIT = 2
  Peers <- MCPeers
  Nics <- MCNics
  Changing <- MCChanging
  Addressed <- MCAddressed
  StartRules <- MCStartRules
  NewRules <- MCNewRules
  Interval = 3
  MaxFaults = 2
INVARIANTS IoConsistent AwakeWhenFlagged
PROPERTY FollowsKernel
CHECK_DEADLOCK FALSE
