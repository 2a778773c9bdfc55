SPECIFICATION Spec
CONSTANTS
  CTL_MAX_DATA_LEN = 16
  MAXDATALINELEN = 11
  Octets <- MCOctets
  sys_var <- MCSys
  ext_sys_var <- MCExt
  peer_var <- MCPeer
  clock_var <- MCClock
  peer_list <- MCPeers
  sys_peer = 1
  Addrs = {1, 2, 3, 4}
  MaxDepth = 3
  MRU_ROW_LIMIT = 3
  MRU_FRAGS_LIMIT = 3
  MAXFRAGS = 2
  MaxPriors = 2
  MaxRestarts = 1
  MaxSeq = 5
  MaxHeard = 5
  MaxFaults = 1
  Tasks <- MCTasks
INVARIANTS AssembledWhole FragmentLimit ListWhole
CHECK_DEADLOCK FALSE
