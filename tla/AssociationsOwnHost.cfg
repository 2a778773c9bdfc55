SPECIFICATION Spec
CONSTANTS
  None = None
  h1 = h1
  h2 = h2
  nSlots = 2
  nAddrs = 2
  ConfigNames = {"server1", "server2"}
  Slots <- MCSlots
  FirstFree <- MCFirstFree
  Addrs <- MCAddrs
  Hosts <- MCHosts
  AddrsOf <- MCAddrsOf
  Lines <- MCLines
  IdModulus = 4
  sys_maxclock = 1
  Cookies = 1
  MaxAnswers = 2
  UnpeerBusy = TRUE
INVARIANTS
  AddressOfOwnHost
