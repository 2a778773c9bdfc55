SPECIFICATION FairSpec
CONSTANTS
  None = None
  h1 = h1
  h2 = h2
  nSlots = 3
  nAddrs = 2
  ConfigNames = {"noselect","server1","ntspool"}
  Slots <- MCSlots
  FirstFree <- MCFirstFree
  Addrs <- MCAddrs
  Hosts <- MCHosts
  AddrsOf <- MCAddrsOf
  Lines <- MCLines
  IdModulus = 2
  sys_maxclock = 1
  Cookies = 1
  MaxAnswers = 2
  UnpeerBusy = FALSE
INVARIANTS
  TablesAgree
  AddressOfOwnHost
PROPERTIES LookupServed
