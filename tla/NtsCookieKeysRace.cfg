SPECIFICATION KeysSpec
CONSTANTS
  NTS_nKEYS = 3
  SecondsPerDay = 4
  Hour = 1
  Crashes = FALSE
  MaxTime = 12
  Torn = Torn
  None = None
  KeyIds = {1, 2, 3, 4, 5, 6, 7}
INVARIANT FreshCookieUnpacks
