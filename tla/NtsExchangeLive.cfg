SPECIFICATION FairSpec
CONSTANTS
  NTS_MAX_COOKIES = 1
  NTS_nKEYS = 1
  NetCap = 1
  Stale = Stale
  Nonces = {1, 2, 3}
  Uids = {1, 2, 3}
  Sessions = {1, 2, 3}
  KeyIds = {1, 2}

PROPERTIES StaleJarAbandoned CookiesRestored

