SPECIFICATION Spec
CONSTANTS
  NTS_MAX_COOKIES = 2
  NTS_nKEYS = 1
  NetCap = 2
  Stale = Stale
  Nonces = {1, 2, 3}
  Uids = {1, 2, 3, 4}
  Sessions = {1, 2, 3, 4}
  KeyIds = {1}
INVARIANTS NoCookieReuse JarMatchesSession
PROPERTY ReplyFillsJar

