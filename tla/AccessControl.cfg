SPECIFICATION MCSpec
CONSTANTS
  Families = {"4"}
  AddrBits = 1
  Lines <- MCLines
  Servers = {}
  Locals <- MCLocals
  c1 = c1
  c2 = c2
  c3 = c3
  Addrs = {c1, c2, c3}
  AddrOf <- MCAddrOf
  MON_HASH <- MCHash
  mru_mindepth = 1
  mru_maxdepth = 2
  mru_minage = 1
  mru_maxage = 1
  mru_initalloc = 1
  mru_incalloc = 1
  rate_limit = 2
  kod_limit = 0
  MaxScore = 3
  MaxAge = 2
  Steps <- MCSteps
SYMMETRY MCSymmetry
INVARIANTS
  MruSound
  LimitedOnRecord
  BurstsTurnedAway
  ListsSound
PROPERTY RecycledWhenOld
