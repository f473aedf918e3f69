SPECIFICATION Spec
CONSTANTS
  Ids <- MCIds
  Grant <- MCGrant
  Discovered <- MCDiscovered
  Setups <- MCSetups
  Tasks = {t1, t2}
  Cli = cli
  t1 = t1
  t2 = t2
  Skew = 1
  Timeout = 1
  Ttl = 2
  Lifetimes = {2}
  Interval = 1
  CodeLife = 2
  MaxRotations = 1
INVARIANTS RefreshKept
PROPERTIES CachedTokenLives CallsEnd
CHECK_DEADLOCK FALSE
