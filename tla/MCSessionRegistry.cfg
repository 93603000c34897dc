CONSTANTS
  Sessions = {a, b}
  Tabs = {t1, t2}
  Windows = {w1, w2}
  Recordings = {r1}
  Archives = {v1}
  Grace = 2
  EarlyBy = 0
  None = None
SPECIFICATION FairSpec
INVARIANTS RegistryConsistent NothingOutlivesGrace TimerUntilExpired
PROPERTIES GraceNeverCutShort ImplementsTabOwnership GraceReleases
