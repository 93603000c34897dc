CONSTANTS
  Starters = {s1, s2}
  Stoppers = {k1}
  Children = {c1, c2}
  Ports = {p1, p2, p3}
  ForeignPorts = {p3}
  MaxFaults = 1
  None = None
  Empty = Empty
SPECIFICATION FairSpec
INVARIANTS OneBroker NothingLeftBehind
PROPERTY EveryStartConnects
CHECK_DEADLOCK FALSE
