CONSTANTS
  Sessions = {a, b}
  Tabs = {t}
  Windows = {}
  Recordings = {}
  Archives = {}
  Grace = 1
  None = None
  Requests = {q1, q2}
  Chunks = TRUE
  MaxConnections = 2
  MaxRemovals = 1
  MaxInbox = 2
SPECIFICATION Spec
SYMMETRY Symmetric
INVARIANTS OneRoutePerTab RoutesJustified WaitsAreServed
PROPERTY OnlyOwnersCommand
