CONSTANTS
  Sessions = {a, b}
  Tabs = {t}
  Windows = {}
  Recordings = {}
  Archives = {}
  Grace = 1
  None = None
  Requests = {q1, q2, q3}
  Chunks = TRUE
  MaxConnections = 1
  MaxRemovals = 2
  MaxInbox = 1
SPECIFICATION Spec
SYMMETRY Symmetric
INVARIANT ClosedMarksAccurate
PROPERTY NoCommandOutlivesItsTab
