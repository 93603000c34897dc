CONSTANTS
  Sessions = {a, b}
  Tabs = {}
  Windows = {}
  Recordings = {a, b}
  Archives = {}
  Grace = 1
  None = None
  Requests = {q1, q2}
  CleanupIds = {c1, c2, c3}
  Chunks = FALSE
  MaxConnections = 2
  MaxInbox = 2
SPECIFICATION Spec
SYMMETRY Symmetric
INVARIANTS ReservationAccurate DisconnectedRecordersCleanedUp
