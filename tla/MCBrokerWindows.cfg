CONSTANTS
  Sessions = {a}
  Tabs = {t1, t2}
  Windows = {w1, w2}
  Recordings = {}
  Archives = {v}
  Grace = 1
  None = None
  Requests = {q1, q2}
  Kinds = {"create", "restore", "save"}
  Chunks = TRUE
  MaxConnections = 2
  MaxInbox = 1
SPECIFICATION Spec
SYMMETRY Symmetric
INVARIANTS CreationsServed
PROPERTY CommandsUseOwnWindow
