CONSTANTS
  None = None
  Elements = {a, b}
  Cmds = {c1, c2}
  MaxChanges = 2
SPECIFICATION FairSpec
INVARIANTS SnapshotsAreCurrent ScriptRunsAtMostTwice
PROPERTIES CommandsEnd
CHECK_DEADLOCK FALSE
