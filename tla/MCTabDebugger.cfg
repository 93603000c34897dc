CONSTANTS
  Tabs = {t1}
  Cmds = {c1, c2, c3}
  MaxCancels = 2
  None = None
SPECIFICATION FairSpec
INVARIANTS AttachmentsAccurate RecorderConsistent
PROPERTIES RecordingKeepsDebugger EveryCommandEnds IdleDebuggerLeaves
CHECK_DEADLOCK FALSE
