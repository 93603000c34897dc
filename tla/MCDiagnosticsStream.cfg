CONSTANTS
  Streams = {s1, s2}
  Ring = 2
  MaxFrames = 3
  HighWater = 1
  MaxEvents = 6
  MaxRuns = 2
  MaxFaults = 2
  None = None
SPECIFICATION FairSpec
INVARIANTS NothingLost
PROPERTY CaughtUp
CHECK_DEADLOCK FALSE
