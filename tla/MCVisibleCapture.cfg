CONSTANTS
  Undefined = Undefined
  Windows = {w1, w2}
  Tabs = {t1, t2}
  Cmds = {c1, c2}
  Parameters <- MCParameters
  Sizes = {1, 2, 3, 50, 99, 100, 101}
  MaxChanges = 1
SPECIFICATION FairSpec
INVARIANTS ShotShowsItsTab ImagesAreAccepted
PROPERTIES EveryShotEnds
CHECK_DEADLOCK FALSE
