CONSTANTS
  Calls = {c1, c2}
  Shots = {c2}
SPECIFICATION FairSpec
INVARIANTS NoCallForgotten StopAnswersRoutes
PROPERTIES ImplementsCallService EverythingEnds
CHECK_DEADLOCK FALSE
