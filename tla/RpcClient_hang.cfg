CONSTANTS
  Calls = {c1, c2}
  NoCall = NoCall
SPECIFICATION FairSpec
PROPERTY EveryCallerReleased
CHECK_DEADLOCK FALSE
