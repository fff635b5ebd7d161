CONSTANTS
  sub = sub
  Subs = {sub}
  Events <- MCEvents
  Capacity = 1
  Limit = 2
  ByteLimit = 3
  MaxSize = 2
  MaxEvents = 4
SPECIFICATION AppLogsFairSpec
INVARIANTS
  NoHoles
  QuietIsSilence
PROPERTIES
  CollectionEnds
  NothingLeftBehind
CHECK_DEADLOCK FALSE
