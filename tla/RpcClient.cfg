CONSTANTS
  Calls = {c1, c2}
  NoCall = NoCall
SPECIFICATION FairSpec
INVARIANTS
  TypeOK
  RegisteredIsWaiting
  OwnAnswer
  NoLostWakeup
PROPERTIES
  ImplementsContract
  RegisteredReleased
CHECK_DEADLOCK FALSE
