CONSTANTS
  s1 = s1
  s2 = s2
  u1 = u1
  u2 = u2
  logs = logs
  Subs <- OneSub
  Calls <- OneSubCalls
  Sources = {logs}
  SourceOf <- OneSubSource
  CleanupOf <- OneSubCleanup
  NoCall = NoCall
  Capacity = 1
  MaxEvents = 2
SPECIFICATION SubsFairSpec
PROPERTIES
  ImplementsStream
  CancelledStreamEnds
  ConsumerReleased
CHECK_DEADLOCK FALSE
