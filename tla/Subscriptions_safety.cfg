CONSTANTS
  s1 = s1
  s2 = s2
  u1 = u1
  u2 = u2
  logs = logs
  Subs <- SubsOnOneSource
  Calls <- CallsOnOneSource
  Sources = {logs}
  SourceOf <- SourceOnOneSource
  CleanupOf <- CleanupOnOneSource
  NoCall = NoCall
  Capacity = 1
  MaxEvents = 2
SPECIFICATION SubsSpec
SYMMETRY Swap
INVARIANTS
  RegisteredIsOpen
  OneStreamPerSource
  OwnEvents
  NoStrandedStream
  DoneClosedOnce
  AwaitedCleanupRuns
CHECK_DEADLOCK FALSE
