CONSTANTS
  Threads <- MCThreads
  Sends <- MCSends
SPECIFICATION Spec
INVARIANTS
  FramingIntact
CHECK_DEADLOCK FALSE
