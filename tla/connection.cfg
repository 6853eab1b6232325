CONSTANTS
  Threads <- MCThreads
  Sends <- MCSends
SPECIFICATION FairSpec
INVARIANTS
  InOnePlace
  ReceivedInOrder
PROPERTIES
  EveryFrameWritten
  DisconnectReported
CHECK_DEADLOCK FALSE
