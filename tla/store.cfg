CONSTANTS
  c1 = c1
  c2 = c2
  Channels <- MCChannels
  MaxMessages = 3
  PrewarmMessageCount = 1
  Limits = {0, 1, 2, 3}
SPECIFICATION FairSpec
INVARIANTS
  NoDuplicateInsert
  NothingForgotten
  GetChatsExact
  DurablePrefix
  NestedOnlyAtShutdown
PROPERTIES
  ImplementsHistory
  EventuallyPersisted
CHECK_DEADLOCK TRUE
