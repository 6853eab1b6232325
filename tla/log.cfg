CONSTANTS
  MaxMessageId = 8
  StoredIds <- MCStoredIds
  PrewarmMessageCount = 2
  Limits = {0, 1, 2, 3, 5}
  Befores <- MCBefores
SPECIFICATION Spec
INVARIANTS
  LogIsSound
PROPERTIES
  LatestExact
CHECK_DEADLOCK FALSE
