SPECIFICATION Spec
CONSTANTS
  u = u
  v = v
  a = a
  b = b
  UserNames <- MCUserNames
  ChannelNames <- MCChannelNames
  None = None
  MaxMessages = 2
  MaxCrashes = 1
SYMMETRY Symmetry
INVARIANTS
  StoredAsTold
  ListIsComplete
  ThrowsOnlyIfEarlyOrRaced
CHECK_DEADLOCK FALSE
