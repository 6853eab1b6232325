SPECIFICATION Spec
CONSTANTS
  Me = Me
  Other = Other
  c1 = c1
  NewChannel = c2
  c2 = c2
  Channels <- MCChannels
  None = None
  LogLimit = 1
  MaxInputs = 4
  MaxPending = 1
  MaxConns = 2
  MaxEvents = 2
INVARIANT NullUserOnlyAfterLeave
INVARIANT UserOnlyWhileConnected
INVARIANT SessionAgrees
INVARIANT NoGap
CHECK_DEADLOCK FALSE
