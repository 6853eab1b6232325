CONSTANTS
  n1 = n1
  n2 = n2
  u1 = u1
  u2 = u2
  None = None
  Conns <- MCConns
  Users <- MCUsers
  Channels = {"general"}
  MaxRequests = 4
SPECIFICATION Spec
SYMMETRY Symmetry
INVARIANTS
  NoChannelWithoutSession
  StaleSessionOnlyIfLate
  AnsweredOnce
CHECK_DEADLOCK FALSE
