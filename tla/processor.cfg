CONSTANTS
  n1 = n1
  n2 = n2
  Connections <- MCConnections
  MaxArrivals = 2
  Nullopt = Nullopt
  Scripts <- MCScripts
SPECIFICATION DispatchSpec
INVARIANTS
  InOrderOfArrival
  DispatchedAsSent
PROPERTIES
  EveryMessageHandled
  StopCompletes
CHECK_DEADLOCK FALSE
