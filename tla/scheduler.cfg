CONSTANTS
  Tasks <- MCTasks
  Once <- MCOnce
  Interval <- MCInterval
  Never = 3
SPECIFICATION FairSpec
INVARIANTS
  OneShotAtMostOnce
  NoOversleep
PROPERTIES
  RemovedStaysQuiet
  RunsWhileAwake
  StopWhileAwake
CHECK_DEADLOCK FALSE
