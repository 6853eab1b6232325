SPECIFICATION Spec
CONSTANTS
  Root = Root
  t1 = t1
  t2 = t2
  Testers <- MCTesters
  None = None
  MaxSends = 3
INVARIANT ReportOfFullTest
INVARIANT ReportAddsUp
 
CHECK_DEADLOCK FALSE
