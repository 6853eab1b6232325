CONSTANTS
  Calls <- MCCalls
  Request <- MCRequest
SPECIFICATION FairSpec
INVARIANTS
  AtMostOneCallback
  AnswerNotMissed
  TimerCancelled
  SlotDiesOnlyByTimeout
PROPERTIES
  EveryCallSettles
CHECK_DEADLOCK FALSE
