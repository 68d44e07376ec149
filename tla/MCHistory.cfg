SPECIFICATION Spec
CONSTANTS
  Bucket = 3
  Span = 6
  Interval = 3
  Retry = 1
  None = None
  MaxTime = 14
  MaxTroubles = 3
INVARIANTS NothingLost PollsInTime
PROPERTIES LossIsTold NoFalseAlarm
CHECK_DEADLOCK FALSE
