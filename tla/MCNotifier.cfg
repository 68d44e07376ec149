SPECIFICATION FairSpec
CONSTANTS
  mqtt = mqtt
  Linked <- MCLinked
  Keys <- MCKeys
  MinCount = 3
  MaxPerHour = 1
  Hour = 2
  QueueSize = 1
  NoAlert = NoAlert
  Fuses <- MCFuses
  MaxTime = 2
  MaxRaced = 1
INVARIANTS HourlyCap PhoneAgrees
PROPERTIES NoRepeats EveryMessageTried
CHECK_DEADLOCK FALSE
