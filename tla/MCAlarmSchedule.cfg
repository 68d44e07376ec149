SPECIFICATION FairSpec
CONSTANTS
  Day = 8
  Stages <- MCStages
  Offset <- MCOffset
  ShippedTime = 4
  Times <- MCTimes
  Torn = Torn
  None = None
  MaxChanges = 3
  MaxCrashes = 1
  MaxFailures = 1
INVARIANTS ActsAsAgreed
PROPERTIES NoStageTwice MissedOnlyByDisturbance AlarmRings
