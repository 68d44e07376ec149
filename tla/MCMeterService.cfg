SPECIFICATION Spec
CONSTANTS
  Keys <- MCKeys
  MinCount = 2
  MaxPerHour = 10
  Hour = 1
  QueueSize = 10
  NoAlert = NoAlert
  Nothing = Nothing
  MinDuration = 3
  StaleFuse = 6
  StaleAfter = 1
  PokeEvery = 2
  HistoryEvery = 5
  HistoryRetry = 3
  BackoffInitial = 1
  BackoffMax = 2
  Timeout = 1
  BlockTimes <- MCBlockTimes
  ClockSteps <- MCClockSteps
  MaxTime = 13
  MaxEvents = 2
INVARIANTS RecoversInTime OutageAnnounced FreshIsRecent
PROPERTIES LoginSpacing
CHECK_DEADLOCK FALSE
