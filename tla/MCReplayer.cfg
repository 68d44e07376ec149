SPECIFICATION FairSpec
CONSTANTS
  FirstSendDelay = 1
  AckTimeout = 1
  MaxAttempts = 2
  WatchWindow = 4
  Keys <- MCKeys
  Values <- MCValues
  Payloads <- MCPayloads
  BootStates <- MCBootStates
  MaxBoots = 2
  MaxCommands = 1
  MaxReadBacks = 1
  MaxLosses = 2
INVARIANTS EpisodeIsShort ConfirmationIsTrue OneArrivalSuffices
PROPERTIES EpisodesEnd
CHECK_DEADLOCK FALSE
