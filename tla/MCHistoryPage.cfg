SPECIFICATION PageSpec
CONSTANTS
  DayLength = 4
  Everything = Everything
  Zones <- MCZones
  Databases <- MCDatabases
  NewBuckets = {8}
  Watts = {2}
  Periods <- MCPeriods
  Steps = {1, 2}
  Unset = Unset
  MaxClicks = 3
  MaxRefreshes = 1
  MaxPending = 4
  MaxAccidents = 1
INVARIANTS DayIsShown GraphBelongsToPeriod RefreshKeepsThePeriod
CHECK_DEADLOCK FALSE
