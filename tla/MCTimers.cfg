SPECIFICATION FairTimerSpec
CONSTANTS
  Amounts = {1, 2}
  Scales = {"second", "minute"}
  ScaleOf <- MCScaleOf
  Shortest = 2
  Longest = 4
  Indices = {1, 2}
  Jumps <- MCJumps
  MaxTimers = 3
  MaxTroubles = 1
INVARIANTS ListedTruly
PROPERTIES RemovesWhatWasDescribed TimersRing
CHECK_DEADLOCK FALSE
