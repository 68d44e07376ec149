SPECIFICATION LinkSpec
CONSTANTS
  Default = FALSE
  Absent = Absent
  Unknown = Unknown
  MaxAsks = 4
  MaxTroubles = 4
INVARIANTS LastWord MirrorNeverWrong
PROPERTIES CommandsObeyed
CHECK_DEADLOCK FALSE
