SPECIFICATION FairSpec
CONSTANTS
  Main = Main
  Child = Child
  lamp = lamp
  socket = socket
  on = on
  Topics <- MCTopics
  Payloads <- MCPayloads
  Callers <- MCCallers
  Killable <- MCKillable
  None = None
  NoOne = NoOne
  Truncated = Truncated
PROPERTIES ImplementsAtomicStore LossOnlyByKill CallsReturn
