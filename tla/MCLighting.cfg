SPECIFICATION FileSpec
CONSTANTS
  Main = Main
  Child = Child
  lamp = lamp
  socket = socket
  On = On
  Off = Off
  Dim = Dim
  Release = Release
  Announced = Announced
  Announcers <- MCAnnouncers
  Nothing = Nothing
  NoOne = NoOne
  Truncated = Truncated
  None = None
  Topics <- MCTopics
  Payloads <- MCPayloads
  Lamps <- MCLamps
  Sockets <- MCSockets
  UserReplies <- MCUserReplies
  JobReplies <- MCJobReplies
  QueueBound = 0
INVARIANTS OneLateBaseAtMost DeviceAgrees
