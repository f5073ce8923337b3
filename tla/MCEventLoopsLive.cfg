\* Fair servers, two descriptors and two clients that go on sending.
SPECIFICATION LoopsSpec
CONSTANTS
  FD = {1, 2}
  Beyond = {3}
  Listener = 0
  RLIMITS = {2}
  MaxUnread = 1
  MaxClients = 2
  Depth = 2
CHECK_DEADLOCK FALSE
PROPERTIES  NewcomersTaken
