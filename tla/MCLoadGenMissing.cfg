\* Two connections, of which one thread may not start.
SPECIFICATION Spec
CONSTANTS
  connections = 2
  messages = 1
  Main = main
  Latency = {1}
  Workers = 1
  SpawnMayFail = TRUE
CHECK_DEADLOCK FALSE
PROPERTIES MissingReleased
