\* Three connections of two requests against a server with two workers.
SPECIFICATION Spec
CONSTANTS
  connections = 3
  messages = 2
  Main = main
  Latency = {1, 4}
  Workers = 2
  SpawnMayFail = TRUE
CHECK_DEADLOCK FALSE
INVARIANTS StartTogether ExitHonest PercentilesOrdered
PROPERTIES RunEnds
