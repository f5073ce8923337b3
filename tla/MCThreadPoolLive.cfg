\* Fair threads, a queue that fills up, and fewer descriptors than clients.
SPECIFICATION PatientSpec
CONSTANTS
  Worker = {w1}
  Conn = {c1, c2, c3}
  FD = {f1, f2}
  Capacity = 1
  Backlog = 2
  Main = main
  Free = free
  None = none
  MaxRefused = 1
  MaxSpurious = 0
PROPERTIES AcceptedIsClosed StopOutlivesPush BacklogDrains
