\* One worker and one client are enough to lose a stop request.
SPECIFICATION Spec
CONSTANTS
  Worker = {w1}
  Conn = {c1}
  FD = {f1}
  Capacity = 1
  Backlog = 2
  Main = main
  Free = free
  None = none
  MaxRefused = 1
  MaxSpurious = 1
PROPERTIES StopNoticed
