\* Two descriptors below the limit of the peer table and one beyond it, three
\* clients, and a process that may hold two descriptors or three.  The submission
\* queue holds two of the three operations that can be outstanding.
SPECIFICATION LoopsSafeSpec
CONSTANTS
  FD = {1, 2}
  Beyond = {3}
  Listener = 0
  RLIMITS = {2, 3}
  MaxUnread = 2
  MaxClients = 3
  Depth = 2
CHECK_DEADLOCK FALSE
INVARIANTS BatchFresh  ScanComplete OneOutstanding 
PROPERTIES LoopsKeepContract
