\* Sequential: two clients of up to four bytes, a buffer of three.
\* Threaded: four clients for two descriptors and two threads.
SPECIFICATION BothSpec
CONSTANTS
  Byte <- Bytes
  RECVBUF_SIZE = 3
  MaxInput = 4
  MaxClients = 2
  FD = {f1, f2}
  Thread = {t1, t2}
  None = none
  MaxArrivals = 4
CHECK_DEADLOCK FALSE
INVARIANTS InPlaceSafe EchoExact SingleHolder
PROPERTIES EverybodyServed
