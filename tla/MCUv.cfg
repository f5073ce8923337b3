\* uv_server: one client of four bytes, a send buffer of two.
\* uv_isprime_server: two clients with three requests, integers of six bits.
SPECIFICATION BothSpec
CONSTANTS
  Client = {c1}
  Byte <- Bytes
  KillByte = 255
  SENDBUF_SIZE = 2
  MaxInput = 4
  User = {u1, u2}
  Requests <- Numbers
  NotDigit = 10
  Half = 8
  MaxRequests = 3
CHECK_DEADLOCK FALSE
INVARIANTS  AnswerRight 
PROPERTIES InputTaken Answered
