\* Two peers, a buffer of two bytes, inputs that fill it and then some.
SPECIFICATION Spec
CONSTANTS
  FD = {p, q}
  Byte <- Bytes
  SENDBUF_SIZE = 2
  NoJob = nojob
  MaxBytes = 3
SYMMETRY Symmetric
INVARIANTS  NoInternalError EchoExact
PROPERTIES ImplementsContract
