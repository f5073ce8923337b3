\* Two workers and a ring of two slots that wraps; descriptors are reused.
SPECIFICATION SafeSpec
CONSTANTS
  Worker = {w1, w2}
  Conn = {c1, c2, c3}
  FD = {f1, f2, f3}
  Capacity = 2
  Backlog = 2
  Main = main
  Free = free
  None = none
  MaxRefused = 1
  MaxSpurious = 1
SYMMETRY Symmetric
INVARIANTS TypeOK SingleOwner NoLostWakeup GaugesExact
PROPERTIES ImplementsHandoff
