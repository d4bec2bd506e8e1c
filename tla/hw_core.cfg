SPECIFICATION Spec
CONSTANTS
  N = 2
  Q = 4
  Bufs = {b1, b2, b3}
  NULL = NULL
  TakeTurns = TRUE
  CloseIdle = TRUE
INVARIANTS TypeOK NoStall
PROPERTY FifoSpec
