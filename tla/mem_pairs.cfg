SPECIFICATION Spec
CONSTANTS
  N = 3
  C = 7
  ChunkSize = 256
  Sizes = {300, 512}
  Limit = 6
  Getters = {1, 2, 3}
  Senders = {1, 3}
  Mortal = {}
  TakeTurns = TRUE
  Quiet = FALSE
  Keeper = 1
INVARIANTS Exclusive
