SPECIFICATION Spec
CONSTANTS
  N = 3
  C = 4
  ChunkSize = 256
  Sizes = {64, 256}
  Limit = 3
  Getters = {1, 2, 3}
  Senders = {1}
  Mortal = {2, 3}
  TakeTurns = TRUE
  Quiet = TRUE
  Keeper = 0
INVARIANTS TypeOK FreeList CountExact Exclusive InPool
PROPERTIES OrphanRemembered OrphansReclaimed DefragServed
