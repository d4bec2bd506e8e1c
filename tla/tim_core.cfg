SPECIFICATION Spec
CONSTANTS
  T = 3
  W = 4
  Ids = {0, 1}
  Counts = {2}
INVARIANTS TypeOK ExpiriesKept
PROPERTIES NotEarly OnTime PeriodicFires
