SPECIFICATION Spec
CONSTANTS
  p1 = p1
  p2 = p2
  p3 = p3
  Procs = {p1, p2, p3}
  Sems = {"lock", "gate"}
  Waitable = {"gate"}
  Trying = {p1, p2}
  Waiting = {p2, p3}
  Sending = {p1}
  Timeouts = {0, 1}
  OwnPlace = TRUE
  MaxTick = 1
  None = None
INVARIANTS TypeOK WaiterKnown FreeIsTold GrantExplained ReleaseReaches
