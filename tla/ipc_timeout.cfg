SPECIFICATION FairSpec
CONSTANTS
  p1 = p1
  p2 = p2
  p3 = p3
  Procs = {p1, p2}
  Sems = {"gate"}
  Waitable = {"gate"}
  Trying = {p1}
  Waiting = {p2}
  Sending = {p1}
  Timeouts = {1}
  OwnPlace = TRUE
  MaxTick = 2
  None = None
PROPERTY WaitEnds
