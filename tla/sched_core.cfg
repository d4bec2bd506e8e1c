SPECIFICATION Spec
CONSTANTS
  N = 2
  W = 3
  Reasons = {"event"}
  TickReasons = {"event"}
  Waits <- OneWait
  Delays = {1, 2}
  Devices <- DeviceOfOne
  Senders = {1}
  Mortal = {2}
  Horizon = 3
  DELAY = "delay"
INVARIANTS TypeOK NoStarvation NoSpuriousWake DelayElapsed ReasonsKept
PROPERTY DeadForever
