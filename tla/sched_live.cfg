SPECIFICATION Spec
CONSTANTS
  N = 2
  W = 3
  Reasons = {"event"}
  TickReasons = {}
  Waits <- OneWait
  Delays = {1, 2}
  Devices <- DeviceOfOne
  Senders = {}
  Mortal = {2}
  Horizon = 6
  DELAY = "delay"
PROPERTIES SupervisorRuns RunnableRuns DelayEnds
