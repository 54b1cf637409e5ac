SPECIFICATION MCSpec
CONSTANTS
  MaxVer = 3
  Healthy = {1, 3}
  MaxBoots = 3
  MaxCrashes = 1
  MaxForces = 1
  MaxInFlight = 0
  MaxHandlers = 0
  None = None
  Torn = Torn
INVARIANT BootSafe
PROPERTIES  DeliveredBootReported
CHECK_DEADLOCK FALSE
