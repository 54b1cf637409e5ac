SPECIFICATION FairSpec
CONSTANTS
  None = None
  Torn = Torn
  MaxVer = 3
  Healthy = {1, 2}
  Updating = {1, 2, 3}
  AdminPushes = TRUE
  MaxSetups = 1
INVARIANT AppUpdateSafe
PROPERTY KioskRecovers
