SPECIFICATION FairSystemSpec
CONSTANTS
  PerNodeFakeDevices = 2
  Claims = {c1, c2}
  Calls = {k1, k2}
  Handles <- Contended
  MaxBatch = 1
  MaxCrashes = 2
  MaxTimeouts = 1
  NoCall = NoCall
INVARIANTS RunningHasSpec ExclusiveDevices OneCrashIsSurvived PanicIsOutOfReach CallersInv
PROPERTIES ReleasedIsFreed
CHECK_DEADLOCK FALSE
