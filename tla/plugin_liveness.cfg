SPECIFICATION FairSpec
CONSTANTS
  PerNodeFakeDevices = 2
  Claims = {c1, c2}
  Calls = {k1, k2}
  Handles <- UnknownHandles
  MaxBatch = 2
  MaxCrashes = 0
  NoCall = NoCall
PROPERTIES EveryCallReturns
CHECK_DEADLOCK FALSE
