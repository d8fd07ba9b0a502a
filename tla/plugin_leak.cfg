SPECIFICATION Spec
CONSTANTS
  PerNodeFakeDevices = 2
  Claims = {c1}
  Calls = {k1, k2}
  Handles <- AllHandles
  MaxBatch = 1
  MaxCrashes = 1
  NoCall = NoCall
PROPERTIES UnprepareRemovesSpec
CHECK_DEADLOCK FALSE
