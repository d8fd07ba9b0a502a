SPECIFICATION Spec
CONSTANTS
  PerNodeFakeDevices = 3
  Claims = {c1, c2}
  Handles = {}
  MaxBatch = 1
  Models = {"ultra10", "ultra100"}
  Parameters <- AroundZero
INVARIANTS CountTimesSplit ClaimsAreDistinct ClaimAloneIsShown ModelAsAsked
CHECK_DEADLOCK FALSE
