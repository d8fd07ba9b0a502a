SPECIFICATION Spec
CONSTANTS
  PerNodeFakeDevices = 2
  Claims = {c1, c2}
  Calls = {k1, k2}
  Handles <- AllHandles
  MaxBatch = 2
  MaxCrashes = 1
  NoCall = NoCall
SYMMETRY Symmetry
INVARIANTS TypeOK OneCallAtATime PreparedHasSpec SpecIsAccountedFor HandlerInv
PROPERTIES AnswerIsOnDisk UnprepareRemovesOwnSpec ImplementsBinding
CHECK_DEADLOCK FALSE
