SPECIFICATION Spec
CONSTANTS
  Names = {n1}
  Replicas = {r1, r2}
  Ids = {1, 2, 3}
  NoName = NoName
  Selectors = {"expression"}
  Budget <- Rollout
SYMMETRY Symmetry
INVARIANTS TypeOK BoundedDuplicates GeneratorInv
PROPERTIES RollbackIsTransient
CHECK_DEADLOCK FALSE
