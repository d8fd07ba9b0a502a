SPECIFICATION Spec
CONSTANTS
  Names = {n1}
  Replicas = {r1}
  Ids = {1, 2}
  NoName = NoName
  Selectors = {"expression"}
  Budget <- Recreating

INVARIANTS SettledIsConverted
CHECK_DEADLOCK FALSE
