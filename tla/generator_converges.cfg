SPECIFICATION FairSpec
CONSTANTS
  Names = {n1, n2}
  Replicas = {r1}
  Ids = {1, 2}
  NoName = NoName
  Selectors = {"expression", "()"}
  Budget <- Alone

INVARIANTS SettledIsConverted AloneInv
PROPERTIES EventuallyConverted ImplementsMirror
CHECK_DEADLOCK FALSE
