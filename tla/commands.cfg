SPECIFICATION FairSpec
CONSTANTS
  CommandLines <- GivenLines
  Environments <- SetEnvironments
INVARIANTS EffectiveValues OneCluster WorksAsAsked
PROPERTIES FailedServerEnds
CHECK_DEADLOCK FALSE
