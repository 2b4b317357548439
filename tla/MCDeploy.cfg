SPECIFICATION FairSpec
CONSTANTS
  Last = 3
  Head <- MCHead
  Healthy = {0, 2, 3}
  Reverts = {2}
  None = None
INVARIANTS
  TypeOK
  SchemaSuffices
PROPERTIES
  OnlyMigratedRunsReplaceTheApi
  SuccessIsServed
  EveryRunEnds
CHECK_DEADLOCK FALSE
