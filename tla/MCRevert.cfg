SPECIFICATION Spec
CONSTANTS
  Last = 3
  Head <- MCHead
  Healthy = {0, 2, 3}
  Reverts = {2}
  None = None
INVARIANTS
  RevertsCanBeDeployed
CHECK_DEADLOCK FALSE
