SPECIFICATION Spec
CONSTANTS
  Nodes = {n1, n2}
  Slow = {n1}
  n1 = n1
  n2 = n2
  None = None
  MaxSize = 2
  MaxStages = 2
  MaxClones = 0
  MaxRestarts = 1
  MaxTerms = 1
  MaxCrashes = 1
INVARIANT TypeOK
INVARIANT StagedIsBacked
PROPERTY ImplementsSharedDisk
ACTION_CONSTRAINT OneDisturbance
CHECK_DEADLOCK FALSE
