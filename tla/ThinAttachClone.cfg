SPECIFICATION Spec
CONSTANTS
  Nodes = {n1, n2}
  Slow = {}
  n1 = n1
  n2 = n2
  None = None
  MaxSize = 1
  MaxStages = 2
  MaxClones = 1
  MaxRestarts = 0
  MaxTerms = 0
  MaxCrashes = 0
INVARIANT StagedIsBacked
ACTION_CONSTRAINT OneDisturbance
CHECK_DEADLOCK FALSE
