SPECIFICATION FairSpec
CONSTANTS
  Nodes = {n1, n2}
  Slow = {}
  n1 = n1
  n2 = n2
  None = None
  MaxSize = 2
  MaxStages = 2
  MaxClones = 1
  MaxRestarts = 1
  MaxTerms = 1
  MaxCrashes = 0
PROPERTY CallsReturn
PROPERTY DevicesSettle
ACTION_CONSTRAINT Patient
ACTION_CONSTRAINT OneDisturbance
CHECK_DEADLOCK FALSE
