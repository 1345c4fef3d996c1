SPECIFICATION FairSpec
CONSTANTS
  v1 = v1
  v2 = v2
  s1 = s1
  Vols = {v1, v2}
  Snaps = {s1}
  None = None
  Calls = {c1, c2}
  Requests <- MCRequests
  Extent = 2
  MaxInt = 7
  MaxRequests = 3
  MaxStages = 1
INVARIANT TypeOK
INVARIANT CapacityIsClosest
PROPERTY DoneAsAsked
PROPERTY DeletedIsGone
PROPERTY GrowsInOrder
PROPERTY CallsReturn
ACTION_CONSTRAINT OneRange
CHECK_DEADLOCK FALSE
