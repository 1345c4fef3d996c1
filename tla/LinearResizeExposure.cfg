SPECIFICATION Spec
CONSTANTS
  Nodes = {n1, n2}
  Cluster = Cluster
  None = None
  InitSize = 1
  MaxSize = 2
  VolumeType = "Block"
  WipePolicy = "Full"
  SrcSize = 0
  SrcHoles = {}
  MaxStages = 1
  MaxDeletes = 0
  MaxFaults = 0
  MaxElections = 0
INVARIANT ExposedIsSafe
CHECK_DEADLOCK FALSE
