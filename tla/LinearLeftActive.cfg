SPECIFICATION FairSpecFrom
CONSTANTS
  Nodes = {n1, n2}
  Cluster = Cluster
  None = None
  InitSize = 1
  MaxSize = 1
  VolumeType = "Block"
  WipePolicy = "Full"
  SrcSize = 0
  SrcHoles = {}
  MaxStages = 0
  MaxDeletes = 0
  MaxFaults = 0
  MaxElections = 1
PROPERTY LeftActiveIsReleased
CHECK_DEADLOCK FALSE
