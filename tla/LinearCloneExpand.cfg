SPECIFICATION FairSpecFrom
CONSTANTS
  Nodes = {n1}
  Cluster = Cluster
  None = None
  InitSize = 1
  MaxSize = 2
  VolumeType = "Block"
  WipePolicy = "Full"
  SrcSize = 1
  SrcHoles = {}
  MaxStages = 0
  MaxDeletes = 0
  MaxFaults = 0
  MaxElections = 0
PROPERTY CloneIsIndependent
CHECK_DEADLOCK FALSE
