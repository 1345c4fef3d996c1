SPECIFICATION FairLifecycleSpec
CONSTANTS
  Nodes = {n1}
  Cluster = Cluster
  None = None
  InitSize = 1
  MaxSize = 1
  VolumeType = "Block"
  WipePolicy = "Full"
  SrcSize = 1
  SrcHoles = {}
  MaxStages = 2
  MaxDeletes = 1
  MaxFaults = 0
  MaxElections = 1
PROPERTY StageCompletes
PROPERTY DeleteCompletes
CHECK_DEADLOCK FALSE
