SPECIFICATION Spec
CONSTANTS
  Nodes = {n1}
  Cluster = Cluster
  None = None
  InitSize = 1
  MaxSize = 3
  VolumeType = "Block"
  WipePolicy = "Full"
  SrcSize = 0
  SrcHoles = {}
  MaxStages = 0
  MaxDeletes = 0
  MaxFaults = 0
  MaxElections = 0
INVARIANT SafeOffsetIsWiped
CHECK_DEADLOCK FALSE
