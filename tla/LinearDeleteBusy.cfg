SPECIFICATION FairSpecFrom
CONSTANTS
  Nodes = {n1}
  Cluster = Cluster
  None = None
  InitSize = 1
  MaxSize = 2
  VolumeType = "Block"
  WipePolicy = "Full"
  SrcSize = 0
  SrcHoles = {}
  MaxStages = 0
  MaxDeletes = 1
  MaxFaults = 0
  MaxElections = 1
PROPERTY UnlabelledIsReleased
ACTION_CONSTRAINT DeletedWhenReported
CHECK_DEADLOCK FALSE
