SPECIFICATION FairSpecFrom
CONSTANTS
  Nodes = {n1, n2}
  Cluster = Cluster
  None = None
  InitSize = 3
  MaxSize = 4
  VolumeType = "Block"
  WipePolicy = "Full"
  SrcSize = 2
  SrcHoles = {2}
  MaxStages = 0
  MaxDeletes = 0
  MaxFaults = 2
  MaxElections = 1
INVARIANT TypeOK
INVARIANT SafeOffsetIsWiped
INVARIANT SafeOffsetKept
PROPERTY CreationCompletes
PROPERTY ExpansionCompletes
ACTION_CONSTRAINT PromptBystanders
CHECK_DEADLOCK FALSE
