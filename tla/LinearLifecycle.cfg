SPECIFICATION LifecycleSpec
CONSTANTS
  Nodes = {n1, n2}
  Cluster = Cluster
  None = None
  InitSize = 1
  MaxSize = 1
  VolumeType = "Block"
  WipePolicy = "Full"
  SrcSize = 0
  SrcHoles = {}
  MaxStages = 2
  MaxDeletes = 1
  MaxFaults = 0
  MaxElections = 1
INVARIANT ExposedIsSafe
INVARIANT GoneMeansRemoved
INVARIANT StagedIsBacked
PROPERTY UserDataKept
SYMMETRY NodeSymmetry
ACTION_CONSTRAINT OneUserAtATime
ACTION_CONSTRAINT PromptBystanders
CHECK_DEADLOCK FALSE
