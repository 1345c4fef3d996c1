SPECIFICATION PatientSpec
CONSTANTS
  Nodes = {n1, n2}
  None = None
  Vol = Vol
  Snap = Snap
  PoolCtl = PoolCtl
  Kinds = {"Snapshot", "ThinClone"}
  Deletable = {Vol, Snap}
  MaxSize = 1
  MaxFaults = 0
  MaxElections = 1
INVARIANT SpecCoversStatus
INVARIANT SnapshotSourceKept
INVARIANT ActiveStatusIsReal
INVARIANT PopulationSourceActive
INVARIANT GoneMeansRemoved
ACTION_CONSTRAINT FewDisturbances
SYMMETRY NodeSymmetry
ACTION_CONSTRAINT PromptBystanders
CHECK_DEADLOCK FALSE
