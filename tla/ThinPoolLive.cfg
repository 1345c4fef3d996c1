SPECIFICATION FairPatientSpec
CONSTANTS
  Nodes = {n1}
  None = None
  Vol = Vol
  Snap = Snap
  PoolCtl = PoolCtl
  Kinds = {"Snapshot", "ThinClone"}
  Deletable = {Vol, Snap}
  MaxSize = 2
  MaxFaults = 1
  MaxElections = 0
INVARIANT TypeOK
PROPERTY CreationCompletes
PROPERTY ExpansionCompletes
PROPERTY DeletionCompletes
PROPERTY IdlePoolIsReleased
ACTION_CONSTRAINT OneDisturbance
CHECK_DEADLOCK FALSE
