SPECIFICATION PatientSpec
CONSTANTS
  Nodes = {n1, n2}
  None = None
  Vol = Vol
  Snap = Snap
  PoolCtl = PoolCtl
  Kinds = {"LinearClone"}
  Deletable = {}
  MaxSize = 1
  MaxFaults = 0
  MaxElections = 1
INVARIANT PopulationSourceActive
SYMMETRY NodeSymmetry
ACTION_CONSTRAINT FewDisturbances
CHECK_DEADLOCK FALSE
