SPECIFICATION FairSpec
CONSTANTS
  Exports = {e1, e2}
  Slow = {}
  None = None
  MaxCreates = 3
  MaxJoins = 1
  MaxTerms = 1
  MaxCrashes = 1
INVARIANT TypeOK
INVARIANT ServesOwnDevice
INVARIANT ServedAsDeclared
PROPERTY NeverCutsClients
PROPERTY ShutdownCompletes
PROPERTY DeletionCompletes
ACTION_CONSTRAINT OneDisturbance
CHECK_DEADLOCK FALSE
