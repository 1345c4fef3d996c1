SPECIFICATION Spec
CONSTANTS
  Exports = {e1}
  Slow = {}
  None = None
  MaxCreates = 1
  MaxJoins = 1
  MaxTerms = 1
  MaxCrashes = 0
INVARIANT ClosedWhenUnused
ACTION_CONSTRAINT OneDisturbance
CHECK_DEADLOCK FALSE
