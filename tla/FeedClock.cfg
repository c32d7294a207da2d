CONSTANTS
  Event = {1,2}
  Malformed = {}
  Limit = 2
  None = None
  MaxTime = 2
  MaxFaults = 0
SPECIFICATION Spec
CHECK_DEADLOCK FALSE
INVARIANTS
  NothingIsLate
