CONSTANTS
  Event = {1,2,3}
  Malformed = {3}
  Limit = 2
  None = None
  MaxTime = 2
  MaxFaults = 2
SPECIFICATION FairSpec
CHECK_DEADLOCK FALSE
INVARIANTS
  NothingSkipped
PROPERTIES
  ImplementsCollection
  EverythingCollected
