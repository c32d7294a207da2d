CONSTANTS
  Filter = {"flag", "session"}
  Conn = {"delayed"}
  Proto = {"legacy"}
  Section = {"users"}
  Query = {"q"}
  Hash = {"settings"}
  None = None
  Loader = {"me", "stats"}  MaxValue = 1  MaxChanges = 2  MaxRounds = 2
  Node = {n1, n2}  MaxCalls = 2
  Place = {p1, p2}  Secret = {k1}  Minute = 1
SPECIFICATION PagesSpec
INVARIANTS
  ReloadKeepsTheView
  RisesAreAnnounced
  DrawerAgrees
PROPERTIES
  PageCatchesUp
  EnrollActsOnItsForm
CHECK_DEADLOCK FALSE
