CONSTANTS
  s1 = s1
  netA = netA
  curl = curl
  NoIp = NoIp
  Absent = Absent
  Sid = {s1}
  Here = s1
  Player <- ThePlayer
  Clients <- OnlyPlayer
  Codes <- WorldCodes
  Paths <- AnyGate
  TopLevel = 9
  MaxNodes = 20
  MaxBytes = 60
  Ttl = 1
  DwellTime = 1
  Durable = FALSE
  RehydrateLimit = 1
  MaxTime = 0
  MaxGen = 0
  MaxCrashes = 0
CHECK_DEADLOCK FALSE
SPECIFICATION WalkSpec
INVARIANTS
  LevelsAreWithheld
