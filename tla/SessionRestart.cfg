CONSTANTS
  s1 = s1
  s2 = s2
  s3 = s3
  netA = netA
  netB = netB
  curl = curl
  node = node
  NoIp = NoIp
  Absent = Absent
  Sid = {s1, s2}
  Clients <- ManyClients
  Codes <- OneCode
  Paths <- OpenOnly
  TopLevel = 1
  MaxNodes = 0
  MaxBytes = 0
  Ttl = 0
  DwellTime = 1
  Durable = TRUE
  RehydrateLimit = 2
  MaxTime = 1
  MaxGen = 0
  MaxCrashes = 1
SPECIFICATION Spec
SYMMETRY AnySid
CHECK_DEADLOCK FALSE
INVARIANTS
  SessionServesOneFamily
  RowsFollowSessions
