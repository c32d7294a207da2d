CONSTANTS
  s1 = s1
  s2 = s2
  s3 = s3
  netA = netA
  netB = netB
  curl = curl
  node = node
  NoIp = NoIp
  Absent = Absent
  Sid = {s1, s2}
  Clients <- TwoClients
  Codes <- FewCodes
  Paths <- OpenOnly
  TopLevel = 1
  MaxNodes = 1
  MaxBytes = 1
  Ttl = 1
  DwellTime = 1
  Durable = FALSE
  RehydrateLimit = 1
  MaxTime = 0
  MaxGen = 0
  MaxCrashes = 1
SPECIFICATION Spec
CHECK_DEADLOCK FALSE
INVARIANTS
  MarkedByOwnFamily
