CONSTANTS
  s1 = s1
  s2 = s2
  s3 = s3
  netA = netA
  netB = netB
  curl = curl
  node = node
  NoIp = NoIp
  Absent = Absent
  Sid = {s1}
  Clients <- OneClient
  Codes <- EveryKind
  Paths <- OpenAndGated
  TopLevel = 3
  MaxNodes = 1
  MaxBytes = 3
  Ttl = 1
  DwellTime = 1
  Durable = FALSE
  RehydrateLimit = 1
  MaxTime = 1
  MaxGen = 1
  MaxCrashes = 1
SPECIFICATION FairSpec
CHECK_DEADLOCK FALSE
INVARIANTS
  LadderContiguous
  FlagsMatchProgress
  FlagsReachBusInOrder
PROPERTIES
  EnclosureFreezesWorld
  ImplementsLadder
  FlagsAnnounced
