CONSTANTS
  Ip = {i1, i2}
  Path = {p1, p2}
  LoginLimit = 2
  ProbeLimit = 2
  ScanLimit = 2
  Window = 2
  BanBase = 2
  BanCeiling = 3
  MaxTracked = 1
  DrainPeriod = 1
  MaxOffences = 2
  MaxInFlight = 1
SPECIFICATION FairSpec
INVARIANTS
  BurstBeforeBan
PROPERTIES
  EndedBansWereReported
  AdmittedAgain
