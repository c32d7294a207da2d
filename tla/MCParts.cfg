CONSTANTS
  Msg = {m1, m2}
  Skew = 2
  Keep = 4
  Drift = 3
  MaxNow = 8
  None = None
  MaxForwarded = 3  Batch = 2  ForwardQueue = 2  ForwardRetries = 1  MaxDenied = 1
  MaxAccepted = 7  BatchSize = 2  HecQueue = 3  HecRetries = 1
  Name = {n1}  Config = {c1, c2}  Job = {j1}  Bundle = {e1, e2, e3}
  CtiRetries = 1  CtiQueue = 1
  Client = {x1, x2}  MaxEmitted = 2
  FlushLines = 3  MaxLines = 4  MaxRecords = 7  MaxFailures = 3
  Site = {s1, s2, s3}  Worker = {w1, w2}
  Version = {1, 2}  MaxBuilds = 2  Size = {1, 2}
  MaxVersion = 2  Body = {b1, b2}  MaxSaves = 3
  Limit = 2  Window = 2  MaxTime = 4
SPECIFICATION PartsSpec
INVARIANTS
  HandledOnce
  ExportsAccount
  RecordsAgree
  LogKeepsOrder
  PollsStayApart
PROPERTIES
  CatalogsKeepTheirWord
  PartsKeepGoing
CHECK_DEADLOCK FALSE
