CONSTANTS
  Command <- OverlapCommands
  Call = {a, b}
  a = a
  b = b
  Default <- MCDefault
  ControlPort = "ctl"
  None = None
  MaxRuns = 2
  MaxFaults = 1
SPECIFICATION FairSpec
CHECK_DEADLOCK FALSE
INVARIANTS
  StartableConfig
  RotatesOnce
PROPERTIES
  NotAgainAfterAnswer
  RestartCompletes
