CONSTANTS
  Command <- MoveCommands
  Call = {a, b}
  a = a
  b = b
  Default <- MCDefault
  ControlPort = "ctl"
  None = None
  MaxRuns = 1
  MaxFaults = 0
SPECIFICATION Spec
CHECK_DEADLOCK FALSE
SYMMETRY Symmetry
INVARIANTS
  SurfaceAlwaysAgrees
