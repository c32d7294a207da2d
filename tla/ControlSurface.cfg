CONSTANTS
  Command <- SurfaceCommands
  Call = {a, b}
  a = a
  b = b
  Default <- MCDefault
  ControlPort = "ctl"
  None = None
  MaxRuns = 2
  MaxFaults = 2
SPECIFICATION Spec
CHECK_DEADLOCK FALSE
SYMMETRY Symmetry
INVARIANTS
  SurfaceAgrees
  EngineGenerationAgrees
