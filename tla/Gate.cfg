CONSTANTS
  Browser = {b1, b2}
  Flow = {f1, f2}
  User = {u1, u2}
  Role = {3}
  LegacyRoles = {3}
  None = None
  SessionLife = 1
  StateLife = 1
  AnswerTime = 1
  BodyTime = 1
  Ip = {i1, i2, i3}
  Path = {p1}
  LoginLimit = 1
  ProbeLimit = 1
  ScanLimit = 1
  Window = 1
  BanBase = 2
  BanCeiling = 2
  MaxTracked = 2
  DrainPeriod = 1
  MaxOffences = 1
  MaxInFlight = 1
SPECIFICATION GateSpec
INVARIANTS
  SignInsAreSeparate
  RoleWasHeld
  BanForgottenOnlyWhenFull
SYMMETRY Alike
