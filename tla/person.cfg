SPECIFICATION PersonSpec
CONSTANTS
  Gone = Gone
  None = None
  Tokens = {t1, t2}
  Reqs = {r1, r2}
  Ops = {"login", "change", "reset", "confirm", "disable", "delete"}
  MaxHashes = 3
  MaxSecrets = 2
  FirstStep = 2
  LastStep = 3
  MayFail = FALSE
  Off = Off
  Clocks = {c1, c2, c3}
  Calls = {r1, r2}
  TimerOps = {"start", "stop", "switch", "adjust", "discard"}
  MinSpan = 1
  MaxSpan = 2
  MaxTime = 3
  MaxEntries = 3
  Modes <- cModes
SYMMETRY IdSymmetry
INVARIANTS
  FactorProven
  NoStaleSession
  CodeSpentOnce
  Measured
  OneClientAccounts
PROPERTIES
  NoPasswordReturns
  NoClockComesBack
  SwitchMeets
CHECK_DEADLOCK FALSE
