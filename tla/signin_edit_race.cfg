SPECIFICATION Spec
CONSTANTS
  Gone = Gone
  None = None
  Tokens = {t1, t2}
  Reqs = {r1, r2}
  Ops = {"login", "change", "edit"}
  MaxHashes = 2
  MaxSecrets = 2
  FirstStep = 2
  LastStep = 2
  MayFail = FALSE
CHECK_DEADLOCK FALSE
INVARIANTS NoStaleSession
