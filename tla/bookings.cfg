SPECIFICATION PartsSpec
CONSTANTS
  u1 = u1
  u2 = u2
  None = None
  Off = Off
  Users = {u1, u2}
  Projects = {p1, p2}
  Entries = {e1, e2}
  Reqs = {r1, r2}
  Days = {d1}
  Hours = {1, 2}
  Limits = {0, 2}
  Manages <- NobodyManages
  EnforceFK = FALSE
  Ops = {"create", "update", "transfer", "delete", "project", "drop", "clock", "clear", "remove", "purge", "limits"}
  MaxRevisions = 2
SYMMETRY IdSymmetry
INVARIANTS
  TypeOK
  OnOwnProject
  NoOrphans
PROPERTIES
  HistoryKept
  DailyCap
CHECK_DEADLOCK FALSE
