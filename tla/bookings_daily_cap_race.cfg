SPECIFICATION Spec
CONSTANTS
  None = None
  Off = Off
  Users = {u1, u2}
  Projects = {p1}
  Entries = {e1, e2}
  Reqs = {r1, r2}
  Days = {d1}
  Hours = {1, 2}
  Limits = {0, 2}
  Manages = {}
  EnforceFK = FALSE
  Ops = {"create"}
  MaxRevisions = 0
PROPERTIES DailyCap
CHECK_DEADLOCK FALSE
