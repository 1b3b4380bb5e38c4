SPECIFICATION Spec
CONSTANTS
  MaxRequests = 3
  Faults = {"updater", "application", "deadline"}
  Screens = {s1}
  Buffer = 2
  Readers = {r1, r2}
  MaxSaid = 2
  MaxSwitchSaves = 2
  CacheTTL = 1
  Capacity = 2
  PipeRoom = 2
  Modes <- cModes
  c1 = c1
  Callers = {c1}
  ClockModes <- cClockModes
  MaxTime = 5
  MaxDelay = 1
  Lifetime = 4
  MaxTouch = 1
  LimitsTTL = 1
  MinIdle = 2
  Idles = {0, 2}
  Loads = {l1, l2}
  Changes = {h1}
  RefreshTicks = 2
  Commands = {}
  Budgets <- cBudgets
PROPERTIES
  NoticeComesDown
  GateSettles
  PipesEmpty
  SessionEnds
  ScreenCatchesUp
CHECK_DEADLOCK FALSE
