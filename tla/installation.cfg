SPECIFICATION Spec
CONSTANTS
  Dialects = {"sqlite", "postgres", "mysql"}
  People = {1, 2}
  Booked = {11, 12}
  Releases = {2, 14}
  OwnNames = {"user", "manager", "user-2", "user-admin", "employee-admin"}
  Numbered <- NumberedNames
  MaxUses = 2
  MaxStops = 1
  Databases = {"my", "lite"}
  OnMySQL = {"my"}
  Keys = {"A", "B"}
  Zones = {"Berlin", "Paris", "Lisbon"}
  Browsers = {"b1", "b2"}
  Identity <- OffsetsOf
  FromEnvironment = "none"
  MaxStarts = 3
  MaxWritten = 2
  Collectors = {"c1", "c2"}
  Levels = {"INFO", "DEBUG"}
  Schedules = {"nightly"}
  Servers = {"a", "b"}
  MaxSaves = 2
  MaxRestarts = 2
  Presses = {p1, p2}
  LastVersion = 3
  Broken = {2}
  Restartable = TRUE
  MaxRequests = 3
  Faults = {"updater", "application", "deadline"}
  Screens = {s1}
  Buffer = 2
  Readers = {r1, r2}
  MaxSaid = 3
  MaxSwitchSaves = 1
  CacheTTL = 1
  Capacity = 2
  PipeRoom = 2
  Modes <- cModes
  c1 = c1
  c2 = c2
  Callers = {c1, c2}
  ClockModes <- cClockModes
  MaxTime = 6
  MaxDelay = 1
  Lifetime = 6
  MaxTouch = 1
  LimitsTTL = 1
  MinIdle = 4
  Idles = {0, 3, 4}
INVARIANTS
  UpgradeKeepsEverybody
  StoredMeansTheSame
  RestartHoldsNoSurprise
  UpdateLeavesAProgram
  OwnAnswer
  ScreensAgree
  WholeAndInOrder
  LastsWhileUsed
PROPERTIES
  StartsAsCold
  FollowsTheTail
CHECK_DEADLOCK FALSE
