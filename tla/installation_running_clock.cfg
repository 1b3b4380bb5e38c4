SPECIFICATION Spec
CONSTANTS
  Dialects = {"postgres"}
  People = {1, 2}
  Booked = {11, 12}
  Releases = {2, 14}
  OwnNames = {}
  Numbered <- NumberedNames
  MaxUses = 2
  MaxStops = 0
  Databases = {"my", "lite"}
  OnMySQL = {"my"}
  Keys = {"A", "B"}
  Zones = {"Berlin", "Paris", "Lisbon"}
  Browsers = {"b1", "b2"}
  Identity <- OffsetsOf
  FromEnvironment = "none"
  MaxStarts = 1
  MaxWritten = 2
  Collectors = {"c1", "c2"}
  Levels = {"INFO", "DEBUG"}
  Schedules = {"nightly"}
  Servers = {"a", "b"}
  MaxSaves = 1
  MaxRestarts = 0
  Presses = {p1, p2}
  LastVersion = 2
  Broken = {2}
  Restartable = TRUE
  MaxRequests = 1
  Faults = {"updater", "application", "deadline"}
  Screens = {s1}
  Buffer = 2
  Readers = {r1, r2}
  MaxSaid = 1
  MaxSwitchSaves = 1
  CacheTTL = 1
  Capacity = 2
  PipeRoom = 2
  Modes <- cModes
  c1 = c1
  c2 = c2
  Callers = {c1, c2}
  ClockModes <- cClockModes
  MaxTime = 2
  MaxDelay = 1
  Lifetime = 6
  MaxTouch = 1
  LimitsTTL = 1
  MinIdle = 4
  Idles = {0, 3, 4}
INVARIANTS UnclaimedProjectsGo
CHECK_DEADLOCK FALSE
