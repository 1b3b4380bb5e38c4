SPECIFICATION Spec
CONSTANTS
  r1 = r1
  NotThere = NotThere
  Requests = {r1, r2}
  MaxRequests = 3
  Accounts = {"sys", "m", "e"}
  System = "sys"
  CustomRole = "c"
  CustomNames = {"x"}
  CustomRights = {{"roles:write", "timesheets:write:team"}, {}}
  People = {"a"}
  KeyCalls = {k1, k2}
  MaxArrivals = 2
  MaxKeys = 2
  MaxTokens = 1
  MaxChanges = 1
  MaxClock = 1
  TouchEvery = 1
  Expiries = {0, 1}
  Clients = {"c1", "c2"}
  Proxy = "proxy"
  Budgets <- cBudgets
  Fallback <- cFallback
  Collects = 2
  MaxMoment = 3
  MaxSent = 4
  Browsers = {"x", "y"}
  Persons = {"sys", "a", "b"}
  BuiltIn = "sys"
  Subjects = {"s"}
  Credentials = {"k"}
  Issuers = {"", "i"}
  MaxRounds = 2
  RoundLife = 1
  SweepEvery = 1
  MaxHour = 2
  MaxMoves = 2
  Entrants = {1, 2, 3}
  Addresses = {4, 5}
  SystemAddress = 4
  Rows = {1, 2, 3, 4, 5, 6}
  Attributes = {1, 2}
  Identifier <- cIdentifier
  Runners = {"button", "schedule"}
  Starts <- cStarts
INVARIANTS
  RolesStand
  KeysAreTrue
  DoorIsFair
  EndsWithWhoBegan
  RunsKeepTheirWord
PROPERTIES
  AdmittedByRight
  AccountsStayPut
CHECK_DEADLOCK FALSE
