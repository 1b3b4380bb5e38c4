SPECIFICATION Spec
CONSTANTS
  Places <- cPlaces
  FirstYear = 1990
  LastYear = 2110
  FirstDay <- cFirstDay
  LastDay <- cLastDay
  Kinds = {"vacation", "halfVacation", "flexDay", "sick"}
  Ranges <- cRanges
  PlaceChoices = {"", "none", "US", "GB-ENG", "XX"}
  Years = {2021, 2022, 2023}
  Entitlements = {4}
  LookBack = 3
  Starts <- cStarts
  MaxEdits = 2
  LastDate = 4
  Clocks <- cClocks
  MaxRecords = 4
  Files <- cFiles
  Copies <- cCopies
  Stores <- cStores
  Cap = 8
  Text <- cText
  CurrentDay = 5
  ForeignKeys = TRUE
  MaxUploads = 2
  MaxMeddling = 2
  Loads = {l1, l2}
  Changes = {h1}
  RefreshTicks = 2
  Commands = {"help", "status", "today", "start", "stop", "switch", "book"}
  Budgets <- cBudgets
INVARIANTS ImportedAgainChangesNothing
CHECK_DEADLOCK FALSE
