SPECIFICATION StopwatchSpec
CONSTANTS
  Off = Off
  Clocks = {c1}
  Calls = {r1, r2}
  TimerOps = {"start", "stop", "switch", "adjust", "discard"}
  MinSpan = 1
  MaxSpan = 2
  MaxTime = 3
  MaxEntries = 2
  Modes <- cOverlapping
CHECK_DEADLOCK FALSE
INVARIANTS BookedOnce
