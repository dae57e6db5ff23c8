SPECIFICATION DispatcherSpec
CONSTANTS
  s1 = s1
  s2 = s2
  Subs = {s1, s2}
  MaxEvents = 2
  Wants <- MCWants
  MaxAttempts = 2
  PageSize = 2
  MaxCrashes = 1
  MaxStops = 1
  MaxFaults = 1
  None = None
INVARIANTS CursorSkipsNothing PostsBounded
PROPERTIES TapKept EventsSettle
