SPECIFICATION DispatcherSpec
CONSTANTS
  s1 = s1
  s2 = s2
  Subs = {s1}
  MaxEvents = 1
  Wants <- MCWants
  MaxAttempts = 1
  PageSize = 1
  MaxCrashes = 0
  MaxStops = 1
  MaxFaults = 0
  None = None
PROPERTIES RecordedAfterClose
