SPECIFICATION ServiceSpec
CONSTANTS
  Cases = {c1}
  Grants = {g1}
  Dumps = {d1}
  WellFormed = {d1}
  Analyses = {a1}
  MaxUploads = 1
  MaxChunks = 1
  None = None
  Capacity = 1
  MaxPending = 1
  MaxAttempts = 2
  BatchSize = 1
  MaxAnalyses = 1
  MaxRestarts = 2
  MaxFaults = 3
INVARIANTS DigestIsOfBytes
PROPERTIES
  RecoveryIsComplete PurgeOnlyWhenDue ImplementsEngine
  RecoveryHappens UploadsSettle PurgesFinish
