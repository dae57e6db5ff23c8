SPECIFICATION ServiceSafety
CONSTANTS
  Cases = {c1}
  Grants = {g1}
  Dumps = {d1, d2}
  WellFormed = {d1, d2}
  Analyses = {}
  MaxUploads = 2
  MaxChunks = 1
  None = None
  Capacity = 2
  MaxPending = 1
  MaxAttempts = 2
  BatchSize = 1
  MaxAnalyses = 1
  MaxRestarts = 0
  MaxFaults = 3
SYMMETRY Symmetry
INVARIANTS ServiceAccounted NoDumpForgotten
