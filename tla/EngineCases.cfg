SPECIFICATION EngineSpec
CONSTANTS
  Cases = {c1, c2}
  Grants = {g1, g2}
  Dumps = {d1}
  WellFormed = {d1}
  Analyses = {a1}
  MaxUploads = 1
  MaxChunks = 2
  None = None
SYMMETRY Symmetry
INVARIANTS CaseIsolation AnalysesFollowBytes
PROPERTIES TerminalGrantIsFinal CustodyKept
