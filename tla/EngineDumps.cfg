SPECIFICATION EngineSpec
CONSTANTS
  Cases = {c1}
  Grants = {g1}
  Dumps = {d1, d2}
  WellFormed = {d1, d2}
  Analyses = {}
  MaxUploads = 2
  MaxChunks = 1
  None = None
SYMMETRY Symmetry
INVARIANTS TypeOK LedgerMatchesVault DownloadableIsProven SlotsAccounted
PROPERTIES VaultIsImmutable
