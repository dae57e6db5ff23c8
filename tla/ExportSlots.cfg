SPECIFICATION StoresSafety
CONSTANTS
  Parts = {"export"}
  d1 = d1
  d2 = d2
  d3 = d3
  s1 = s1
  u1 = u1
  c1 = c1
  c2 = c2
  g1 = g1
  g2 = g2
  None = None
  Customers = {u1, u2}
  Cases = {c1, c2}
  Grants = {g1, g2}
  Dumps = {d1, d2, d3}
  Symbols = {s1}
  Refs <- MCRefs
  SlotLimit = 16
  ExportSlots = {17}
  Exports = {"e1"}
  Sources <- MCSources
  MaxExportCommands = 2
  MaxExportCrashes = 1
  MaxExportFaults = 1
  Imports = {i1, i2}
  Bundles <- MCBundles
  MaxCommands = 2
  MaxCrashes = 2
  MaxFaults = 1
  MaxWipes = 1
  Artifacts = {a1, a2, a3}
  Contents = {"build1", "build2", "image", "text"}
  Identities = {"pdb", "exe"}
  NoIdentity = "none"
  IdentityOf <- MCIdentityOf
  Chunks = 2
  MaxFailures = 2
  Shapes <- MCShapes
  Sizes = {1, 2, 3, 8, 20, 60, 63}
  UInt64Max = 63
  MaxCount = 6
  MaxString = 4
  MaxRecord = 2
  MaxMetadata = 29
  MaxReadFaults = 1
INVARIANTS QuietExportOpens
CHECK_DEADLOCK FALSE
