SPECIFICATION PagesSpec
CONSTANTS
  Routes = {"a", "b"}
  Flows = {"workflow", "link", "revoke", "retention"}
  Ids = {1, 2, 3, 4, 5}
  Matching = {2, 4}
  PageSize = 2
  Opened <- MCOpened
  Sessions = {1, 2, 3}
  MaxPolls = 3
  MaxHides = 2
  Artifacts = {"p", "q"}
  QueueFiles = 2
  MaxUploads = 3
  MaxFiles = 2
  MaxVersion = 2
  MaxActs = 2
  MaxPanelActs = 4
  MaxImports = 1
  MaxPurges = 1
PROPERTIES PagesComeToRest
CHECK_DEADLOCK FALSE
