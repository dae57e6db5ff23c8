SPECIFICATION PagesSafety
CONSTANTS
  Routes = {"a", "b"}
  Flows = {"workflow", "link", "revoke", "retention"}
  Ids = {1, 2, 3, 4, 5}
  Matching = {2, 4}
  PageSize = 2
  Opened <- MCOpened
  Sessions = {1, 2, 3}
  MaxPolls = 3
  MaxHides = 2
  Artifacts = {"p", "q"}
  QueueFiles = 2
  MaxUploads = 4
  MaxFiles = 3
  MaxVersion = 3
  MaxActs = 3
  MaxPanelActs = 3
  MaxImports = 2
  MaxPurges = 2
INVARIANTS UploadIsTrue PagesAreCurrent
PROPERTIES NeverGoesBack
CHECK_DEADLOCK FALSE
