CONSTANTS
  NULL = NULL
  Keys = {"all", "failed"}
  Jobs = {1, 2}
  Commands = {1, 2}
  Scenes <- ExplorerScenes
  MaxRow = 3
  PageSizes = {1, 2}
  Fields = {"priority"}
  Values = {0, 1}
  Calls = {1, 2}
  Orgs = {1, 2}
  NONE = NONE
  EMPTY = EMPTY
SPECIFICATION PagesSpec
INVARIANTS PagesTypeOK SettledDeleteStaysHidden OfferedCommandAccepted OneSubmissionPerOpening ListOfSelectedOrg SavedPairBelongs
PROPERTIES ExplorerConverges UntouchedFieldsCurrent TurningShowsOtherRows
