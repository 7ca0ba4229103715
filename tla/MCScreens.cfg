SPECIFICATION Spec
CONSTANTS
  MaxRuns = 2
  MaxChanges = 3
  MaxInFlight = 2
  MaxPollers = 1
  DensityViews = {"v1", "v2"}
  Densities = {"compact"}
  PresetIds = {1, 2, 3}
  Definitions = {"d1", "d2"}
  MaxPresets = 2
  MaxWrites = 2
  MaxFaults = 1
  RowIds = {1, 2, 3}
  Selectable = {1, 2}
  Ids = {1, 2, 3}
  Stored = {1, 2}
  Txns = {11, 12}
  MaxSaves = 2
  Formats = {"pdf", "csv"}
  MaxLevels = 2
  MaxUses = 3
  Codes = {"A"}
  None = None
  Key <- SortKeys
  Parent <- RowParents
  Filters <- QuickFilters
  TreeAmount <- RowAmounts
  DefaultsExpanded <- Expansions
  Defaults <- DefaultPresets
  TxnAmount <- Amounts
  Account <- Accounts
  Drafts <- CategoryDrafts
INVARIANTS
  TypeOK
  ShownFits
  TablesSound
  ReportFits
  ExportSound
PROPERTIES
  NothingLost
  PreviewFits
CHECK_DEADLOCK FALSE
