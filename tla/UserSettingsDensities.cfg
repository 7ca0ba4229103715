SPECIFICATION Spec
CONSTANTS
  Views = {"v1", "v2"}
  Densities = {"compact"}
  PresetIds = {1}
  Definitions = {"d1"}
  Defaults <- NoDefaults
  MaxPresets = 1
  MaxWrites = 2
  MaxFaults = 1
  None = None
PROPERTY
  DensitiesNeverDropped
CHECK_DEADLOCK FALSE
