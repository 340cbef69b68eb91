SPECIFICATION Spec
CONSTANTS
  Names = {a, b}
  Versions = {1}
  None = None
  RecreateEvery = 2
  EventsCap = 1
  DriftLimit = 3
  AllowRename = FALSE
  Ops = {"create", "delete", "purge"}
  MaxRequests = 3
  MaxFaults = 0
  MaxCrashes = 0
  MaxTampers = 0
  Budget <- MCBudget
SYMMETRY AlikeNames
PROPERTIES OnlyRecordedServersAppear WorldsGoOnRequest
