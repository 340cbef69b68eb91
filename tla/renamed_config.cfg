SPECIFICATION Spec
CONSTANTS
  Names = {a, b}
  Versions = {1}
  None = None
  RecreateEvery = 2
  EventsCap = 1
  DriftLimit = 3
  AllowRename = TRUE
  Ops = {"create", "config"}
  MaxRequests = 2
  MaxFaults = 0
  MaxCrashes = 0
  MaxTampers = 0
  Budget <- MCBudget
PROPERTY OnlyRecordedServersAppear
