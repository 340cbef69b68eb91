SPECIFICATION Spec
CONSTANTS
  Names = {a}
  Versions = {1}
  None = None
  RecreateEvery = 2
  EventsCap = 2
  DriftLimit = 3
  AllowRename = FALSE
  Ops = {"create", "delete", "start"}
  MaxRequests = 3
  MaxFaults = 0
  MaxCrashes = 0
  MaxTampers = 0
  Budget <- MCBudget
PROPERTY OnlyDoomedRecordsAreCleared
