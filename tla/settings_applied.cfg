SPECIFICATION FairSpec
CONSTANTS
  Names = {a}
  Versions = {1, 2}
  None = None
  RecreateEvery = 2
  EventsCap = 2
  DriftLimit = 3
  AllowRename = FALSE
  Ops = {"create", "config"}
  MaxRequests = 2
  MaxFaults = 0
  MaxCrashes = 0
  MaxTampers = 1
  Budget <- MCBudget
PROPERTY SettingsApplied
