SPECIFICATION FairSpec
CONSTANTS
  Names = {a}
  Versions = {1, 2}
  None = None
  RecreateEvery = 1
  EventsCap = 1
  DriftLimit = 3
  AllowRename = FALSE
  Ops = {"create", "config"}
  MaxRequests = 2
  MaxFaults = 1
  MaxCrashes = 0
  MaxTampers = 1
  Budget <- MCBudget
PROPERTY Settles
