SPECIFICATION FairSpec
CONSTANTS
  Names = {a}
  Versions = {1, 2}
  None = None
  RecreateEvery = 2
  EventsCap = 1
  DriftLimit = 3
  AllowRename = FALSE
  Ops = {"create", "delete", "stop", "config", "reset"}
  MaxRequests = 2
  MaxFaults = 1
  MaxCrashes = 1
  MaxTampers = 0
  Budget <- MCBudget
PROPERTIES DeletesFinish 
