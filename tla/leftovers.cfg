SPECIFICATION FairSpec
CONSTANTS
  Names = {a}
  Versions = {1}
  None = None
  RecreateEvery = 2
  EventsCap = 2
  DriftLimit = 3
  AllowRename = FALSE
  Ops = {"create", "reset"}
  MaxRequests = 2
  MaxFaults = 0
  MaxCrashes = 1
  MaxTampers = 0
  Budget <- MCBudget
PROPERTY LeftoversCleanedUp
