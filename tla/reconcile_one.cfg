SPECIFICATION Spec
CONSTANTS
  Names = {a}
  Versions = {1, 2}
  None = None
  RecreateEvery = 1
  EventsCap = 1
  DriftLimit = 3
  AllowRename = FALSE
  Ops = {"create", "delete", "start", "stop", "config", "reset"}
  MaxRequests = 3
  MaxFaults = 1
  MaxCrashes = 0
  MaxTampers = 0
  Budget <- MCBudget
INVARIANTS TypeOK ClearedWhenTornDown
PROPERTIES NoLostWakeup WorldsKept ClearedAsRecorded ChangesFollowTheRecord ServersLeftAlone AnnotationComesLast
