SPECIFICATION FairSpec
CONSTANTS
  None = None
  Pods = {p, q}
  Cap = 2
  MaxChanges = 4
  MaxUpserts = 1
  MaxRestarts = 1
  DeploymentStates <- SomeDeployments
  PodStates <- SomePods
INVARIANTS
  RegistryTypeOK
  LastWord
  NothingGoneIsShown
  HealthFollowsView
PROPERTIES
  ViewIsRepaired
  ViewSettles
  HealthSettles
CHECK_DEADLOCK FALSE
