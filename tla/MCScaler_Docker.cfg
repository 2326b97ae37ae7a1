SPECIFICATION Spec
CONSTANTS
  Jobs = {j1, j2}
  HighCPU = {j1}
  Profiles <- MCProfiles
  ProfileOf <- MCProfileOf
  RunnerNames <- MCRunnerNames
  DefaultProfile = "low-cpu"
  IPs = {ip1, ip2, ip3}
  NoIP = NoIP
  NoJob = NoJob
  NoRunner = NoRunner
  NoStats = NoStats
  MaxRunners = 1
  MaxWaiting = 1
  Adaptive = FALSE
  Faults = {"jit", "create", "start", "cleanup", "stop", "remove"}
SYMMETRY IPSymmetry
INVARIANTS
  TypeOK
  StoreMatchesDocker
  NoSurplus
  ForgottenCannotWork
PROPERTIES
  FollowsLifecycle
