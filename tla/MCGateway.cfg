SPECIFICATION GatewaySpec
CONSTANTS
  Jobs = {j1, j2}
  HighCPU = {j1}
  Profiles <- MCProfiles
  ProfileOf <- MCProfileOf
  RunnerNames <- MCRunnerNames
  DefaultProfile = "low-cpu"
  IPs = {ip1, ip2}
  NoIP = NoIP
  NoJob = NoJob
  NoRunner = NoRunner
  NoStats = NoStats
  MaxRunners = 1
  MaxWaiting = 1
  Adaptive = FALSE
  MaxStarts = 2
  Faults = {"startup","setup","close","crash","conflict"}
SYMMETRY IPSymmetry
INVARIANTS
  GatewayTypeOK
  CurrentScaleSet
  CleanedUp
PROPERTIES
  
  JobsSurviveRestart
CHECK_DEADLOCK FALSE
