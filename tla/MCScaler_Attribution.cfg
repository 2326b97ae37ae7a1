SPECIFICATION Spec
CONSTANTS
  Jobs = {j1, j2}
  HighCPU = {j1}
  Profiles <- MCProfiles
  ProfileOf <- MCProfileOf
  RunnerNames <- MCRunnerNames
  DefaultProfile = "low-cpu"
  IPs = {ip1, ip2}
  NoIP = NoIP
  NoJob = NoJob
  NoRunner = NoRunner
  NoStats = NoStats
  MaxRunners = 2
  MaxWaiting = 1
  Adaptive = TRUE
  Faults = {}
SYMMETRY IPSymmetry
INVARIANTS
  RecordsOfOwnJob
