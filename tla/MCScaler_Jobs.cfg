SPECIFICATION Spec
CONSTANTS
  Jobs = {j1, j2}
  HighCPU = {j1}
  Profiles <- MCProfiles
  ProfileOf <- MCProfileOf
  RunnerNames <- MCRunnerNames
  DefaultProfile = "low-cpu"
  IPs = {ip1, ip2, ip3}
  NoIP = NoIP
  NoJob = NoJob
  NoRunner = NoRunner
  NoStats = NoStats
  MaxRunners = 2
  MaxWaiting = 1
  Adaptive = TRUE
  Faults = {"canceljob", "kill", "quit", "metrics", "nostats"}
SYMMETRY IPSymmetry
INVARIANTS
  NoDeficit
  NoUntrackedContainer
  CompletedContainerRemoved
  RecordsTimed
  PendingAccurate
PROPERTIES
  NeverKillsRunningJob
