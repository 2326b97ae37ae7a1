SPECIFICATION FairSpec
CONSTANTS
  Jobs = {j1, j2}
  HighCPU = {j1}
  Profiles <- MCProfiles
  ProfileOf <- MCProfileOf
  RunnerNames <- MCRunnerNames
  DefaultProfile = "low-cpu"
  IPs = {ip1, ip2}
  NoIP = NoIP
  NoJob = NoJob
  NoRunner = NoRunner
  NoStats = NoStats
  MaxRunners = 1
  MaxWaiting = 1
  Adaptive = FALSE
  Faults = {"getmessage", "ack", "shutdown"}
INVARIANTS
  HandledExactlyOnce
PROPERTIES
  EveryJobCompletes
  ContainersGoAway
  ShutdownReturns
CHECK_DEADLOCK FALSE
