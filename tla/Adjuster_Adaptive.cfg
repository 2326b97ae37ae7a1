SPECIFICATION FairSpec
CONSTANTS
  Resource = "cpu"
  Baseline = 4
  ProfileMax = 20
  GlobalMax = 32
  HistoryWindow = 2
  ScaleUpPct = 80
  ScaleDownPct = 40
  ScaleNum = 3
  ScaleDen = 2
  Runners = {r1, r2}
  NotRunning = NotRunning
  Demands = {2, 11}
  Windows <- MCWindows
  Faults = {"metrics"}
INVARIANTS
  TypeOK
  WithinBounds
PROPERTIES
  SaturatedNeverShrinks
  Settles
