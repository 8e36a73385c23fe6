SPECIFICATION Spec
CONSTANTS
  Scans = {scheduled, manual}
  NoScan = NoScan
  Serial = FALSE
  Symbols = {1, 2}
  Scores <- MCScores
  Adjusts <- MCAdjusts
  Modes = {TRUE, FALSE}
  MinSignalScore = 50
  Normal = 50
  Strong = 65
  VeryStrong = 80
  FloorScore = 35
  MaxWatchHours = 1
  MaxClock = 0
  MaxSignals = 2
  MaxWatches = 3
  MaxFaults = 1
SYMMETRY ScanSymmetry
INVARIANTS
  WatchesAgree
PROPERTIES
  PromotionsClimb
