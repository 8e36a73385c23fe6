SPECIFICATION Spec
CONSTANTS
  Scans = {scheduled, manual}
  NoScan = NoScan
  Serial = FALSE
  Symbols = {1}
  Scores <- MCScores
  Adjusts <- MCAdjusts
  Modes = {FALSE}
  MinSignalScore = 50
  Normal = 50
  Strong = 65
  VeryStrong = 80
  FloorScore = 35
  MaxWatchHours = 1
  MaxClock = 1
  MaxSignals = 3
  MaxWatches = 3
  MaxFaults = 1
INVARIANTS
  LadderClimbs
