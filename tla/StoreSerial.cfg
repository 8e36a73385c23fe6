SPECIFICATION Spec
CONSTANTS
  Scans = {scan}
  NoScan = NoScan
  Serial = TRUE
  Symbols = {1, 2}
  Scores <- MCScores
  Adjusts <- MCAdjusts
  Modes = {TRUE, FALSE}
  MinSignalScore = 50
  Normal = 50
  Strong = 65
  VeryStrong = 80
  FloorScore = 35
  MaxWatchHours = 1
  MaxClock = 2
  MaxSignals = 2
  MaxWatches = 3
  MaxFaults = 1
INVARIANTS
  LadderClimbs
PROPERTIES
  PromotedInTime
  AcceptedIsStored
