CONSTANTS
  RsiPeriod = 2
  RsiLookback = 3
  Oversold = 30
  AtrPeriod = 2
  AtrLookback = 3
  AtrHigh = 70
  FastPeriod = 2
  SlowPeriod = 3
  Deadband = 1
  VolumePeriod = 2
  ReclaimLookback = 2
  DivergenceWindow = 4
  SwingWindow = 1
  SupportLookback = 4
  Shapes <- MCShapes
  StartPrice = 5
  MaxHours = 12
  FourHours = 2
  Day = 2
  LoadLimit = 5
  DropDays <- MCDropDays
  Levels <- MCLevels
  Points <- MCPoints
  Weights <- MCWeights
  DivergenceEnabled = TRUE
  MinSignalScore = 50
  Normal = 50
  Strong = 55
  VeryStrong = 65
  RiskOn <- MCRiskOn
  RiskOff = 5
SPECIFICATION Spec
CHECK_DEADLOCK FALSE
INVARIANTS
  BudgetsHold
  ReadingsAgree
  TrendFollows
PROPERTIES
  SwingsStay
