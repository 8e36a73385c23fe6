SPECIFICATION Spec
CONSTANTS
  Scans = {scheduled, manual}
  Serial = FALSE
  Prices <- MCPrices
  StopLossPct = 25
  TakeProfitPct = 30
  TrailingStopPct = 20
  ContextDeterioration = TRUE
  CooldownHours = 1
  MaxClock = 1
  MaxBuys = 1
  MaxSells = 3
  MaxFaults = 1
SYMMETRY ScanSymmetry
INVARIANTS
  AlertsBounded
PROPERTIES
  MarksRise
