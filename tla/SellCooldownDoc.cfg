SPECIFICATION Spec
CONSTANTS
  Scans = {scan}
  Serial = TRUE
  Prices <- MCPrices
  StopLossPct = 20
  TakeProfitPct = 30
  TrailingStopPct = 20
  ContextDeterioration = TRUE
  CooldownHours = 2
  MaxClock = 2
  MaxBuys = 1
  MaxSells = 2
  MaxFaults = 0
INVARIANTS
  CooldownPerPosition
