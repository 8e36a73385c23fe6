SPECIFICATION Spec
CONSTANTS
  Scans = {scan}
  NoScan = NoScan
  Serial = TRUE
  Symbols <- MCSymbols
  Candidates <- MCCandidates
  MAX_DELIVERY_ATTEMPTS = 2
  HttpRetries = 0
  MaxSignals = 2
  MaxClock = 3
  MaxFaults = 0
  ScanLimit = 1
  Day = 3
  QuietStart = 2
  QuietEnd = 0
  Cooldown = 2
  EscalationJump = 10
INVARIANTS
  CooldownBetweenAlerts
